\* A configuration "A" answers an Export of "a": the collation makes the
\* lookup case-insensitive, against the export name as a unique string key.
CONSTANTS
    Names <- MCNames
    Lower <- MCLower
SPECIFICATION Spec
INVARIANT ResolvesExportName
