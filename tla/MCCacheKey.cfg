\* Export names without ":" (policy names with it): keys never collide.
CONSTANTS
    ExportNames <- MCPlainExportNames
    PolicyNames <- MCPolicyNames
SPECIFICATION Spec
INVARIANT ExportReadsOwnResult
