\* Generate is called once and returns: it stops.
SPECIFICATION Spec
CHECK_DEADLOCK FALSE
CONSTANTS
    Schemas <- AllSchemas
    Words <- MCWords
    Pascal <- MCPascal
    Ordinals <- MCOrdinals
INVARIANTS
    TypeOK
    ParsedAsWritten
    AdapterCoversInterface
    CompilesIfNonEmpty
