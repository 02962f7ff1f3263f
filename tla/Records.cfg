SPECIFICATION Spec
INVARIANTS
    FieldsReadBack
    BrokenIsReported
    ShownAsItsClass
CHECK_DEADLOCK FALSE
