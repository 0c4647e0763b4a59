SPECIFICATION Spec
CONSTANTS
    t1 = t1
    t2 = t2
    Thread = {t1, t2}
    Environments <- MCEnvironments
    Similar <- MCSimilar
    Asked = {"assemble_program_name", "hanging_indent"}
    Yesno = {5}
    Columns <- MCColumns
    Name = {"", "prog"}
INVARIANTS TypeOK ReadsOnce ErrnoKept AnswersPromised
PROPERTIES CallReturns
