------------------------------ MODULE IsrTest ------------------------------
(***************************************************************************)
(* lecture5/isrcnt/isrtest.c, the test program of the driver in IsrCnt:    *)
(* one process opens the button, reads a number of lines, splits each and  *)
(* puts it into a table of four columns, then sums up their differences.   *)
(***************************************************************************)
EXTENDS IsrCnt, Sequences
LOCAL INSTANCE SequencesExt

CONSTANTS
    Tester,         \* the process, one of Threads
    Samples         \* argv[1]: how many lines it reads

VARIABLES
    fate,           \* "new", "running", "crashed", "done"
    table,          \* the rows, of the columns cnt_isr, val_isr, cnt_read, val_read
    diffs,          \* cnt_diff and val_diff
    lines           \* history: the lines that were read

tvars == <<fate, table, diffs, lines>>

TInit ==
    /\ Init
    /\ fate = "new" /\ table = <<>> /\ diffs = <<0, 0>> /\ lines = <<>>

\* How the driver prints a line, and what a row of the table is for.
Printed == <<"cnt_isr", "cnt_read", "isr_but_val", "read_but_val">>
PrintedSep == "tab"
Tabled == <<"cnt_isr", "isr_but_val", "cnt_read", "read_but_val">>
s == ":"

\* strtok cuts at s, up to four tokens, and atoi takes the number that a token
\* begins with: a line without an s is one token.
split(l) == [k \in 1..(IF PrintedSep = s THEN 4 ELSE 1) |-> l[Printed[k]]]

\* atoi of a token that is not there is the end of the program.
insert(tokens) ==
    IF Len(tokens) < 4 THEN fate' = "crashed" /\ UNCHANGED table
                       ELSE table' = Append(table, tokens) /\ UNCHANGED fate

\* The sums over the rows.
treat(a, b) == FoldLeft(LAMBDA sum, row : sum + row[a] - row[b], 0, table)

\* The driver, with a user who does what main does.
TOpen ==
    /\ fate = "new" /\ OpenCall(Tester)
    /\ fate' = "running"
    /\ UNCHANGED <<table, diffs, lines>>

TRead ==
    /\ fate = "running" /\ Len(table) < Samples
    /\ ReadCall(Tester)
    /\ UNCHANGED tvars

TLine ==
    /\ Return(Tester)
    /\ lines' = Append(lines, line[Tester])
    /\ insert(split(line[Tester]))
    /\ UNCHANGED diffs

TClose ==
    /\ fate = "running" /\ Len(table) = Samples
    /\ Close(Tester)
    /\ diffs' = <<treat(1, 3), treat(2, 4)>>
    /\ fate' = "done"
    /\ UNCHANGED <<table, lines>>

TNext ==
    \/ TOpen \/ TRead \/ TLine \/ TClose
    \/ /\ LoadCdev \/ LoadIrq \/ but_ISR \/ (pc[Tester] # "copy" /\ Step(Tester))
       /\ UNCHANGED tvars

TSpec == TInit /\ [][TNext]_<<vars, tvars>>

\* The names of the table's columns (isrtest.c, 26) are those of what is in them:
\* every line that was read is a row of the counts and levels it reports.
ColumnsNamed ==
    /\ fate # "crashed"
    /\ Len(table) = Len(lines)
    /\ \A j \in DOMAIN table : \A k \in 1..4 : table[j][k] = lines[j][Tabled[k]]
=============================================================================
