------------------------------ MODULE CsvLoader ------------------------------
(***************************************************************************)
(* redis_fpga.c: the CSV-to-Redis loader and its query workload.           *)
(*                                                                         *)
(* main (420-500) maps the Enzian memory window as an arena                *)
(* (SetupEnzianMemoryMapping, 56-84), connects to Redis, and calls         *)
(* load_dataset_generic (164-261).  That function reads the whole file     *)
(* into an arena buffer (read_file_into_buffer and fpga_alloc), takes the  *)
(* header line as the column names and the first data row for type        *)
(* inference, writes the schema hash, and stores each later non-empty line *)
(* as the hash row:<n>.  Unless only loading was asked for, main then runs *)
(* the select, projection and aggregation queries over row:1..row:<count>. *)
(*                                                                         *)
(* The file is a sequence of characters from a small alphabet: a digit     *)
(* "1", a letter "a", the separator ",", a carriage return "CR" and a line *)
(* feed "NL".  next_line and strtok_r are modelled by what they do to      *)
(* such a sequence.  Redis is a set of <<row, field, value>> triples with  *)
(* HSET's overwrite semantics; the server is assumed to answer every       *)
(* command.                                                                *)
(***************************************************************************)
EXTENDS Integers, Sequences, SequencesExt

CONSTANTS
  Files,     \* the datasets the file may hold: byte sequences
  MAX_COLS,  \* the capacity of schema[] and tokens[] (32 in the code)
  MapBytes   \* the size of the mapped arena (map_gb GiB in the code)

Bytes == {"1", "a", ",", "CR", "NL"}

ASSUME \A f \in Files : f \in Seq(Bytes)
ASSUME MAX_COLS \in Nat \ {0} /\ MapBytes \in Nat

\* A value read from an element of tokens[] that was never assigned.
UNINIT == <<"?">>

VARIABLES
  file,       \* the dataset's bytes
  loadOnly,   \* argv[2] is "load"
  mapped,     \* SetupEnzianMemoryMapping succeeded: gArenaBase != NULL
  pc,         \* where main is
  cursor,     \* next_line's cursor: index of the next unread byte
  cols,       \* the number of columns (*ns)
  names,      \* names[i]: schema[i].name
  isInt,      \* isInt[i]: schema[i].is_int
  tokens,     \* tokens[i]: the first data row's i-th token
  row,        \* the row counter of load_dataset_generic
  store,      \* the row hashes in Redis: <<row, field, value>> triples
  schemaHash, \* the hash "schema" in Redis: <<name, type>> pairs
  ub,         \* an uninitialised element of tokens[] has been read
  rowCount,   \* the value load_dataset_generic returned
  projTotal,  \* query_projection_generic's total_sum
  projCount,  \* query_projection_generic's count
  aggSum      \* query_aggregation_generic's global_sum

vars == <<file, loadOnly, mapped, pc, cursor, cols, names, isInt, tokens,
          row, store, schemaHash, ub, rowCount, projTotal, projCount, aggSum>>

(***************************************************************************)
(* String routines                                                         *)
(***************************************************************************)

\* Variant of next_line that does not trim the carriage return.
NextLineKeepCR(b, c) ==
  IF c > Len(b) THEN [line |-> UNINIT, cur |-> c, null |-> TRUE]
  ELSE LET nls == {j \in c..Len(b) : b[j] = "NL"}
       IN  IF nls # {}
             THEN [line |-> SubSeq(b, c, Min(nls) - 1), cur |-> Min(nls) + 1,
                   null |-> FALSE]
             ELSE [line |-> SubSeq(b, c, Len(b)), cur |-> Len(b) + 1,
                   null |-> FALSE]

(* next_line(&cursor): NULL at the terminating NUL; otherwise the bytes up *)
(* to the next '\n' (overwritten with NUL), with one trailing '\r' cut, and *)
(* the cursor moved past the '\n'; the last line, without '\n', is returned *)
(* as it is and the cursor left at the NUL.                                *)
NextLine(b, c) ==
  IF c > Len(b) THEN [line |-> UNINIT, cur |-> c, null |-> TRUE]
  ELSE LET nls == {j \in c..Len(b) : b[j] = "NL"}
       IN  IF nls # {}
             THEN LET s == SubSeq(b, c, Min(nls) - 1)
                  IN  [line |-> IF s # <<>> /\ Last(s) = "CR" THEN Front(s) ELSE s,
                       cur |-> Min(nls) + 1, null |-> FALSE]
             ELSE [line |-> SubSeq(b, c, Len(b)), cur |-> Len(b) + 1,
                   null |-> FALSE]

(* The successive tokens strtok_r(line, ",", &saveptr) returns: each call  *)
(* skips any run of ',' and returns the bytes up to the next ',' or the    *)
(* end, so an empty field never yields a token.                            *)
RECURSIVE StrtokFrom(_, _)
StrtokFrom(s, i) ==
  IF i > Len(s) THEN <<>>
  ELSE IF s[i] = "," THEN StrtokFrom(s, i + 1)
  ELSE LET ends == {j \in i..Len(s) : s[j] = ","}
           e == IF ends = {} THEN Len(s) + 1 ELSE Min(ends)
       IN  <<SubSeq(s, i, e - 1)>> \o StrtokFrom(s, e)

Strtok(s) == StrtokFrom(s, 1)

(* The type test of the first row: every byte is a digit or '-'.           *)
AllDigits(t) == \A j \in 1..Len(t) : t[j] \in {"1", "-"}

(* atoll: leading white space (here '\r') is skipped, then the decimal     *)
(* digits are read up to the first other byte.  A value read from an       *)
(* uninitialised pointer has no defined result; it is taken as 0.          *)
Atoll(v) ==
  IF v = UNINIT THEN 0
  ELSE LET sp == {j \in 1..Len(v) : \A m \in 1..j : v[m] = "CR"}
           from == IF sp = {} THEN 1 ELSE Max(sp) + 1
           nd == {j \in from..Len(v) : v[j] # "1"}
           to == IF nd = {} THEN Len(v) ELSE Min(nd) - 1
       IN  FoldLeft(LAMBDA acc, ch : acc * 10 + 1, 0, SubSeq(v, from, to))

(* HSET key field value on a hash kept as a set of tuples whose first      *)
(* components are the key and the field.                                   *)
HSet(h, key, field, value) ==
  {t \in h : ~(t[1] = key /\ t[2] = field)} \cup {<<key, field, value>>}

(* HSET schema name type: the schema hash has the single key "schema".    *)
SchemaSet(h, field, value) ==
  {t \in h : t[1] # field} \cup {<<field, value>>}

(* The HSET loop `for (i = 0; i < cols && tok; i++)` over one row's        *)
(* tokens: the first Min(cols, Len(toks)) tokens, in order.                *)
StoreRow(h, r, toks) ==
  FoldLeft(LAMBDA acc, i : HSet(acc, r, names[i], toks[i]), h,
           [i \in 1..Min({cols, Len(toks)}) |-> i])

(* fpga_alloc(n) on a fresh arena: the cursor is the page-aligned base,    *)
(* rounded up to 64; the request fails when aligned + n passes the end.    *)
Align64(x) == ((x + 63) \div 64) * 64
ArenaFits(n) == Align64(0) + n <= MapBytes

(***************************************************************************)
(* Actions                                                                 *)
(***************************************************************************)

LoadVars == <<cursor, cols, names, isInt, tokens, row, store, schemaHash, ub>>
QueryVars == <<projTotal, projCount, aggSum>>

(* main's entry: any dataset, either mode; nothing is mapped or stored.    *)
Init ==
  /\ file \in Files
  /\ loadOnly \in BOOLEAN
  /\ mapped = FALSE
  /\ pc = "setup"
  /\ cursor = 1
  /\ cols = 0
  /\ names = <<>>
  /\ isInt = <<>>
  /\ tokens = [i \in 1..MAX_COLS |-> UNINIT]
  /\ row = 0
  /\ store = {}
  /\ schemaHash = {}
  /\ ub = FALSE
  /\ rowCount = 0
  /\ projTotal = 0
  /\ projCount = 0
  /\ aggSum = 0

(* mapGb > 0: SetupEnzianMemoryMapping opens the device and maps it; on a  *)
(* failed open or mmap it prints and continues with the normal heap.       *)
(* Then redisConnect: on an error main prints and returns 1.               *)
Setup ==
  /\ pc = "setup"
  /\ \E ok \in BOOLEAN : mapped' = ok
  /\ \E connected \in BOOLEAN : pc' = IF connected THEN "read" ELSE "exit"
  /\ UNCHANGED <<file, loadOnly, rowCount>>
  /\ UNCHANGED LoadVars
  /\ UNCHANGED QueryVars

(* load_dataset_generic returns 0: main goes on with row_count = 0.        *)
ReturnZero ==
  /\ rowCount' = 0
  /\ pc' = IF loadOnly THEN "done" ELSE "select"

(* read_file_into_buffer: stat and fopen may fail (NULL); fpga_alloc of    *)
(* size + 1 bytes exits when the arena is too small; a short fread returns *)
(* NULL.  On NULL load_dataset_generic returns 0.                          *)
ReadFile ==
  /\ pc = "read"
  /\ \E opened, complete \in BOOLEAN :
       IF ~opened
         THEN ReturnZero
         ELSE IF mapped /\ ~ArenaFits(Len(file) + 1)
           THEN /\ pc' = "exit" /\ UNCHANGED rowCount
           ELSE IF ~complete
             THEN ReturnZero
             ELSE /\ pc' = "header" /\ UNCHANGED rowCount
  /\ UNCHANGED <<file, loadOnly, mapped>>
  /\ UNCHANGED LoadVars
  /\ UNCHANGED QueryVars

\* Header loop without the bound on the number of columns.
HeaderUnbounded ==
  /\ pc = "header"
  /\ LET nl == NextLine(file, cursor) IN
     IF nl.null
       THEN /\ ReturnZero
            /\ UNCHANGED <<cursor, cols, names, isInt>>
       ELSE LET toks == Strtok(nl.line) IN
            /\ cursor' = nl.cur
            /\ cols' = Len(toks)
            /\ names' = toks
            /\ isInt' = [i \in 1..Len(toks) |-> TRUE]
            /\ pc' = "first"
            /\ UNCHANGED rowCount
  /\ UNCHANGED <<file, loadOnly, mapped, tokens, row, store, schemaHash, ub>>
  /\ UNCHANGED QueryVars

(* The header: next_line, NULL for an empty file ("Empty CSV", return 0);  *)
(* otherwise `while (tok && cols < MAX_COLS)` copies each token to         *)
(* schema[cols].name with is_int = 1, and *ns = cols.                      *)
Header ==
  /\ pc = "header"
  /\ LET nl == NextLine(file, cursor) IN
     IF nl.null
       THEN /\ ReturnZero
            /\ UNCHANGED <<cursor, cols, names, isInt>>
       ELSE LET toks == Strtok(nl.line)
                n == Min({Len(toks), MAX_COLS})
            IN  /\ cursor' = nl.cur
                /\ cols' = n
                /\ names' = SubSeq(toks, 1, n)
                /\ isInt' = [i \in 1..n |-> TRUE]
                /\ pc' = "first"
                /\ UNCHANGED rowCount
  /\ UNCHANGED <<file, loadOnly, mapped, tokens, row, store, schemaHash, ub>>
  /\ UNCHANGED QueryVars

(* The first data row: next_line, NULL if the header is the only line      *)
(* (return 0); otherwise `for (i = 0; i < cols && tok; i++)` keeps token i *)
(* in tokens[i] and clears is_int for a token with a byte that is neither  *)
(* a digit nor '-'.  Elements of tokens[] past the last token stay unset.  *)
FirstRow ==
  /\ pc = "first"
  /\ LET nl == NextLine(file, cursor) IN
     IF nl.null
       THEN /\ ReturnZero
            /\ UNCHANGED <<cursor, isInt, tokens>>
       ELSE LET toks == Strtok(nl.line)
                n == Min({cols, Len(toks)})
            IN  /\ cursor' = nl.cur
                /\ tokens' = [i \in 1..MAX_COLS |-> IF i <= n THEN toks[i] ELSE UNINIT]
                /\ isInt' = [i \in 1..cols |-> isInt[i] /\ (i <= n => AllDigits(toks[i]))]
                /\ pc' = "schema"
                /\ UNCHANGED rowCount
  /\ UNCHANGED <<file, loadOnly, mapped, cols, names, row, store, schemaHash, ub>>
  /\ UNCHANGED QueryVars

(* DEL schema, then HSET schema <name> int|string for every column, and    *)
(* then row = 1 and HSET row:1 <name> tokens[i] for every column: for a    *)
(* column the first row has no token for, tokens[i] is read uninitialised. *)
(* That read is undefined: the process may crash, or store whatever the    *)
(* stack held.                                                             *)
StoreFirst ==
  /\ pc = "schema"
  /\ schemaHash' =
       FoldLeft(LAMBDA h, i : SchemaSet(h, names[i], IF isInt[i] THEN "int" ELSE "string"),
                {}, [i \in 1..cols |-> i])
  /\ row' = 1
  /\ LET unset == \E i \in 1..cols : tokens[i] = UNINIT IN
     /\ ub' = unset
     /\ \/ /\ pc' = "rows"
           /\ store' = StoreRow(store, 1, [i \in 1..cols |-> tokens[i]])
        \/ /\ unset
           /\ pc' = "crash"
           /\ UNCHANGED store
  /\ UNCHANGED <<file, loadOnly, mapped, cursor, cols, names, isInt, tokens, rowCount>>
  /\ UNCHANGED QueryVars

(* One iteration of the remaining-rows loop: NULL ends the load (return    *)
(* row); an empty line is skipped; otherwise row++ and HSET row:<row>      *)
(* <name> <token> for the first min(cols, tokens) tokens.                  *)
NextRow ==
  /\ pc = "rows"
  /\ LET nl == NextLine(file, cursor) IN
     IF nl.null
       THEN /\ rowCount' = row
            /\ pc' = IF loadOnly THEN "done" ELSE "select"
            /\ UNCHANGED <<cursor, row, store>>
       ELSE /\ cursor' = nl.cur
            /\ IF nl.line = <<>>
                 THEN UNCHANGED <<row, store>>
                 ELSE /\ row' = row + 1
                      /\ store' = StoreRow(store, row + 1, Strtok(nl.line))
            /\ UNCHANGED <<pc, rowCount>>
  /\ UNCHANGED <<file, loadOnly, mapped, cols, names, isInt, tokens, schemaHash, ub>>
  /\ UNCHANGED QueryVars

(* The value of field f in the hash row:r, if the hash has it.             *)
HGet(h, r, f) == {t[3] : t \in {u \in h : u[1] = r /\ u[2] = f}}

(* One row's contribution in both queries: for every schema column s with  *)
(* is_int, the HGETALL pairs whose field is schema[s].name add atoll of    *)
(* their value.                                                            *)
RowIntSum(h, r) ==
  MapThenSumSet(LAMBDA s : IF isInt[s]
                             THEN MapThenSumSet(Atoll, HGet(h, r, names[s]))
                             ELSE 0,
                1..cols)

(* query_select_gaussian and query_select_all: HGETALL of row:<id> for ids *)
(* drawn from a seeded Gaussian and for 1..rows.  They only read.          *)
Select ==
  /\ pc = "select"
  /\ pc' = "project"
  /\ UNCHANGED <<file, loadOnly, mapped, rowCount>>
  /\ UNCHANGED LoadVars
  /\ UNCHANGED QueryVars

\* Projection loop `for (i = 1; i < rows; i++)`.
ProjectSkipLast ==
  /\ pc = "project"
  /\ projTotal' = MapThenSumSet(LAMBDA r : RowIntSum(store, r), 1..(rowCount - 1))
  /\ projCount' = Max({rowCount - 1, 0})
  /\ pc' = "aggregate"
  /\ UNCHANGED <<file, loadOnly, mapped, rowCount, aggSum>>
  /\ UNCHANGED LoadVars

(* query_projection_generic(rows = row_count): for i = 1..rows, HGETALL    *)
(* row:i (an array, empty for a missing key), add the row's int sum to     *)
(* total_sum and count it; the average is total_sum / count, 0 if none.    *)
Project ==
  /\ pc = "project"
  /\ projTotal' = MapThenSumSet(LAMBDA r : RowIntSum(store, r), 1..rowCount)
  /\ projCount' = rowCount
  /\ pc' = "aggregate"
  /\ UNCHANGED <<file, loadOnly, mapped, rowCount, aggSum>>
  /\ UNCHANGED LoadVars

(* query_aggregation_generic(rows = row_count): the same walk, adding      *)
(* every int column's value to global_sum.  Then main prints the latency   *)
(* summary and the memory report and returns 0.                            *)
Aggregate ==
  /\ pc = "aggregate"
  /\ aggSum' = MapThenSumSet(LAMBDA r : RowIntSum(store, r), 1..rowCount)
  /\ pc' = "done"
  /\ UNCHANGED <<file, loadOnly, mapped, rowCount, projTotal, projCount>>
  /\ UNCHANGED LoadVars

Next ==
  \/ Setup
  \/ ReadFile
  \/ Header
  \/ FirstRow
  \/ StoreFirst
  \/ NextRow
  \/ Select
  \/ Project
  \/ Aggregate

Spec == Init /\ [][Next]_vars /\ WF_vars(Next)

-----------------------------------------------------------------------------
(***************************************************************************)
(* Reference: the file read as CSV                                         *)
(***************************************************************************)

(* The file cut at every line feed; a line that ended in a line feed loses *)
(* one trailing '\r'; an empty piece after the last line feed is no line.  *)
RefLines(f) ==
  LET cuts == SetToSortSeq({j \in 1..Len(f) : f[j] = "NL"}, <)
      bounds == <<0>> \o cuts \o <<Len(f) + 1>>
      piece(k) == SubSeq(f, bounds[k] + 1, bounds[k + 1] - 1)
      trim(s) == IF s # <<>> /\ s[Len(s)] = "CR" THEN SubSeq(s, 1, Len(s) - 1) ELSE s
      n == IF piece(Len(bounds) - 1) = <<>> THEN Len(bounds) - 2 ELSE Len(bounds) - 1
  IN  [k \in 1..n |-> IF k < Len(bounds) - 1 THEN trim(piece(k)) ELSE piece(k)]

(* A line cut at every ',', empty fields included.                         *)
RefFields(s) ==
  LET cuts == SetToSortSeq({j \in 1..Len(s) : s[j] = ","}, <)
      bounds == <<0>> \o cuts \o <<Len(s) + 1>>
  IN  [k \in 1..Len(bounds) - 1 |-> SubSeq(s, bounds[k] + 1, bounds[k + 1] - 1)]

(* The data records: the line after the header, then every non-empty line. *)
RefRows(f) ==
  LET L == RefLines(f) IN
  <<L[2]>> \o SelectSeq(SubSeq(L, 3, Len(L)), LAMBDA s : s # <<>>)

Header0(f) == RefFields(RefLines(f)[1])

(* A file every record of which has as many fields as the header, at most  *)
(* MAX_COLS of them, the names distinct; Filled adds that no field is      *)
(* empty.                                                                  *)
SameWidth(f) ==
  /\ Len(RefLines(f)) >= 2
  /\ LET H == Header0(f) IN
     /\ Len(H) <= MAX_COLS
     /\ \A i \in 1..Len(H) : H[i] # <<>>
     /\ \A i, j \in 1..Len(H) : i # j => H[i] # H[j]
     /\ \A r \in 1..Len(RefRows(f)) : Len(RefFields(RefRows(f)[r])) = Len(H)

Filled(f) ==
  /\ SameWidth(f)
  /\ \A r \in 1..Len(RefRows(f)) :
       \A i \in 1..Len(Header0(f)) : RefFields(RefRows(f)[r])[i] # <<>>

RefStore(f) ==
  {<<r, Header0(f)[i], RefFields(RefRows(f)[r])[i]>> :
     r \in 1..Len(RefRows(f)), i \in 1..Len(Header0(f))}

(* Sum of the fields of the columns whose first-record field is all digits. *)
RefIntSum(f) ==
  LET H == Header0(f)
      F(r) == RefFields(RefRows(f)[r])
  IN  MapThenSumSet(LAMBDA r :
        MapThenSumSet(LAMBDA i : IF AllDigits(F(1)[i]) THEN Atoll(F(r)[i]) ELSE 0,
                      1..Len(H)),
        1..Len(RefRows(f)))

-----------------------------------------------------------------------------
(***************************************************************************)
(* Properties                                                              *)
(***************************************************************************)

Loaded == pc \in {"select", "project", "aggregate", "done"} /\ rowCount > 0

TypeOK ==
  /\ pc \in {"setup", "read", "header", "first", "schema", "rows", "select",
             "project", "aggregate", "done", "exit", "crash"}
  /\ cursor \in 1..Len(file) + 1
  /\ cols \in 0..MAX_COLS
  /\ row \in Nat /\ rowCount \in Nat
  /\ ub \in BOOLEAN

(* A CSV file whose records all have one non-empty field per column is     *)
(* loaded as it reads: row:n holds, under each column's name, the field of *)
(* the n-th record, records are numbered over blank lines, and the loader  *)
(* returns their number.  This exercises next_line's cursor and '\r'       *)
(* handling, strtok_r, the header cap and the separate first-row path.     *)
FilledFileLoaded ==
  (Loaded /\ Filled(file)) =>
    /\ store = RefStore(file)
    /\ rowCount = Len(RefRows(file))

(* On such a file both queries add up exactly the integer columns of the   *)
(* file over every record: the projection counts every row.                *)
QueriesSumIntColumns ==
  (pc = "done" /\ ~loadOnly /\ rowCount > 0 /\ Filled(file)) =>
    /\ aggSum = RefIntSum(file)
    /\ projTotal = aggSum
    /\ projCount = Len(RefRows(file))

(* Every value the loader stores sits under the name of its own column,    *)
(* also when a field is empty (the first record's tokens all set).  At     *)
(* risk from strtok_r, which skips empty fields (redis_fpga.c:251).        *)
FieldsKeepTheirColumn ==
  (Loaded /\ SameWidth(file) /\ ~ub) => store \subseteq RefStore(file)

(* The loader never reads an element of tokens[] it has not set.  At risk  *)
(* when the first data record has fewer tokens than the header            *)
(* (redis_fpga.c:238).                                                     *)
NoUninitialisedToken == ~ub
=============================================================================
