------------------------------ MODULE ByteRange ------------------------------
(***************************************************************************)
(* A download with a Range header (agent/src/files.rs `parse_range` and    *)
(* its caller): which bytes of a file are sent for `first-last`, `first-`  *)
(* and `-suffix`, at every boundary of the file.                           *)
(***************************************************************************)
EXTENDS Integers

CONSTANT MaxSize  \* bound on the size of a file and on the numbers of a range

RangeAssumption == MaxSize \in Nat

VARIABLES total,  \* the size of the file
          ask,    \* the header
          answer  \* what is sent

rangeVars == <<total, ask, answer>>

Number == 0..(MaxSize + 2)
Open == MaxSize + 3  \* u64::MAX: no last byte was named
Range == [form : {"closed", "open", "suffix"}, a : Number, b : Number]
Unanswered == [status |-> 0, first |-> 0, last |-> 0]

TypeOK ==
  /\ total \in 0..MaxSize /\ ask \in Range
  /\ answer \in [status : {0, 200, 206, 416}, first : 0..MaxSize, last : 0..MaxSize]

Init == total \in 0..MaxSize /\ ask \in Range /\ answer = Unanswered

Lower(x, y) == IF x < y THEN x ELSE y
Nothing == <<>>

\* (faulty variant: a suffix longer than the file counts from before its start)
ParseUnbounded(r, size) ==
  CASE r.form = "suffix" -> IF r.a = 0 \/ size = 0 THEN Nothing
                            ELSE <<IF r.a > size THEN size ELSE size - r.a, size - 1>>
    [] r.form = "open"   -> <<r.a, Open>>
    [] OTHER             -> <<r.a, r.b>>

\* parse_range.
ParseRange(r, size) ==
  CASE r.form = "suffix" -> IF r.a = 0 \/ size = 0 THEN Nothing ELSE <<size - Lower(r.a, size), size - 1>>
    [] r.form = "open"   -> <<r.a, Open>>
    [] OTHER             -> <<r.a, r.b>>

\* api_files_download: without a range that can be used the whole file is sent.
Download ==
  /\ answer.status = 0
  /\ LET p == ParseRange(ask, total)
         last == Lower(p[2], total - 1)
     IN answer' = IF p = Nothing THEN [status |-> 200, first |-> 0, last |-> total]
                  ELSE IF total = 0 \/ p[1] >= total \/ last < p[1]
                       THEN [status |-> 416, first |-> 0, last |-> 0]
                       ELSE [status |-> 206, first |-> p[1], last |-> last]
  /\ UNCHANGED <<total, ask>>

-----------------------------------------------------------------------------
\* The bytes of the file a header names, from its definition.
Named ==
  {i \in 0..(total - 1) :
     CASE ask.form = "suffix" -> i + ask.a >= total
       [] ask.form = "open"   -> i >= ask.a
       [] OTHER               -> i >= ask.a /\ i <= ask.b}

(* A part is exactly the named bytes that exist; a refusal, or the whole    *)
(* file instead of a part, only when there is none (files.rs:619).          *)
NamedBytesAreSent ==
  /\ answer.status = 206 => answer.first..answer.last = Named /\ Named # {}
  /\ answer.status \in {200, 416} => Named = {}
=============================================================================
