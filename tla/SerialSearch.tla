---------------------------- MODULE SerialSearch ----------------------------
(***************************************************************************)
(* zippass_serial, serial_optimized, which opens each archive once, and    *)
(* zippass_openmp with a team of one thread: one file after another, every *)
(* length from one on, every number of a length.  The digits belong to the *)
(* first file, whichever the file at hand.  A greater team of the OpenMP   *)
(* program shares digits and candidate with nothing to protect them.       *)
(***************************************************************************)
EXTENDS PasswordCandidates, SequencesExt

CONSTANTS FileCount, Contents

SerialAssumption == FileCount \in 1..50 /\ Contents \subseteq Archives

VARIABLES program, pc, shared, private

vars == <<program, pc, shared, private>>

Files == 1..FileCount
Characters == 0..(Base - 1)

TypeOK ==
  /\ pc \in {"open", "first", "second", "done"}
  /\ shared \in [archives : [Files -> Contents],
                 printed : Seq([file : Files, password : Seq(Characters)])]
  /\ private \in [file : 1..(FileCount + 1), length : 1..MaxCharPass,
                  number : 0..(Base ^ MaxCharPass), left : Characters,
                  password : Seq(Characters)]

\* read_input() has appended the files, at most fifty of them.
Start ==
  /\ pc = "open"
  /\ \E archives \in [Files -> Contents] :
       shared = [archives |-> archives, printed |-> <<>>]
  /\ private = [file |-> 1, length |-> 1, number |-> 0, left |-> 0, password |-> <<>>]

InitSerial == program = "zippass_serial" /\ Start
InitSerialOptimized == program = "serial_optimized" /\ Start

InitOpenmp == program = "zippass_openmp" /\ Start

Init == InitSerial \/ InitSerialOptimized \/ InitOpenmp

Archive == shared.archives[private.file]
Line(password) == [file |-> private.file, password |-> password]

\* The search of the next file; the digits are left as they are.
NextFile(lines) ==
  /\ shared' = [shared EXCEPT !.printed = @ \o lines]
  /\ pc' = "open"
  /\ private' = [private EXCEPT !.file = @ + 1, !.length = 1, !.number = 0,
                                !.password = <<>>]

\* The OpenMP program prints where the archive opens, a file that cannot be
\* opened never; the numbers that are left are passed over.
Found(password) ==
  NextFile(IF program = "zippass_openmp" /\ Archive = Unreadable THEN <<>>
           ELSE <<Line(password)>>)

OpenArchive ==
  /\ pc = "open" /\ private.file \in Files
  /\ program # "serial_optimized" \/ Archive # Unreadable
  /\ pc' = "first"
  /\ UNCHANGED <<shared, private>>

\* main tells only EXIT_FAILURE apart: the file is not printed at all.
SkipArchive ==
  /\ pc = "open" /\ private.file \in Files
  /\ program = "serial_optimized" /\ Archive = Unreadable
  /\ private' = [private EXCEPT !.file = @ + 1]
  /\ UNCHANGED <<pc, shared>>

Finish ==
  /\ pc = "open" /\ private.file > FileCount
  /\ pc' = "done"
  /\ UNCHANGED <<shared, private>>

\* Mutant: the digits are reversed, and the first one is put to zero.
TryFirstReversed ==
  /\ pc = "first"
  /\ LET digits == Reverse(ChangeBase(private.number, private.left))
         password == Overwrite(private.password, digits)
     IN  IF ProcessFile(Archive, password) THEN Found(password)
         ELSE /\ private' = [private EXCEPT !.left = digits[1], !.password = password]
              /\ pc' = "second"
              /\ UNCHANGED shared

TryFirst ==
  /\ pc = "first"
  /\ LET digits == ChangeBase(private.number, private.left)
         password == Overwrite(private.password, digits)
     IN  IF ProcessFile(Archive, password) THEN Found(password)
         ELSE /\ private' = [private EXCEPT !.left = digits[1], !.password = password]
              /\ pc' = "second"
              /\ UNCHANGED shared

NextNumber(password) ==
  IF private.number + 1 < Base ^ private.length
  THEN /\ private' = [private EXCEPT !.number = @ + 1, !.password = password]
       /\ pc' = "first"
       /\ UNCHANGED shared
  ELSE IF private.length < MaxCharPass
  THEN /\ private' = [private EXCEPT !.length = @ + 1, !.number = 0,
                                     !.password = password]
       /\ pc' = "first"
       /\ UNCHANGED shared
  ELSE NextFile(<<Line(<<>>)>>)     \* only the name is printed

TrySecond ==
  /\ pc = "second"
  /\ LET digits == LastDigitZero(ChangeBase(private.number, private.left))
         password == Overwrite(private.password, digits)
     IN  IF ProcessFile(Archive, password) THEN Found(password)
         ELSE NextNumber(password)

Search == OpenArchive \/ SkipArchive \/ TryFirst \/ TrySecond \/ Finish
SerialNext == program = "zippass_serial" /\ Search
SerialOptimizedNext == program = "serial_optimized" /\ Search
OpenmpNext == program = "zippass_openmp" /\ Search

Next == SerialNext \/ SerialOptimizedNext \/ OpenmpNext

-----------------------------------------------------------------------------

\* The single first character, for any file but the first: its number is zero,
\* whose digit is what the file before has left.
MayMiss(f) == f > 1 /\ shared.archives[f] = <<0>>

\* Each file is printed once, in the order of the input, with the password
\* that opens it; only the name stands for no password in reach.  A file that
\* cannot be opened is printed with a candidate, or not at all.
AnswersRight ==
  /\ \A i \in 1..Len(shared.printed) :
       LET line == shared.printed[i]
           archive == shared.archives[line.file]
       IN  /\ i > 1 => shared.printed[i - 1].file < line.file
           /\ archive \in Passwords =>
                \/ line.password = archive
                \/ MayMiss(line.file) /\ line.password = <<>>
           /\ archive = NoPassword => line.password = <<>>
           /\ archive = Unreadable => line.password # <<>>
  /\ pc = "done" =>
       {shared.printed[i].file : i \in 1..Len(shared.printed)} =
         {f \in Files : shared.archives[f] = Unreadable => program = "zippass_serial"}

=============================================================================
