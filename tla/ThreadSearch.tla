---------------------------- MODULE ThreadSearch ----------------------------
(***************************************************************************)
(* zippass_pthread: for each file and each length main creates a team of   *)
(* threads that divide the numbers of that length among them, and joins    *)
(* it.  A flag under a mutex tells the others that the password was found. *)
(***************************************************************************)
EXTENDS PasswordCandidates, SequencesExt

CONSTANTS FileCount, Contents, ThreadCount

ThreadSearchAssumption ==
  /\ FileCount \in 1..50 /\ Contents \subseteq Archives
  /\ ThreadCount \in Nat \ {0}

VARIABLES pc, shared, private

vars == <<pc, shared, private>>

\* Up to twelve: the list of paths has a hundred bytes, not a hundred pointers
\* (array.c:20), and more would overrun it.
Files == 1..FileCount
Threads == 0..(ThreadCount - 1)

\* The macro MIN takes the greater one.
GreaterOf(x, y) == IF x > y THEN x ELSE y
CalculateWork(i, D, w) == i * (D \div w) + GreaterOf(i, D % w)

FirstNumber(t, length) == CalculateWork(t, Base ^ length, ThreadCount)
LastNumber(t, length) == CalculateWork(t + 1, Base ^ length, ThreadCount)

TypeOK ==
  /\ pc \in [Threads -> {"unstarted", "try", "flag", "store", "done"}]
  /\ shared.archives \in [Files -> Contents]
  /\ shared.pass_found \in [Files -> BOOLEAN]
  /\ shared.passwords \in [Files -> Seq(0..(Base - 1))]
  /\ private.at \in {"create", "join", "done", "crashed"}
  /\ private.file \in 1..(FileCount + 1) /\ private.length \in 0..MaxCharPass
  /\ private.index \in 0..ThreadCount /\ private.created \in 0..ThreadCount
  /\ \A t \in Threads :
       pc[t] # "unstarted" => private.number[t] \in 0..(LastNumber(t, private.length) + 1)
  /\ private.password \in [Threads -> Seq(0..(Base - 1))]

\* What create_threads() sets up for a team: every team has new digits, so that
\* zero stands for the first character.
NewTeam(file, length) ==
  [at |-> "create", file |-> file, length |-> length, index |-> 0, created |-> 0,
   number |-> [t \in Threads |-> 0], password |-> [t \in Threads |-> <<>>]]

\* read_input() and create_shared_data().  Lengths begin at zero.
Init ==
  /\ pc = [t \in Threads |-> "unstarted"]
  /\ \E archives \in [Files -> Contents] :
       shared = [archives |-> archives, pass_found |-> [f \in Files |-> FALSE],
                 passwords |-> [f \in Files |-> <<>>], printed |-> <<>>,
                 incomplete |-> FALSE]
  /\ private = NewTeam(1, 0)

CreateThread ==
  /\ private.at = "create" /\ private.file \in Files
  /\ private.index < ThreadCount
  /\ pc' = [pc EXCEPT ![private.index] = "try"]
  /\ private' = [private EXCEPT !.index = @ + 1, !.created = @ + 1,
       !.number[private.index] = FirstNumber(private.index, private.length)]
  /\ UNCHANGED shared

\* The loop ends, and as many threads as were asked for are joined.
CreateThreadFails ==
  /\ private.at = "create" /\ private.file \in Files
  /\ private.index < ThreadCount
  /\ private' = [private EXCEPT !.at = "join", !.index = 0]
  /\ shared' = [shared EXCEPT !.incomplete = TRUE]
  /\ UNCHANGED pc

AllCreated ==
  /\ private.at = "create" /\ private.index = ThreadCount
  /\ private' = [private EXCEPT !.at = "join", !.index = 0]
  /\ UNCHANGED <<pc, shared>>

\* A handle that was never set may bring the process down.
Join ==
  /\ private.at = "join" /\ private.index < ThreadCount
  /\ private.index < private.created => pc[private.index] = "done"
  /\ \/ private' = [private EXCEPT !.index = @ + 1]
     \/ private.index >= private.created /\ private' = [private EXCEPT !.at = "crashed"]
  /\ UNCHANGED <<pc, shared>>

\* break_password(): every length is tried, found or not.
NextLength ==
  /\ private.at = "join" /\ private.index = ThreadCount
  /\ private' = IF private.length < MaxCharPass
                THEN NewTeam(private.file, private.length + 1)
                ELSE NewTeam(private.file + 1, 0)
  /\ pc' = [t \in Threads |-> "unstarted"]
  /\ UNCHANGED shared

Line(f) == [file |-> f, password |->
              IF shared.pass_found[f] THEN shared.passwords[f] ELSE <<>>]

PrintPasswords ==
  /\ private.at = "create" /\ private.file > FileCount
  /\ shared' = [shared EXCEPT !.printed = [f \in Files |-> Line(f)]]
  /\ private' = [private EXCEPT !.at = "done"]
  /\ UNCHANGED pc

-----------------------------------------------------------------------------
(* found_pass()                                                            *)

\* The thread's own copy, made when it was created; an empty path, which cannot
\* be opened, if it could not be made.
Archive == shared.archives[private.file]
FirstTry(t) == ChangeBase(private.number[t], 0)
SecondTry(t) == LastDigitZero(FirstTry(t))

\* The flag is read under the mutex, and then two passwords are tried on the
\* thread's own copy of the archive.
TryNumber(t) ==
  /\ pc[t] = "try"
  /\ IF private.number[t] > LastNumber(t, private.length) \/ shared.pass_found[private.file]
     THEN pc' = [pc EXCEPT ![t] = "done"] /\ UNCHANGED private
     ELSE \/ /\ ProcessFile(Archive, FirstTry(t))
             /\ private' = [private EXCEPT !.password[t] = FirstTry(t)]
             /\ pc' = [pc EXCEPT ![t] = "flag"]
          \/ /\ ~ProcessFile(Archive, FirstTry(t)) /\ ProcessFile(Archive, SecondTry(t))
             /\ private' = [private EXCEPT !.password[t] = SecondTry(t)]
             /\ pc' = [pc EXCEPT ![t] = "flag"]
          \/ /\ ~ProcessFile(Archive, FirstTry(t)) /\ ~ProcessFile(Archive, SecondTry(t))
             /\ private' = [private EXCEPT !.number[t] = @ + 1]
             /\ UNCHANGED pc
  /\ UNCHANGED shared

RaiseFlag(t) ==
  /\ pc[t] = "flag"
  /\ shared' = [shared EXCEPT !.pass_found[private.file] = TRUE]
  /\ pc' = [pc EXCEPT ![t] = "store"]
  /\ UNCHANGED private

\* Mutant: main is told to be done before the password is stored.
StorePasswordLate(t) ==
  /\ pc[t] = "store"
  /\ pc' = [pc EXCEPT ![t] = "done"]
  /\ UNCHANGED <<shared, private>>

\* Outside of the mutex; snprintf() cuts after one character more than the
\* length that is being tried.
StorePassword(t) ==
  /\ pc[t] = "store"
  /\ shared' = [shared EXCEPT !.passwords[private.file] =
       SubSeq(private.password[t], 1, IF Len(private.password[t]) > private.length + 1
                                      THEN private.length + 1
                                      ELSE Len(private.password[t]))]
  /\ pc' = [pc EXCEPT ![t] = "done"]
  /\ UNCHANGED private

FoundPass(t) == TryNumber(t) \/ RaiseFlag(t) \/ StorePassword(t)

Next ==
  /\ private.at \notin {"done", "crashed"}
  /\ \/ CreateThread \/ CreateThreadFails \/ AllCreated \/ Join \/ NextLength
     \/ PrintPasswords
     \/ \E t \in Threads : FoundPass(t)

-----------------------------------------------------------------------------

\* The candidates the threads would try between them if none found any.
Covered(password) ==
  \E length \in 0..MaxCharPass, t \in Threads :
    \E number \in FirstNumber(t, length)..LastNumber(t, length) :
      LET digits == ChangeBase(number, 0)
      IN  password \in {digits, LastDigitZero(digits)}

\* Though threads stop as soon as the flag is up, a password that is among the
\* candidates is found when every team was complete, one that is not among them
\* never, and what is printed is its beginning at least.
AnswersRight ==
  private.at = "done" =>
    /\ DOMAIN shared.printed = Files
    /\ \A f \in Files :
         LET archive == shared.archives[f]  line == shared.printed[f]
         IN  /\ archive \in Passwords /\ Covered(archive) /\ ~shared.incomplete =>
                  line.password # <<>>
             /\ archive \in Passwords => IsPrefix(line.password, archive)
             /\ archive \in Passwords /\ ~Covered(archive) => line.password = <<>>
             /\ archive = NoPassword => line.password = <<>>
             /\ archive = Unreadable /\ ~shared.incomplete => line.password # <<>>

\* "The path of each file and the password that decrypts it" (readme.md:30).
PrintedPasswordOpens ==
  \A f \in DOMAIN shared.printed :
    shared.archives[f] # Unreadable /\ shared.printed[f].password # <<>> =>
      shared.printed[f].password = shared.archives[f]

=============================================================================
