------------------------- MODULE PasswordCandidates -------------------------
(***************************************************************************)
(* The candidates the zippass programs try.  A candidate is the sequence   *)
(* of the positions of its characters in the alphabet.  The programs count *)
(* in the base of the alphabet, least digit first, and try each number     *)
(* twice, the second time with its last digit at zero.                     *)
(***************************************************************************)
EXTENDS Naturals, Sequences

CONSTANTS Base,           \* characters in the alphabet: of a single one,
                          \* change_base() would never come back
          MaxCharPass

ASSUME CandidatesAssumption == Base \in Nat \ {0, 1} /\ MaxCharPass \in Nat \ {0}

\* Digits of a number; zero has one.
Size(number) ==
  CHOOSE n \in 1..(number + 1) :
    number < Base ^ n /\ (n = 1 \/ Base ^ (n - 1) <= number)

\* Of zero no digit is written: the first one keeps what it held.
ChangeBase(number, left) ==
  IF number = 0 THEN <<left>>
  ELSE [k \in 1..Size(number) |-> (number \div Base ^ (k - 1)) % Base]

LastDigitZero(digits) ==
  IF Len(digits) = 1 THEN digits ELSE [digits EXCEPT ![Len(digits)] = 0]

\* The characters behind a shorter candidate stay in the buffer.
Overwrite(password, digits) ==
  digits \o SubSeq(password, Len(digits) + 1, Len(password))

Passwords == UNION {[1..n -> 0..(Base - 1)] : n \in 1..MaxCharPass}

\* What a path of the input may stand for: an archive and its password, one
\* whose password is none of these, and a file that cannot be opened.
NoPassword == <<Base>>
Unreadable == <<>>
Archives == Passwords \cup {NoPassword, Unreadable}

\* process_file(): the code for a file that cannot be opened is true as well.
ProcessFile(archive, password) == archive = Unreadable \/ archive = password

=============================================================================
