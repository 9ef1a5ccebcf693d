----------------------------- MODULE CardNumber -----------------------------
(***************************************************************************)
(* The two pure functions of handler.c on card numbers: luhn_check, which  *)
(* a request must pass, and mask_pan, which makes what is stored and sent  *)
(* to clearing.  A card number is the sequence of its characters: digits,  *)
(* or Other for any other character.  The ASSUMEs compare the functions    *)
(* with what they are for, over all short inputs; TLC evaluates them.      *)
(***************************************************************************)
EXTENDS Integers, Sequences, FiniteSets, SequencesExt

Digits == 0..9
Other == -1
Star == 10

Doubled(d) == IF 2 * d > 9 THEN 2 * d - 9 ELSE 2 * d

\* The loop runs from the last character to the first and stops at one that
\* is no digit; `alt' says whether the digit is doubled.
LuhnLoop(pan) ==
  FoldRight(LAMBDA d, acc :
              [valid |-> acc.valid /\ d \in Digits,
               sum |-> acc.sum + (IF acc.alt THEN Doubled(d) ELSE d),
               alt |-> ~acc.alt],
            pan, [valid |-> TRUE, sum |-> 0, alt |-> FALSE])

luhn_check(pan) == LuhnLoop(pan).valid /\ LuhnLoop(pan).sum % 10 = 0

\* snprintf into a buffer of the given size.
Truncated(s, size) == SubSeq(s, 1, IF Len(s) < size THEN Len(s) ELSE size - 1)

\* The second test of the code can never hold after the first.
mask_pan(pan, size) ==
  IF Len(pan) <= 10 \/ size < Len(pan) + 1
  THEN Truncated(pan, size)
  ELSE [i \in 1..Len(pan) |-> IF i <= 6 \/ i > Len(pan) - 4 THEN pan[i] ELSE Star]
-----------------------------------------------------------------------------
ShortNumbers == UNION {[1..n -> Digits] : n \in 0..3}

\* Whatever the other digits, exactly one last digit makes a number valid:
\* so luhn_check notices every single wrong digit there, and (next) elsewhere.
ASSUME OneCheckDigit ==
  \A pan \in ShortNumbers : Cardinality({d \in Digits : luhn_check(Append(pan, d))}) = 1

ASSUME SingleErrorDetected ==
  \A pan \in {p \in ShortNumbers : luhn_check(p)} :
    \A i \in DOMAIN pan, d \in Digits :
      d # pan[i] => ~luhn_check([pan EXCEPT ![i] = d])

\* Two neighbours exchanged are noticed, except 0 and 9.
ASSUME TranspositionDetected ==
  \A pan \in {p \in ShortNumbers : luhn_check(p)} :
    \A i \in 1..(Len(pan) - 1) :
      pan[i] # pan[i + 1] /\ {pan[i], pan[i + 1]} # {0, 9} =>
        ~luhn_check([pan EXCEPT ![i] = pan[i + 1], ![i + 1] = pan[i]])

\* A character that is no digit makes any number invalid.
ASSUME DigitsOnly ==
  \A pan \in ShortNumbers, i \in 1..3 :
    i \in DOMAIN pan => ~luhn_check([pan EXCEPT ![i] = Other])

\* With the sizes handler_job uses (a pan of at most 63 characters, a buffer
\* of 64) nothing is cut, and of a number longer than ten digits the first
\* six and the last four are all that is shown.
ASSUME MaskHidesTheMiddle ==
  \A n \in 0..63 :
    LET pan == [i \in 1..n |-> i % 10]
        out == mask_pan(pan, 64) IN
    /\ Len(out) = n
    /\ \A i \in 1..n : out[i] = (IF n > 10 /\ i \in 7..(n - 4) THEN Star ELSE pan[i])
=============================================================================
