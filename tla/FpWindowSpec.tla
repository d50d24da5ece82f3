---------------------------- MODULE FpWindowSpec ----------------------------
(***************************************************************************)
(* What a window promises: a set of marked sequence numbers, none further  *)
(* than WND_LEN - 1 behind the head.  Marks are added and removed inside   *)
(* the window.  Moving the head keeps every mark, unless it crosses the    *)
(* end of the number space, where all of them are lost.                    *)
(***************************************************************************)
EXTENDS Integers

CONSTANTS BITS, WORDS, SeqSpace
VARIABLES head, marks

InWindow(s, h) == (h - s) % SeqSpace < BITS * (WORDS - 1)

Stretch(s, n) == {(s + i) % SeqSpace : i \in 0..(n - 1)}

Init == head \in 0..(SeqSpace - 1) /\ marks = {}

Mark(s, n) ==
  /\ Stretch(s, n) \cap marks = {}
  /\ \A t \in Stretch(s, n) : InWindow(t, head)
  /\ marks' = marks \cup Stretch(s, n)
  /\ UNCHANGED head

Clear(s) ==
  /\ s \in marks
  /\ marks' = marks \ {s}
  /\ UNCHANGED head

Reset(h) == head' = h /\ marks' = {}

Advance(n) ==
  /\ \A s \in marks : InWindow(s, head + n)
  /\ head' = (head + n) % SeqSpace
  /\ marks' = IF head + n < SeqSpace THEN marks ELSE {}

Next ==
  \/ \E s \in 0..(SeqSpace - 1), n \in 1..(BITS * (WORDS - 1)) : Mark(s, n)
  \/ \E s \in marks : Clear(s)
  \/ \E h \in 0..(SeqSpace - 1) : Reset(h)
  \/ \E n \in 1..(SeqSpace - 1) : Advance(n)

Spec == Init /\ [][Next]_<<head, marks>>
=============================================================================
