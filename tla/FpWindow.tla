------------------------------ MODULE FpWindow ------------------------------
(***************************************************************************)
(* The sliding bit window of src/src/protocol/window.h: WORDS machine      *)
(* words of BITS bits used as a ring of marks, a summary word that says    *)
(* which ring words are non-empty counting back from the head's word, and  *)
(* a mark count.  It holds the unacknowledged packets of a connection      *)
(* (outwnd.h) and the pending timeslots of the queueing discipline.        *)
(*                                                                         *)
(* A machine word is the set of its 1-bits, so __ffs is Min and __fls is   *)
(* Max.  Sequence numbers are u64 and wrap; they are modelled modulo       *)
(* SeqSpace, with the signed comparisons of time_after64 and its family.   *)
(* A connection starts at a hash of its reset time, so the head may cross  *)
(* the end of the number space, where wnd_advance behaves differently.     *)
(***************************************************************************)
EXTENDS Integers, FiniteSets, FiniteSetsExt

CONSTANTS
  BITS,      \* BITS_PER_LONG (64)
  WORDS,     \* FASTPASS_WND_WORDS (4)
  SeqSpace   \* number of sequence numbers (2^64)

ASSUME WindowAssumption ==
  /\ BITS \in Nat \ {0} /\ WORDS \in 2..BITS
  /\ SeqSpace % (BITS * WORDS) = 0
  /\ SeqSpace >= 4 * BITS * WORDS

VARIABLES
  marked, summary, head, head_word, num_marked,
  dropped    \* ghost: marks that wnd_advance dropped since the last reset
vars == <<marked, summary, head, head_word, num_marked, dropped>>

Bits == 0..(BITS - 1)
Words == 0..(WORDS - 1)
Seq64 == 0..(SeqSpace - 1)
WND_LEN == BITS * WORDS - BITS

Plus(a, n) == (a + n) % SeqSpace
time_after(a, b) == (a - b) % SeqSpace \in 1..(SeqSpace \div 2)
time_after_eq(a, b) == ~time_after(b, a)

Shl(w, n) == {b + n : b \in w} \cap Bits
Shr(w, n) == {b - n : b \in w} \cap Bits

wnd_pos(s) == s % (BITS * WORDS)
BIT_WORD(p) == p \div BITS
summary_pos(p) == (head_word - BIT_WORD(p)) % WORDS
wnd_edge == Plus(head, 1 - WND_LEN)
wnd_seq_before(s) == time_after(wnd_edge, s)
wnd_seq_after(s) == time_after(s, head)
wnd_is_marked(s) == (wnd_pos(s) % BITS) \in marked[BIT_WORD(wnd_pos(s))]

\* The sequence numbers of the window, [edge, head].
Window == {Plus(head, -d) : d \in 0..(WND_LEN - 1)}

-----------------------------------------------------------------------------
(* Queries.  A search returns the set of what it finds: one sequence       *)
(* number (or distance), or nothing where the code returns false or -1.    *)

\* Mutant: the word of s is searched again after its low bits came up empty.
wnd_at_or_before_rescans(s) ==
  LET pos == wnd_pos(s)
      off == pos % BITS
      here == Shl(marked[BIT_WORD(pos)], BITS - 1 - off)
      rest == Shr(summary, summary_pos(pos))
      k == Min(rest)
  IN IF time_after_eq(Plus(head, -WND_LEN), s) THEN {}
     ELSE IF here # {} THEN {BITS - 1 - Max(here)}
     ELSE IF rest = {} THEN {}
     ELSE {BITS * k + off - Max(marked[(BIT_WORD(pos) - k) % WORDS])}

wnd_at_or_before(s) ==
  LET pos == wnd_pos(s)
      off == pos % BITS
      here == Shl(marked[BIT_WORD(pos)], BITS - 1 - off)
      rest == Shr(summary, summary_pos(pos)) \ {0}
      k == Min(rest)
  IN IF time_after_eq(Plus(head, -WND_LEN), s) THEN {}
     ELSE IF here # {} THEN {BITS - 1 - Max(here)}
     ELSE IF rest = {} THEN {}
     ELSE {BITS * k + off - Max(marked[(BIT_WORD(pos) - k) % WORDS])}

wnd_earliest_marked ==
  LET k == Max(summary)
  IN Plus(head - (head % BITS), Min(marked[(head_word - k) % WORDS]) - k * BITS)

wnd_at_or_after(s) ==
  LET pos == wnd_pos(s)
      off == pos % BITS
      here == Shr(marked[BIT_WORD(pos)], off)
      rest == Shl(summary, BITS - 1 - summary_pos(pos)) \ {BITS - 1}
      k == BITS - 1 - Max(rest)
  IN IF wnd_seq_after(s) THEN {}
     ELSE IF wnd_seq_before(s)
          THEN IF num_marked = 0 THEN {} ELSE {wnd_earliest_marked}
     ELSE IF here # {} THEN {Plus(s, Min(here))}
     ELSE IF rest = {} THEN {}
     ELSE {Plus(s, BITS * k - off + Min(marked[(BIT_WORD(pos) + k) % WORDS]))}

wnd_get_mask_unsafe(s) ==
  LET pos == wnd_pos(s)
      off == pos % BITS
      w == BIT_WORD(pos)
  IN IF off = BITS - 1 THEN marked[w]
     ELSE Shl(marked[w], BITS - 1 - off)
            \cup Shr(marked[(w - 1) % WORDS], off + 1)

wnd_get_mask(s) ==
  IF \/ time_after_eq(Plus(head, -WND_LEN), s)
     \/ time_after_eq(s, Plus(head, BITS))
  THEN {} ELSE wnd_get_mask_unsafe(s)

-----------------------------------------------------------------------------
(* Operations.  Their guards are what the callers respect.  The            *)
(* FASTPASS_BUG_ON checks only log, so they guard nothing.                 *)

wnd_mark(s) ==
  LET pos == wnd_pos(s) IN
  /\ s \in Window /\ ~wnd_is_marked(s)
  /\ marked' = [marked EXCEPT ![BIT_WORD(pos)] = @ \cup {pos % BITS}]
  /\ summary' = summary \cup {summary_pos(pos)}
  /\ num_marked' = num_marked + 1
  /\ UNCHANGED <<head, head_word, dropped>>

\* Word-by-word: a tail of the first word, whole words, a prefix of the last.
wnd_mark_bulk(s, amount) ==
  LET first == wnd_pos(s)
      last == wnd_pos(Plus(s, amount - 1))
      wf == BIT_WORD(first)
      wl == BIT_WORD(last)
      between == {(wf + i) % WORDS : i \in 1..(((wl - wf) % WORDS) - 1)}
      mask == [w \in Words |->
                 IF w = wf \/ w = wl
                 THEN {b \in Bits : /\ w = wf => b >= first % BITS
                                    /\ w = wl => b <= last % BITS}
                 ELSE IF w \in between THEN Bits ELSE {}]
  IN /\ \A i \in 0..(amount - 1) : Plus(s, i) \in Window
     /\ \A w \in Words : marked[w] \cap mask[w] = {}
     /\ marked' = [w \in Words |-> marked[w] \cup mask[w]]
     /\ summary' = summary \cup (summary_pos(last)..summary_pos(first))
     /\ num_marked' = num_marked + amount
     /\ UNCHANGED <<head, head_word, dropped>>

\* Mutant: a whole word goes.
wnd_clear_word(s) ==
  LET w == BIT_WORD(wnd_pos(s)) IN
  /\ s \in Window /\ wnd_is_marked(s)
  /\ marked' = [marked EXCEPT ![w] = {}]
  /\ summary' = summary \ {summary_pos(wnd_pos(s))}
  /\ num_marked' = num_marked - Cardinality(marked[w])
  /\ UNCHANGED <<head, head_word, dropped>>

wnd_clear(s) ==
  LET pos == wnd_pos(s)
      left == marked[BIT_WORD(pos)] \ {pos % BITS} IN
  /\ s \in Window /\ wnd_is_marked(s)
  /\ marked' = [marked EXCEPT ![BIT_WORD(pos)] = left]
  /\ summary' = IF left = {} THEN summary \ {summary_pos(pos)} ELSE summary
  /\ num_marked' = num_marked - 1
  /\ UNCHANGED <<head, head_word, dropped>>

wnd_reset(h) ==
  /\ marked' = [w \in Words |-> {}]
  /\ head' = h
  /\ head_word' = BIT_WORD(wnd_pos(h))
  /\ summary' = {}
  /\ num_marked' = 0 /\ dropped' = 0

Marks == {s \in Window : wnd_is_marked(s)}

\* Mutant: the head's place in its word is left out.
word_shift_amount(amount) == BIT_WORD(amount)

\* Both quotients are u64, and so is their difference: it is huge when the
\* head crosses the end of the number space.
word_shift(amount) == (BIT_WORD(Plus(head, amount)) - BIT_WORD(head)) % SeqSpace

\* The callers leave no mark behind the new window.  num_marked is kept in
\* either branch.
wnd_advance(amount) ==
  /\ \A s \in Marks : (head + amount - s) % SeqSpace < WND_LEN
  /\ IF word_shift(amount) >= WORDS
     THEN /\ marked' = [w \in Words |-> {}] /\ summary' = {}
          /\ dropped' = dropped + Cardinality(Marks)
     ELSE summary' = Shl(summary, word_shift(amount)) /\ UNCHANGED <<marked, dropped>>
  /\ head' = Plus(head, amount)
  /\ head_word' = (head_word + word_shift(amount)) % WORDS
  /\ UNCHANGED num_marked

\* Bound: marks are dropped at one crossing between two resets.
OneCrossing(amount) == dropped > 0 /\ Marks # {} => word_shift(amount) < WORDS

Init ==
  /\ marked = [w \in Words |-> {}]
  /\ summary = {} /\ num_marked = 0 /\ dropped = 0
  /\ head \in Seq64 /\ head_word = BIT_WORD(wnd_pos(head))

\* Bounds: how far one call advances, and the heads a reset goes to.
Amount == 1..(BITS * (WORDS + 1))
ResetHead == {0, BITS + 1, SeqSpace - 1}

Next ==
  \/ \E s \in Window : wnd_mark(s)
  \/ \E s \in Window, n \in 1..WND_LEN : wnd_mark_bulk(s, n)
  \/ \E s \in Window : wnd_clear(s)
  \/ \E h \in ResetHead : wnd_reset(h)
  \/ \E n \in Amount : OneCrossing(n) /\ wnd_advance(n)

Spec == Init /\ [][Next]_vars

-----------------------------------------------------------------------------
(* The window as a set of marked sequence numbers.                         *)

Abs == INSTANCE FpWindowSpec WITH marks <- Marks

\* The representation: the summary has exactly one bit per non-empty ring
\* word, counted back from the head's word; every 1-bit belongs to a sequence
\* number of the window (so the BITS positions outside it are zero, which
\* wnd_get_mask relies on); the count is the number of marks, and of those
\* that a crossing of the end of the number space has dropped.
Representation ==
  /\ marked \in [Words -> SUBSET Bits] /\ head \in Seq64
  /\ head_word = BIT_WORD(wnd_pos(head))
  /\ summary = {k \in Words : marked[(head_word - k) % WORDS] # {}}
  /\ \A w \in Words : \A b \in marked[w] :
       \E s \in Window : wnd_pos(s) = w * BITS + b
  /\ num_marked = Cardinality(Marks) + dropped

\* Distance back from the head: the order of the window's sequence numbers.
Back(s) == (head - s) % SeqSpace

\* wnd_empty agrees with the marks.  Otherwise a search that begins before the
\* window takes __fls of a zero summary, which is undefined.
CountUsable == Marks = {} => dropped = 0

\* Each search, started anywhere a caller may start it, finds what its comment
\* promises of the set of marks: the nearest mark at or before, at or after,
\* the earliest, and the 64-bit mask ending at a position.
SearchesAgree ==
  /\ Marks # {} => wnd_earliest_marked = CHOOSE m \in Marks : \A n \in Marks : Back(n) <= Back(m)
  /\ \A s \in {Plus(head, -d) : d \in 0..(WND_LEN + BITS)} :
       LET before == {Back(m) - Back(s) : m \in {n \in Marks : Back(n) >= Back(s)}}
       IN wnd_at_or_before(s) = IF before = {} THEN {} ELSE {Min(before)}
  /\ \A d \in (-BITS)..(IF CountUsable THEN WND_LEN + BITS ELSE WND_LEN - 1) :
       LET s == Plus(head, -d)
           after == {m \in Marks : Back(m) <= d}
       IN wnd_at_or_after(s) = {m \in after : \A n \in after : Back(n) <= Back(m)}
  /\ \A d \in (-2 * BITS)..(WND_LEN + BITS) :
       wnd_get_mask(Plus(head, -d)) =
         {b \in Bits : Plus(head, b + 1 - BITS - d) \in Marks}

\* A step of an operation is the step of the set of the same arguments.
OperationRefines ==
  LET added == num_marked' - num_marked
      moved == (head' - head) % SeqSpace
  IN
  /\ \A s \in Window : wnd_mark(s) => Abs!Mark(s, 1)
  /\ added > 0 => \A s \in Window : wnd_mark_bulk(s, added) => Abs!Mark(s, added)
  /\ \A s \in Window : wnd_clear(s) => Abs!Clear(s)
  /\ wnd_reset(head') => Abs!Reset(head')
  /\ wnd_advance(moved) => Abs!Advance(moved)

\* Every operation does to the set of marks what its name says, with the very
\* arguments it was called with: wnd_mark(s) marks s and nothing else,
\* wnd_mark_bulk the stretch it is given, wnd_clear(s) clears s, wnd_advance
\* moves the head by its amount and, short of the end of the number space,
\* keeps every mark.
RefinesSet == Abs!Init /\ [][OperationRefines]_vars
=============================================================================
