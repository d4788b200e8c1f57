--------------------------- MODULE Terminal_proofs ---------------------------
(***************************************************************************)
(* What a terminal keeps to itself.                                        *)
(*                                                                         *)
(* The trace sink, for a ring of any size above two and any commands.  The *)
(* stack is always exactly the spans that the running command holds, no    *)
(* txid reaches an event outside its transaction, and `trace <command>`    *)
(* renders that command and nothing else.  First what each operation       *)
(* leaves of the ring, the stack and the transactions in the ring, then    *)
(* the inductive invariant of the commands that use it.                    *)
(*                                                                         *)
(* The line editor and the sessions with their working directories, for    *)
(* any alphabet, line length, words, names and homes, and last the type    *)
(* invariant of the whole terminal.                                        *)
(***************************************************************************)
EXTENDS MCTerminal, IntervalInduction, SequenceTheorems, TLAPS


-----------------------------------------------------------------------------
\* The sink by itself: what each operation makes of a sink.

Statuses == {"start", "ok", "error"}
SinkRecord == [enabled : BOOLEAN, seq : Nat, ring : Seq(Events), stack : Seq(Nat), command : Contexts]

Numbered(s) ==
    /\ Len(s.ring) <= RingSize /\ Len(s.ring) < s.seq
    /\ \A i \in 1..Len(s.ring) :
         /\ s.ring[i].seq = (s.seq - Len(s.ring)) + (i - 1)
         /\ s.ring[i].parent < s.ring[i].seq

Stacked(s) ==
    /\ Increasing(s.stack)
    /\ \A i \in 1..Len(s.stack) : 0 < s.stack[i] /\ s.stack[i] < s.seq

SinkOK(s) == s \in SinkRecord /\ Numbered(s) /\ Stacked(s)

NewEvent(s, txid, type, status) ==
    [seq |-> s.seq, txid |-> txid, parent |-> Top(s), depth |-> Len(s.stack),
     command |-> s.command, type |-> type, status |-> status]

LEMMA SinkFields ==
    ASSUME NEW s, SinkOK(s)
    PROVE  /\ s.enabled \in BOOLEAN /\ s.seq \in Nat /\ s.ring \in Seq(Events) /\ s.stack \in Seq(Nat)
           /\ s.command \in Contexts /\ Len(s.ring) \in Nat /\ Len(s.stack) \in Nat
           /\ \A i \in 1..Len(s.ring) : s.ring[i] \in Events
           /\ \A i \in 1..Len(s.stack) : s.stack[i] \in Nat
           /\ DOMAIN s.ring = 1..Len(s.ring) /\ DOMAIN s.stack = 1..Len(s.stack)
           /\ Len(s.ring) <= RingSize /\ Len(s.ring) < s.seq
<1>1. s.enabled \in BOOLEAN /\ s.seq \in Nat /\ s.ring \in Seq(Events) /\ s.stack \in Seq(Nat)
      /\ s.command \in Contexts
  BY DEF SinkOK, SinkRecord
<1>2. Len(s.ring) \in Nat /\ DOMAIN s.ring = 1..Len(s.ring)
  BY <1>1, LenProperties
<1>3. Len(s.stack) \in Nat /\ DOMAIN s.stack = 1..Len(s.stack)
  BY <1>1, LenProperties
<1> QED
  BY <1>1, <1>2, <1>3, ElementOfSeq DEF SinkOK, Numbered

\* The innermost open span is the greatest number on the stack.
LEMMA TopIsGreatest ==
    ASSUME NEW s, SinkOK(s)
    PROVE  /\ Top(s) \in Nat /\ Top(s) < s.seq
           /\ s.stack = <<>> <=> Top(s) = 0
           /\ s.stack # <<>> => Top(s) \in ToSet(s.stack)
           /\ \A x \in ToSet(s.stack) : x \in Nat /\ x # 0 /\ x < s.seq /\ x <= Top(s)
<1>1. /\ s.stack \in Seq(Nat) /\ Len(s.stack) \in Nat /\ s.seq \in Nat /\ DOMAIN s.stack = 1..Len(s.stack)
      /\ Len(s.ring) \in Nat /\ Len(s.ring) < s.seq
  BY SinkFields
<1>2. \A i \in 1..Len(s.stack) : s.stack[i] \in Nat /\ 0 < s.stack[i] /\ s.stack[i] < s.seq
  BY SinkFields DEF SinkOK, Stacked
<1>3. CASE s.stack = <<>>
  BY <1>1, <1>3, EmptySeq DEF Top, ToSet
<1>4. CASE s.stack # <<>>
  <2>1. Len(s.stack) \in 1..Len(s.stack)
    BY <1>1, <1>4, EmptySeq
  <2>2. Top(s) = s.stack[Len(s.stack)]
    BY <1>4 DEF Top, Last
  <2>3. ASSUME NEW x \in ToSet(s.stack) PROVE x \in Nat /\ x # 0 /\ x < s.seq /\ x <= Top(s)
    <3>1. PICK i \in 1..Len(s.stack) : x = s.stack[i]
      BY <1>1 DEF ToSet
    <3>2. CASE i = Len(s.stack)
      BY <1>2, <2>2, <3>1, <3>2
    <3>3. CASE i < Len(s.stack)
      <4>1. s.stack[i] < s.stack[Len(s.stack)]
        BY <1>1, <2>1, <3>3 DEF SinkOK, Stacked, Increasing
      <4> QED
        BY <1>2, <2>1, <2>2, <3>1, <4>1
    <3> QED
      BY <1>1, <3>2, <3>3
  <2>4. Top(s) \in Nat /\ Top(s) # 0 /\ Top(s) < s.seq
    BY <1>2, <2>1, <2>2
  <2>5. Top(s) \in ToSet(s.stack)
    BY <1>1, <2>1, <2>2 DEF ToSet
  <2> QED
    BY <1>4, <2>3, <2>4, <2>5
<1> QED
  BY <1>3, <1>4

\* One event e more: the numbers stay without a gap and the ring within its size.
OneMore(s, n, e) ==
    /\ SinkOK(n)
    /\ n.enabled = s.enabled /\ n.seq = s.seq + 1 /\ n.stack = s.stack /\ n.command = s.command
    /\ Len(n.ring) = RingSize \/ Len(n.ring) = Len(s.ring) + 1
    /\ \A o \in ToSet(n.ring) : o \in ToSet(s.ring) \/ o = e
    /\ e \in ToSet(n.ring) /\ e \in Events

LEMMA PushedOK ==
    ASSUME NEW s, SinkOK(s), NEW txid \in Nat, NEW type \in EventTypes, NEW status \in Statuses
    PROVE  OneMore(s, Pushed(s, txid, type, status), NewEvent(s, txid, type, status))
<1> DEFINE n == Pushed(s, txid, type, status)
<1> DEFINE new == NewEvent(s, txid, type, status)
           all == Append(s.ring, new)
           k == Len(s.ring)
<1>1. /\ s.enabled \in BOOLEAN /\ s.seq \in Nat /\ s.ring \in Seq(Events) /\ s.stack \in Seq(Nat)
      /\ s.command \in Contexts /\ k \in Nat /\ Len(s.stack) \in Nat
      /\ DOMAIN s.ring = 1..k /\ k <= RingSize /\ k < s.seq
  BY SinkFields
<1>2. Top(s) \in Nat /\ Top(s) < s.seq
  BY TopIsGreatest
<1>3. new \in Events /\ new.seq = s.seq /\ new.parent = Top(s)
  BY <1>1, <1>2 DEF NewEvent, Events, Statuses
<1>4. /\ n = [s EXCEPT !.seq = @ + 1, !.ring = IF Len(all) > RingSize THEN Tail(all) ELSE all]
  BY Zenon DEF Pushed, NewEvent
<1> HIDE DEF new, n
<1>5. /\ all \in Seq(Events) /\ all # <<>> /\ Len(all) = k + 1 /\ (\A i \in 1..k : all[i] = s.ring[i])
      /\ all[k + 1] = new
  BY <1>1, <1>3, AppendProperties
<1> DEFINE kept == IF Len(all) > RingSize THEN Tail(all) ELSE all
<1>6. kept = all \/ kept = Tail(all)
  OBVIOUS
<1> HIDE DEF all
<1>7. /\ Tail(all) \in Seq(Events) /\ Len(Tail(all)) = k
      /\ \A i \in 1..k : Tail(all)[i] = all[i + 1]
  BY <1>1, <1>5, HeadTailProperties
<1>8. kept \in Seq(Events) /\ Len(kept) \in Nat /\ Len(kept) <= RingSize /\ Len(kept) <= k + 1
      /\ (Len(kept) = RingSize \/ Len(kept) = k + 1)
  BY <1>1, <1>5, <1>7, RingAssumption
<1>9. PICK d \in 0..1 : /\ Len(kept) = (k + 1) - d
                        /\ \A i \in 1..Len(kept) : kept[i] = all[i + d] /\ i + d \in 1..k + 1
  <2>1. CASE Len(all) > RingSize
    <3>1. kept = Tail(all)
      BY <2>1
    <3>2. \A i \in 1..k : i + 1 \in 1..k + 1
      BY <1>1
    <3>3. /\ Len(kept) = (k + 1) - 1
          /\ \A i \in 1..Len(kept) : kept[i] = all[i + 1] /\ i + 1 \in 1..k + 1
      BY <1>1, <1>7, <3>1, <3>2
    <3> QED
      BY <3>3
  <2>2. CASE ~(Len(all) > RingSize)
    <3>1. kept = all
      BY <2>2
    <3>2. /\ Len(kept) = (k + 1) - 0
          /\ \A i \in 1..Len(kept) : kept[i] = all[i + 0] /\ i + 0 \in 1..k + 1
      BY <1>1, <1>5, <3>1
    <3> QED
      BY <3>2
  <2> QED
    BY <2>1, <2>2
<1>10. n \in SinkRecord /\ n.ring = kept /\ n.seq = s.seq + 1 /\ n.stack = s.stack
       /\ n.command = s.command /\ n.enabled = s.enabled
  <2>1. n = [s EXCEPT !.seq = @ + 1, !.ring = kept]
    BY <1>4
  <2> HIDE DEF kept
  <2>2. s \in SinkRecord /\ s.seq + 1 \in Nat /\ kept \in Seq(Events)
    BY <1>1, <1>8 DEF SinkOK
  <2>3. n \in SinkRecord
    BY <2>1, <2>2 DEF SinkRecord
  <2>4. n.ring = kept /\ n.seq = s.seq + 1
    BY <2>1, <2>2 DEF SinkRecord
  <2>5. n.stack = s.stack /\ n.command = s.command /\ n.enabled = s.enabled
    BY <2>1, <2>2 DEF SinkRecord
  <2> QED
    BY <2>3, <2>4, <2>5
<1> HIDE DEF kept
<1>11. \A i \in 1..k + 1 : all[i].seq = (s.seq - k) + (i - 1) /\ all[i].parent < all[i].seq
  <2> SUFFICES ASSUME NEW i \in 1..k + 1
               PROVE  all[i].seq = (s.seq - k) + (i - 1) /\ all[i].parent < all[i].seq
    OBVIOUS
  <2>1. CASE i \in 1..k
    BY <2>1, <1>5 DEF SinkOK, Numbered
  <2>2. CASE i = k + 1
    BY <2>2, <1>1, <1>2, <1>3, <1>5
  <2>3. i \in 1..k \/ i = k + 1
    <3>1. k \in Nat
      BY <1>1
    <3> QED
      BY ONLY <3>1, i \in 1..k + 1
  <2> QED
    BY ONLY <2>1, <2>2, <2>3
<1>12. Numbered(n)
  <2>1. Len(kept) < s.seq + 1
    BY <1>1, <1>8
  <2>2. ASSUME NEW i \in 1..Len(kept)
        PROVE  kept[i].seq = ((s.seq + 1) - Len(kept)) + (i - 1) /\ kept[i].parent < kept[i].seq
    <3>1. PICK j \in 1..k + 1 : j = i + d /\ kept[i] = all[j]
      BY <1>9
    <3>2. all[j].seq = (s.seq - k) + (j - 1) /\ all[j].parent < all[j].seq
      BY <1>11
    <3>3. (s.seq - k) + (j - 1) = ((s.seq + 1) - Len(kept)) + (i - 1)
      <4>1. \A a, b, c, f \in Int : (a - b) + ((c + f) - 1) = ((a + 1) - ((b + 1) - f)) + (c - 1)
        OBVIOUS
      <4>2. s.seq \in Int /\ k \in Int /\ i \in Int /\ d \in Int
        BY <1>1, <1>8
      <4> HIDE DEF k
      <4> QED
        BY <4>1, <4>2, <1>9, <3>1
    <3> QED
      BY <3>1, <3>2, <3>3
  <2> QED
    BY <1>8, <1>10, <2>1, <2>2 DEF Numbered
<1>13. Stacked(n)
  BY <1>1, <1>10, SinkFields DEF SinkOK, Stacked
<1>14. ASSUME NEW e \in ToSet(n.ring) PROVE e \in ToSet(s.ring) \/ e = new
  <2>1. PICK i \in 1..Len(kept) : e = kept[i]
    BY <1>8, <1>10, LenProperties DEF ToSet
  <2>2. PICK j \in 1..k + 1 : e = all[j]
    BY <2>1, <1>9
  <2>3. CASE j \in 1..k
    BY <2>2, <2>3, <1>1, <1>5 DEF ToSet
  <2>4. CASE j = k + 1
    BY <2>2, <2>4, <1>5
  <2> QED
    BY <1>1, <2>3, <2>4
<1>15. new \in ToSet(n.ring)
  <2>1. Len(kept) \in 1..Len(kept) /\ Len(kept) + d = k + 1
    BY <1>1, <1>8, <1>9, RingAssumption
  <2>2. kept[Len(kept)] = new
    BY <2>1, <1>9, <1>5
  <2>3. DOMAIN kept = 1..Len(kept)
    BY <1>8, LenProperties
  <2> QED
    BY <2>1, <2>2, <2>3, <1>10 DEF ToSet
<1> QED
  BY <1>3, <1>8, <1>10, <1>12, <1>13, <1>14, <1>15 DEF SinkOK, OneMore, new, n

\* What every operation on a sink between two commands' contexts leaves: events
\* keep what they are, and new ones get the numbers and the context of the sink.
SameEvent(o, e) == o.seq = e.seq /\ o.parent = e.parent /\ o.type = e.type /\ o.command = e.command

Evolves(s, n) ==
    /\ SinkOK(n)
    /\ n.enabled = s.enabled /\ n.command = s.command /\ n.seq >= s.seq
    /\ Len(n.ring) = RingSize \/ Len(n.ring) >= Len(s.ring) + (n.seq - s.seq)
    /\ \A e \in ToSet(n.ring) :
         \/ \E o \in ToSet(s.ring) : SameEvent(o, e)
         \/ e.seq >= s.seq /\ e.seq < n.seq /\ e.command = s.command

LEMMA EvolvesReflexive == \A s : SinkOK(s) => Evolves(s, s)
<1> SUFFICES ASSUME NEW s, SinkOK(s) PROVE Evolves(s, s)
  OBVIOUS
<1>1. s.seq \in Nat /\ Len(s.ring) \in Nat
  BY SinkFields
<1> QED
  BY <1>1 DEF Evolves, SameEvent

LEMMA EvolvesTransitive ==
    ASSUME NEW s, SinkOK(s), NEW m, Evolves(s, m), NEW n, Evolves(m, n)
    PROVE  Evolves(s, n)
<1>1. SinkOK(m) /\ SinkOK(n)
  BY DEF Evolves
<1>2. /\ s.seq \in Nat /\ m.seq \in Nat /\ n.seq \in Nat
      /\ Len(s.ring) \in Nat /\ Len(m.ring) \in Nat /\ Len(n.ring) \in Nat
      /\ Len(m.ring) <= RingSize /\ Len(n.ring) <= RingSize /\ RingSize \in Nat
  BY <1>1, SinkFields, RingAssumption
<1>3. n.seq >= s.seq /\ n.seq >= m.seq /\ m.seq >= s.seq /\ n.enabled = s.enabled /\ n.command = s.command
      /\ m.command = s.command
  BY <1>2 DEF Evolves
<1>4. Len(n.ring) = RingSize \/ Len(n.ring) >= Len(s.ring) + (n.seq - s.seq)
  <2>1. Len(n.ring) = RingSize \/ Len(n.ring) >= Len(m.ring) + (n.seq - m.seq)
    BY DEF Evolves
  <2>2. Len(m.ring) = RingSize \/ Len(m.ring) >= Len(s.ring) + (m.seq - s.seq)
    BY DEF Evolves
  <2>3. PICK a \in Nat, b \in Nat, c \in Nat : a = Len(s.ring) /\ b = Len(m.ring) /\ c = Len(n.ring)
    BY <1>2
  <2>4. PICK x \in Nat, y \in Nat, z \in Nat : x = s.seq /\ y = m.seq /\ z = n.seq
    BY <1>2
  <2>5. b = RingSize \/ b >= a + (y - x)
    BY <2>2, <2>3, <2>4
  <2>6. c = RingSize \/ c >= b + (z - y)
    BY <2>1, <2>3, <2>4
  <2>7. c <= RingSize /\ z >= y /\ RingSize \in Nat
    BY <1>2, <1>3, <2>3, <2>4
  <2>8. c = RingSize \/ c >= a + (z - x)
    BY ONLY <2>5, <2>6, <2>7, a \in Nat, b \in Nat, c \in Nat, x \in Nat, y \in Nat, z \in Nat
  <2> QED
    BY <2>3, <2>4, <2>8
<1>5. ASSUME NEW e \in ToSet(n.ring)
      PROVE  \/ \E o \in ToSet(s.ring) : SameEvent(o, e)
             \/ e.seq >= s.seq /\ e.seq < n.seq /\ e.command = s.command
  <2>1. \/ \E o \in ToSet(m.ring) : SameEvent(o, e)
        \/ e.seq >= m.seq /\ e.seq < n.seq /\ e.command = m.command
    BY DEF Evolves
  <2>2. e.seq \in Nat
    <3>1. PICK i \in 1..Len(n.ring) : e = n.ring[i]
      BY <1>1, SinkFields DEF ToSet
    <3> QED
      BY <1>1, <3>1, SinkFields DEF Events
  <2>3. CASE e.seq >= m.seq /\ e.seq < n.seq /\ e.command = m.command
    BY <1>2, <1>3, <2>2, <2>3
  <2>4. CASE \E o \in ToSet(m.ring) : SameEvent(o, e)
    <3>1. PICK o \in ToSet(m.ring) : SameEvent(o, e)
      BY <2>4
    <3>2. CASE \E p \in ToSet(s.ring) : SameEvent(p, o)
      BY <3>1, <3>2 DEF SameEvent
    <3>3. CASE o.seq >= s.seq /\ o.seq < m.seq /\ o.command = s.command
      BY <1>2, <1>3, <2>2, <3>1, <3>3 DEF SameEvent
    <3> QED
      BY <3>2, <3>3 DEF Evolves
  <2> QED
    BY <2>1, <2>3, <2>4
<1> QED
  BY <1>1, <1>3, <1>4, <1>5 DEF Evolves

\* Events are rewritten in place.
LEMMA RewrittenOK ==
    ASSUME NEW s, SinkOK(s), NEW r, r \in [1..Len(s.ring) -> Events],
           \A i \in 1..Len(s.ring) : SameEvent(s.ring[i], r[i]),
           NEW n, n = [s EXCEPT !.ring = r]
    PROVE  Evolves(s, n) /\ n.seq = s.seq /\ n.stack = s.stack /\ n.ring = r /\ Len(r) = Len(s.ring)
<1> DEFINE k == Len(s.ring)
<1>1. /\ s.enabled \in BOOLEAN /\ s.seq \in Nat /\ s.ring \in Seq(Events) /\ s.stack \in Seq(Nat)
      /\ s.command \in Contexts /\ k \in Nat /\ DOMAIN s.ring = 1..k /\ k <= RingSize /\ k < s.seq
  BY SinkFields
<1>2. r \in Seq(Events) /\ Len(r) = k /\ DOMAIN r = 1..k
  <2>1. r \in [1..k -> Events]
    OBVIOUS
  <2> HIDE DEF k
  <2>2. k \in Nat
    BY <1>1
  <2> QED
    BY ONLY <2>1, <2>2
<1>3. s \in SinkRecord
  BY DEF SinkOK
<1>4. n \in SinkRecord
  BY <1>2, <1>3 DEF SinkRecord
<1>5. n.ring = r /\ n.seq = s.seq /\ n.stack = s.stack /\ n.command = s.command /\ n.enabled = s.enabled
  BY <1>3 DEF SinkRecord
<1>6. Numbered(n)
  <2>1. \A i \in 1..k : s.ring[i].seq = (s.seq - k) + (i - 1) /\ s.ring[i].parent < s.ring[i].seq
    BY DEF SinkOK, Numbered
  <2>2. \A i \in 1..k : r[i].seq = s.ring[i].seq /\ r[i].parent = s.ring[i].parent
    BY DEF SameEvent
  <2> HIDE DEF k
  <2>3. Len(n.ring) = k /\ n.seq = s.seq /\ n.ring = r
    BY <1>2, <1>5
  <2>4. \A i \in 1..k : r[i].seq = (s.seq - k) + (i - 1) /\ r[i].parent < r[i].seq
    BY <2>1, <2>2
  <2> QED
    BY <1>1, <2>3, <2>4 DEF Numbered
<1>7. Stacked(n)
  BY <1>5 DEF SinkOK, Stacked
<1>8. \A e \in ToSet(n.ring) : \E o \in ToSet(s.ring) : SameEvent(o, e)
  BY <1>1, <1>2, <1>5 DEF ToSet
<1>9. n.seq >= s.seq /\ Len(n.ring) >= k + (n.seq - s.seq)
  BY <1>1, <1>2, <1>5
<1> QED
  BY <1>2, <1>4, <1>5, <1>6, <1>7, <1>8, <1>9 DEF Evolves, SinkOK

LEMMA SuffixOf ==
    ASSUME NEW S, NEW s \in Seq(S), NEW n \in 0..Len(s)
    PROVE  /\ SubSeq(s, n + 1, Len(s)) \in Seq(S)
           /\ Len(SubSeq(s, n + 1, Len(s))) = Len(s) - n
           /\ \A i \in 1..Len(s) - n : SubSeq(s, n + 1, Len(s))[i] = s[n + i]
<1>1. SubSeq(s, n + 1, Len(s)) \in Seq(S) /\ Len(SubSeq(s, n + 1, Len(s))) = Len(s) - n
  OBVIOUS
<1>2. ASSUME NEW i \in 1..Len(s) - n PROVE SubSeq(s, n + 1, Len(s))[i] = s[n + i]
  <2>1. \A j \in n + 1..Len(s) : s[j] \in S
    OBVIOUS
  <2>2. n + 1 \in Int /\ Len(s) \in Int
    OBVIOUS
  <2>3. \A j \in 1..Len(s) - (n + 1) + 1 : SubSeq(s, n + 1, Len(s))[j] = s[(n + 1) + j - 1]
    BY <2>1, <2>2, SubSeqProperties
  <2>4. i \in 1..Len(s) - (n + 1) + 1 /\ (n + 1) + i - 1 = n + i
    BY <2>2
  <2> QED
    BY <2>3, <2>4
<1> QED
  BY <1>1, <1>2

\* A number leaves the stack.
LEMMA WithoutOK ==
    ASSUME NEW st \in Seq(Nat), Increasing(st), NEW x
    PROVE  /\ Without(st, x) \in Seq(Nat) /\ Increasing(Without(st, x))
           /\ ToSet(Without(st, x)) = ToSet(st) \ {x}
<1> DEFINE k == Len(st)
           entries == {i \in DOMAIN st : st[i] = x}
<1>1. k \in Nat /\ DOMAIN st = 1..k /\ \A i \in 1..k : st[i] \in Nat
  BY LenProperties, ElementOfSeq
<1>2. CASE entries = {}
  BY <1>1, <1>2 DEF Without, ToSet
<1>3. CASE entries # {}
  <2> DEFINE p == CHOOSE i \in entries : \A j \in entries : j <= i
  <2>1. PICK m \in entries : TRUE
    BY <1>3
  <2>2. m \in 1..k /\ st[m] = x
    BY <1>1, <2>1
  <2>3. ASSUME NEW j \in 1..k, st[j] = x PROVE j = m
    <3>1. \A a, b \in 1..k : a < b => st[a] < st[b]
      BY <1>1 DEF Increasing
    <3>2. ~(st[j] < st[m]) /\ ~(st[m] < st[j])
      BY <1>1, <2>2, <2>3
    <3>3. ~(j < m) /\ ~(m < j)
      BY <3>1, <3>2, <2>2
    <3> QED
      BY <1>1, <2>2, <3>3
  <2>4. p = m
    <3>1. entries = {m}
      BY <1>1, <2>2, <2>3
    <3>2. m <= m
      BY <1>1, <2>2
    <3> HIDE DEF entries
    <3> QED
      BY <3>1, <3>2
  <2> DEFINE front == SubSeq(st, 1, m - 1)
             back == SubSeq(st, m + 1, k)
             rest == front \o back
  <2>5. Without(st, x) = rest
    BY <1>3, <2>4 DEF Without, RemoveAt
  <2>6. front \in Seq(Nat) /\ Len(front) = m - 1 /\ \A i \in 1..m - 1 : front[i] = st[i]
    <3>1. PICK a \in 0..k : a = m - 1
      BY <1>1, <2>2
    <3>2. SubSeq(st, 1, a) \in Seq(Nat) /\ Len(SubSeq(st, 1, a)) = a /\ \A i \in 1..a : SubSeq(st, 1, a)[i] = st[i]
      BY <3>1
    <3> QED
      BY <3>1, <3>2
  <2>7. back \in Seq(Nat) /\ Len(back) = k - m /\ \A i \in 1..k - m : back[i] = st[m + i]
    <3>1. m \in 0..Len(st)
      BY <1>1, <2>2
    <3> QED
      BY <3>1, SuffixOf
  <2> HIDE DEF front, back
  <2>8. /\ rest \in Seq(Nat) /\ Len(rest) = (m - 1) + (k - m)
        /\ \A i \in 1..(m - 1) + (k - m) : rest[i] = IF i <= m - 1 THEN front[i] ELSE back[i - (m - 1)]
    <3>1. /\ rest \in Seq(Nat) /\ Len(rest) = Len(front) + Len(back)
          /\ \A i \in 1..Len(front) + Len(back) : rest[i] = IF i <= Len(front) THEN front[i] ELSE back[i - Len(front)]
      BY <2>6, <2>7, ConcatProperties
    <3>2. Len(front) = m - 1 /\ Len(back) = k - m
      BY <2>6, <2>7
    <3> HIDE DEF rest, k
    <3> QED
      BY <3>1, <3>2
  <2> HIDE DEF rest
  <2>13. (m - 1) + (k - m) = k - 1
    BY <1>1, <2>2
  <2>9. ASSUME NEW i \in 1..k - 1 PROVE rest[i] = st[IF i < m THEN i ELSE i + 1]
    <3>1. CASE i < m
      <4>1. i \in 1..m - 1 /\ i <= m - 1
        BY <1>1, <2>2, <3>1
      <4> QED
        BY <2>6, <2>8, <2>13, <3>1, <4>1
    <3>2. CASE ~(i < m)
      <4>1. PICK j \in 1..k - m : j = i - (m - 1)
        BY <1>1, <2>2, <3>2
      <4>2. m + j = i + 1 /\ ~(i <= m - 1)
        BY <1>1, <2>2, <3>2, <4>1
      <4>3. rest[i] = back[j]
        BY <2>8, <2>13, <4>1, <4>2
      <4> QED
        BY <2>7, <3>2, <4>1, <4>2, <4>3
    <3> QED
      BY <3>1, <3>2
  <2>10. DOMAIN rest = 1..k - 1
    BY <2>8, <2>13, LenProperties
  <2>11. Increasing(rest)
    <3> SUFFICES ASSUME NEW i \in 1..k - 1, NEW j \in 1..k - 1, i < j PROVE rest[i] < rest[j]
      BY <2>10 DEF Increasing
    <3> DEFINE a == IF i < m THEN i ELSE i + 1
               b == IF j < m THEN j ELSE j + 1
    <3>1. a \in 1..k /\ b \in 1..k /\ a < b
      BY <1>1, <2>2
    <3>2. rest[i] = st[a] /\ rest[j] = st[b]
      BY <2>9
    <3> HIDE DEF a, b
    <3> QED
      BY <1>1, <3>1, <3>2 DEF Increasing
  <2>12. ToSet(rest) = ToSet(st) \ {x}
    <3>1. ASSUME NEW y \in ToSet(rest) PROVE y \in ToSet(st) \ {x}
      <4>1. PICK i \in 1..k - 1 : y = rest[i]
        BY <2>10 DEF ToSet
      <4>2. PICK a \in 1..k : a = (IF i < m THEN i ELSE i + 1) /\ a # m /\ y = st[a]
        BY <1>1, <2>2, <2>9, <4>1
      <4> QED
        BY <1>1, <2>3, <4>2 DEF ToSet
    <3>2. ASSUME NEW y \in ToSet(st) \ {x} PROVE y \in ToSet(rest)
      <4>1. PICK a \in 1..k : y = st[a] /\ a # m
        BY <1>1, <2>2 DEF ToSet
      <4>2. PICK i \in 1..k - 1 : a = IF i < m THEN i ELSE i + 1
        <5>1. CASE a < m
          BY <1>1, <2>2, <4>1, <5>1
        <5>2. CASE a > m
          <6>1. a - 1 \in 1..k - 1 /\ ~(a - 1 < m) /\ a = (a - 1) + 1
            BY <1>1, <2>2, <4>1, <5>2
          <6> QED
            BY <6>1
        <5> QED
          BY <1>1, <2>2, <4>1, <5>1, <5>2
      <4> QED
        BY <2>9, <2>10, <4>1, <4>2 DEF ToSet
    <3> QED
      BY <3>1, <3>2
  <2> QED
    BY <2>5, <2>8, <2>11, <2>12
<1> QED
  BY <1>2, <1>3

-----------------------------------------------------------------------------
\* Transactions in the ring: an event with a txid is a transaction's span, hangs
\* under it or is boot's recovery's, and the open transaction's span x carries its
\* txid t.

OfBoot(e) == e.type \in RecoveryTypes /\ e.parent = 0 /\ e.command = <<"run", NoCommand>>

OfTx(s, e) ==
    e.txid # 0 =>
      \/ e.type = "journal.begin"
      \/ /\ e.parent # 0
         /\ \A f \in ToSet(s.ring) : f.seq = e.parent => f.type = "journal.begin" /\ f.txid = e.txid
      \/ OfBoot(e)

SpanOfTx(s, x, t) == \A e \in ToSet(s.ring) : x # 0 /\ e.seq = x => e.type = "journal.begin" /\ e.txid = t

TxOK(s, x, t) == (\A e \in ToSet(s.ring) : OfTx(s, e)) /\ SpanOfTx(s, x, t)

LEMMA RingEvents ==
    ASSUME NEW s, SinkOK(s)
    PROVE  \A e \in ToSet(s.ring) : /\ e \in Events /\ e.seq \in Nat /\ e.parent \in Nat /\ e.parent < e.seq
                                    /\ e.seq < s.seq /\ e.seq # 0
<1> SUFFICES ASSUME NEW e \in ToSet(s.ring)
             PROVE  e \in Events /\ e.seq \in Nat /\ e.parent \in Nat /\ e.parent < e.seq
                    /\ e.seq < s.seq /\ e.seq # 0
  OBVIOUS
<1>1. PICK i \in 1..Len(s.ring) : e = s.ring[i]
  BY SinkFields DEF ToSet
<1>2. Len(s.ring) \in Nat /\ s.seq \in Nat /\ Len(s.ring) < s.seq
  BY SinkFields
<1>3. e \in Events /\ e.seq = (s.seq - Len(s.ring)) + (i - 1) /\ e.parent < e.seq
  BY <1>1, SinkFields DEF SinkOK, Numbered
<1>4. e.seq \in Nat /\ e.parent \in Nat
  BY <1>3 DEF Events
<1>5. PICK a \in Nat, b \in Nat : a = s.seq /\ b = Len(s.ring)
  BY <1>2
<1>6. (a - b) + (i - 1) < a
  BY <1>1, <1>5
<1>7. e.seq # 0
  BY <1>3 DEF Events
<1> QED
  BY <1>3, <1>4, <1>5, <1>6, <1>7

\* Only numbers, types and txids matter to it.
LEMMA TxKept ==
    ASSUME NEW s, NEW n, NEW x, NEW t, TxOK(s, x, t),
           \A e \in ToSet(n.ring) : \E o \in ToSet(s.ring) : SameEvent(o, e) /\ o.txid = e.txid
    PROVE  TxOK(n, x, t)
BY DEF TxOK, OfTx, OfBoot, SpanOfTx, SameEvent

\* An update touches no number and no txid.
Updates(s, n) ==
    /\ Evolves(s, n) /\ n.seq = s.seq /\ n.stack = s.stack
    /\ \A y, t : TxOK(s, y, t) => TxOK(n, y, t)

LEMMA UpdateSpanOK ==
    ASSUME NEW s, SinkOK(s), NEW x \in Nat, NEW status \in Statuses \cup {Same}
    PROVE  Updates(s, UpdateSpan(s, x, status))
<1> DEFINE n == UpdateSpan(s, x, status)
<1> DEFINE k == Len(s.ring)
           r == [i \in 1..k |-> IF s.ring[i].seq = x /\ status # Same
                                THEN [s.ring[i] EXCEPT !.status = status] ELSE s.ring[i]]
<1>1. DOMAIN s.ring = 1..k /\ \A i \in 1..k : s.ring[i] \in Events
  BY SinkFields
<1>2. n = [s EXCEPT !.ring = r]
  <2>1. s \in SinkRecord
    BY DEF SinkOK
  <2> QED
    BY <1>1, <2>1 DEF UpdateSpan, SinkRecord
<1>3. status # Same => status \in Statuses
  OBVIOUS
<1>4. \A i \in 1..k : r[i] \in Events /\ SameEvent(s.ring[i], r[i]) /\ r[i].txid = s.ring[i].txid
  BY <1>1, <1>3 DEF Events, SameEvent, Statuses
<1>5. r \in [1..k -> Events]
  BY <1>4
<1> HIDE DEF r, n
<1>6. Evolves(s, n) /\ n.seq = s.seq /\ n.stack = s.stack /\ n.ring = r /\ Len(r) = k
  BY <1>2, <1>4, <1>5, RewrittenOK
<1>7. DOMAIN r = 1..k
  BY <1>5
<1>8. \A e \in ToSet(n.ring) : \E o \in ToSet(s.ring) : SameEvent(o, e) /\ o.txid = e.txid
  BY <1>1, <1>4, <1>6, <1>7 DEF ToSet
<1> QED
  BY <1>6, <1>8, TxKept DEF Updates, n

\* finishSpan takes its span off the stack and nothing else.
Closes(s, n, X) ==
    /\ Evolves(s, n) /\ n.seq = s.seq /\ ToSet(n.stack) = ToSet(s.stack) \ X
    /\ \A y, t : TxOK(s, y, t) => TxOK(n, y, t)

LEMMA FinishSpanOK ==
    ASSUME NEW s, SinkOK(s), NEW x \in Nat, NEW status \in Statuses \cup {Same}
    PROVE  Closes(s, FinishSpan(s, x, status), {x})
<1> DEFINE n == FinishSpan(s, x, status)
<1> DEFINE m == UpdateSpan(s, x, status)
<1>1. n = [m EXCEPT !.stack = Without(@, x)]
  BY DEF FinishSpan
<1>2. /\ Evolves(s, m) /\ m.seq = s.seq /\ m.stack = s.stack
      /\ \A y, t : TxOK(s, y, t) => TxOK(m, y, t)
  BY UpdateSpanOK DEF Updates
<1> HIDE DEF m, n
<1>3. SinkOK(m) /\ m \in SinkRecord /\ m.stack \in Seq(Nat) /\ Increasing(m.stack)
  BY <1>2, SinkFields DEF Evolves, SinkOK, Stacked
<1> DEFINE rest == Without(m.stack, x)
<1>4. rest \in Seq(Nat) /\ Increasing(rest) /\ ToSet(rest) = ToSet(m.stack) \ {x}
  BY <1>3, WithoutOK
<1>5. n = [m EXCEPT !.stack = rest]
  BY <1>1, <1>3 DEF SinkRecord
<1> HIDE DEF rest
<1>6. n \in SinkRecord /\ n.stack = rest /\ n.ring = m.ring /\ n.seq = m.seq /\ n.enabled = m.enabled
      /\ n.command = m.command
  BY <1>3, <1>4, <1>5 DEF SinkRecord
<1>7. Numbered(n)
  BY <1>3, <1>6 DEF SinkOK, Numbered
<1>8. Stacked(n)
  <2>1. DOMAIN rest = 1..Len(rest)
    BY <1>4, LenProperties
  <2>2. \A y \in ToSet(rest) : 0 < y /\ y < m.seq
    <3>1. \A y \in ToSet(m.stack) : y \in Nat /\ y # 0 /\ y < m.seq
      BY <1>3, TopIsGreatest
    <3> QED
      BY <1>4, <3>1
  <2> QED
    BY <1>4, <1>6, <2>1, <2>2 DEF Stacked, ToSet
<1>9. SinkOK(n)
  BY <1>6, <1>7, <1>8 DEF SinkOK
<1>10. Evolves(s, n)
  BY <1>2, <1>6, <1>9 DEF Evolves
<1>11. ASSUME NEW y, NEW t, TxOK(s, y, t) PROVE TxOK(n, y, t)
  <2>1. TxOK(m, y, t)
    BY <1>2, <1>11
  <2> QED
    BY <1>6, <2>1 DEF TxOK, OfTx, SpanOfTx
<1> QED
  BY <1>2, <1>4, <1>6, <1>10, <1>11 DEF Closes, n

\* beginSpan pushes its number; when it is filtered nothing happens.
Opens(s, n, x, type) ==
    /\ Evolves(s, n) /\ x \in Nat /\ x < n.seq
    /\ ToSet(n.stack) = ToSet(s.stack) \cup ({x} \ {0})
    /\ x # 0 => x = s.seq
    /\ s.enabled => x # 0 /\ n.seq = s.seq + 1
    /\ ~s.enabled /\ type \notin TraceTypes => n = s /\ x = 0
    /\ \A e \in ToSet(n.ring) : e \in ToSet(s.ring) \/ e = NewEvent(s, 0, type, "start")

LEMMA BeginSpanOK ==
    ASSUME NEW s, SinkOK(s), NEW type \in EventTypes
    PROVE  Opens(s, BeginSpan(s, 0, type), SpanOf(s, type), type)
<1> DEFINE n == BeginSpan(s, 0, type)
<1>1. s.seq \in Nat /\ s.stack \in Seq(Nat) /\ Len(s.stack) \in Nat /\ s.enabled \in BOOLEAN
      /\ DOMAIN s.stack = 1..Len(s.stack) /\ s.seq # 0
  <2>1. Len(s.ring) \in Nat /\ Len(s.ring) < s.seq /\ s.seq \in Nat
    BY SinkFields
  <2> QED
    BY <2>1, SinkFields
<1>2. CASE Filtered(s, type)
  <2>1. n = s /\ SpanOf(s, type) = 0 /\ ~s.enabled
    BY <1>2 DEF BeginSpan, SpanOf, Filtered
  <2> HIDE DEF n
  <2> QED
    BY <1>1, <2>1, EvolvesReflexive DEF Opens, n
<1>3. CASE ~Filtered(s, type)
  <2> DEFINE m == Pushed(s, 0, type, "start")
             new == NewEvent(s, 0, type, "start")
  <2>1. /\ SinkOK(m) /\ m.enabled = s.enabled /\ m.seq = s.seq + 1 /\ m.stack = s.stack
        /\ m.command = s.command
        /\ Len(m.ring) = RingSize \/ Len(m.ring) = Len(s.ring) + 1
        /\ \A e \in ToSet(m.ring) : e \in ToSet(s.ring) \/ e = new
    <3>1. "start" \in Statuses /\ 0 \in Nat
      BY DEF Statuses
    <3>2. OneMore(s, Pushed(s, 0, type, "start"), NewEvent(s, 0, type, "start"))
      BY <3>1, PushedOK
    <3> QED
      BY <3>2 DEF OneMore
  <2>2. n = [m EXCEPT !.stack = Append(@, s.seq)] /\ SpanOf(s, type) = s.seq
    BY <1>3 DEF BeginSpan, SpanOf
  <2> HIDE DEF m, n
  <2> DEFINE longer == Append(s.stack, s.seq)
  <2>3. m \in SinkRecord /\ n = [m EXCEPT !.stack = longer]
    BY <2>1, <2>2 DEF SinkOK, SinkRecord
  <2>4. longer \in Seq(Nat) /\ Len(longer) = Len(s.stack) + 1 /\ (\A i \in 1..Len(s.stack) : longer[i] = s.stack[i])
        /\ longer[Len(s.stack) + 1] = s.seq
    BY <1>1, AppendProperties
  <2> HIDE DEF longer
  <2>5. n \in SinkRecord /\ n.stack = longer /\ n.ring = m.ring /\ n.seq = m.seq /\ n.enabled = m.enabled
        /\ n.command = m.command
    BY <2>3, <2>4 DEF SinkRecord
  <2>6. Numbered(n)
    BY <2>1, <2>5 DEF SinkOK, Numbered
  <2>7. DOMAIN longer = 1..Len(s.stack) + 1
    BY <2>4, LenProperties
  <2>8. ToSet(longer) = ToSet(s.stack) \cup {s.seq}
    <3>1. \A i \in 1..Len(s.stack) + 1 : i \in 1..Len(s.stack) \/ i = Len(s.stack) + 1
      BY <1>1
    <3>2. \A i \in 1..Len(s.stack) : i \in 1..Len(s.stack) + 1
      BY <1>1
    <3>3. Len(s.stack) + 1 \in 1..Len(s.stack) + 1
      BY <1>1
    <3> QED
      BY <1>1, <2>4, <2>7, <3>1, <3>2, <3>3 DEF ToSet
  <2>9. Stacked(n)
    <3>1. \A i \in 1..Len(s.stack) : s.stack[i] \in Nat /\ 0 < s.stack[i] /\ s.stack[i] < s.seq
      BY <1>1, SinkFields DEF SinkOK, Stacked
    <3>2. \A i, j \in 1..Len(s.stack) : i < j => s.stack[i] < s.stack[j]
      BY <1>1 DEF SinkOK, Stacked, Increasing
    <3>3. \A i, j \in 1..Len(s.stack) + 1 : i < j => longer[i] < longer[j]
      <4> SUFFICES ASSUME NEW i \in 1..Len(s.stack) + 1, NEW j \in 1..Len(s.stack) + 1, i < j
                   PROVE  longer[i] < longer[j]
        OBVIOUS
      <4>1. i \in 1..Len(s.stack)
        BY <1>1
      <4>2. CASE j \in 1..Len(s.stack)
        BY <2>4, <3>2, <4>1, <4>2
      <4>3. CASE j = Len(s.stack) + 1
        BY <2>4, <3>1, <4>1, <4>3
      <4>4. Len(s.stack) \in Nat
        BY <1>1
      <4>5. j \in 1..Len(s.stack) \/ j = Len(s.stack) + 1
        BY <4>4
      <4> QED
        BY <4>2, <4>3, <4>5
    <3>4. \A i \in 1..Len(s.stack) + 1 : 0 < longer[i] /\ longer[i] < s.seq + 1
      <4> SUFFICES ASSUME NEW i \in 1..Len(s.stack) + 1 PROVE 0 < longer[i] /\ longer[i] < s.seq + 1
        OBVIOUS
      <4>1. CASE i \in 1..Len(s.stack)
        <5>1. longer[i] = s.stack[i] /\ s.stack[i] \in Nat /\ 0 < s.stack[i] /\ s.stack[i] < s.seq
          BY <2>4, <3>1, <4>1
        <5> HIDE DEF longer
        <5> QED
          BY <1>1, <5>1
      <4>2. CASE i = Len(s.stack) + 1
        BY <1>1, <2>4, <4>2
      <4> QED
        BY <1>1, <4>1, <4>2
    <3> QED
      BY <2>1, <2>4, <2>5, <2>7, <3>3, <3>4 DEF Stacked, Increasing
  <2>10. SinkOK(n)
    BY <2>5, <2>6, <2>9 DEF SinkOK
  <2>11. new.seq = s.seq /\ new.command = s.command
    BY DEF NewEvent
  <2>12. Evolves(s, n)
    <3>1. n.seq >= s.seq /\ n.seq - s.seq = 1 /\ s.seq < n.seq
      BY <1>1, <2>1, <2>5
    <3>2. Len(n.ring) = RingSize \/ Len(n.ring) >= Len(s.ring) + 1
      <4>1. Len(s.ring) \in Nat
        BY SinkFields
      <4> QED
        BY <2>1, <2>5, <4>1
    <3>3. \A e \in ToSet(n.ring) : (\E o \in ToSet(s.ring) : SameEvent(o, e)) \/ e = new
      BY <2>1, <2>5 DEF SameEvent
    <3> HIDE DEF new
    <3>5. new.seq >= s.seq /\ new.seq < n.seq /\ new.command = s.command
      BY <1>1, <2>11, <3>1
    <3>4. \A e \in ToSet(n.ring) :
             \/ \E o \in ToSet(s.ring) : SameEvent(o, e)
             \/ e.seq >= s.seq /\ e.seq < n.seq /\ e.command = s.command
      BY Zenon, <3>3, <3>5
    <3> QED
      BY <2>1, <2>5, <2>10, <3>1, <3>2, <3>4 DEF Evolves
  <2> QED
    BY <1>1, <1>3, <2>1, <2>2, <2>5, <2>8, <2>12 DEF Filtered, Opens, n
<1> QED
  BY <1>2, <1>3

\* A new event leaves the transactions in order when it has no txid, or is a
\* journal.begin, or recovery's, or hangs under the open transaction's span.
LEMMA TxPush ==
    ASSUME NEW s, SinkOK(s), NEW x \in Nat, x < s.seq, NEW t, TxOK(s, x, t), NEW n, NEW e,
           \A o \in ToSet(n.ring) : o \in ToSet(s.ring) \/ o = e,
           e.seq = s.seq, e.parent = Top(s),
           e.txid # 0 => \/ e.type = "journal.begin" \/ OfBoot(e)
                         \/ x # 0 /\ Top(s) = x /\ e.txid = t
    PROVE  TxOK(n, x, t)
<1>1. \A o \in ToSet(s.ring) : o.seq \in Nat /\ o.parent \in Nat /\ o.parent < o.seq /\ o.seq < s.seq
  BY RingEvents
<1>2. s.seq \in Nat
  BY SinkFields
<1>3. ASSUME NEW o \in ToSet(s.ring) PROVE OfTx(n, o)
  <2>1. e.seq # o.parent
    BY <1>1, <1>2
  <2>2. OfTx(s, o)
    BY DEF TxOK
  <2> QED
    BY <2>1, <2>2 DEF OfTx
<1>4. OfTx(n, e)
  <2>1. e.seq # x
    BY <1>2
  <2> QED
    BY <2>1 DEF TxOK, OfTx, SpanOfTx
<1>5. SpanOfTx(n, x, t)
  BY <1>2 DEF TxOK, SpanOfTx
<1> QED
  BY <1>3, <1>4, <1>5 DEF TxOK

LEMMA BeginSpanTx ==
    ASSUME NEW s, SinkOK(s), NEW type \in EventTypes, NEW x \in Nat, x < s.seq, NEW t, TxOK(s, x, t)
    PROVE  TxOK(BeginSpan(s, 0, type), x, t)
<1> DEFINE n == BeginSpan(s, 0, type)
           new == NewEvent(s, 0, type, "start")
<1>1. \A e \in ToSet(n.ring) : e \in ToSet(s.ring) \/ e = new
  BY BeginSpanOK DEF Opens
<1>2. new.seq = s.seq /\ new.parent = Top(s) /\ new.txid = 0
  BY DEF NewEvent
<1> HIDE DEF new, n
<1>3. TxOK(n, x, t)
  BY <1>1, <1>2, TxPush
<1> QED
  BY <1>3 DEF n

\* emit completes the innermost span or adds an event, and leaves the stack alone.
Emits(s, n, type) ==
    /\ Evolves(s, n) /\ n.stack = s.stack /\ n.seq <= s.seq + 1
    /\ s.enabled /\ s.stack = <<>> => n.seq = s.seq + 1
    /\ ~s.enabled /\ type \notin TraceTypes => n = s

\* What may be emitted while the span x of the transaction t is open.
TxSafe(s, x, t, e, type) ==
    /\ e = 0 => type # "journal.begin"
    /\ e # 0 => \/ e = t /\ type \notin TraceTypes /\ (s.enabled => x # 0 /\ Top(s) = x)
                \/ type \in RecoveryTypes /\ s.stack = <<>> /\ s.command = <<"run", NoCommand>>

LEMMA EmitOK ==
    ASSUME NEW s, SinkOK(s), NEW e \in Nat, NEW type \in EventTypes, NEW status \in Statuses
    PROVE  /\ Emits(s, Emit(s, e, type, status), type)
           /\ \A x \in Nat : \A t : x < s.seq /\ TxOK(s, x, t) /\ TxSafe(s, x, t, e, type)
                => TxOK(Emit(s, e, type, status), x, t)
<1> DEFINE n == Emit(s, e, type, status)
           k == Len(s.ring)
           new == NewEvent(s, e, type, status)
           m == Pushed(s, e, type, status)
           done(o) == [o EXCEPT !.txid = e, !.status = status]
           r == [i \in 1..k |-> IF Completes(s, s.ring[i], type) THEN done(s.ring[i]) ELSE s.ring[i]]
<1>1. /\ s.seq \in Nat /\ k \in Nat /\ s.enabled \in BOOLEAN /\ DOMAIN s.ring = 1..k
      /\ \A i \in 1..k : s.ring[i] \in Events
  BY SinkFields
<1>2. CASE Filtered(s, type)
  <2>1. n = s
    BY <1>2 DEF Emit
  <2>2. ~s.enabled
    BY <1>2 DEF Filtered
  <2> HIDE DEF n
  <2> QED
    BY <1>1, <2>1, <2>2, EvolvesReflexive DEF Emits, n
<1>3. CASE ~Filtered(s, type) /\ \E i \in 1..k : Completes(s, s.ring[i], type)
  <2>1. n = [s EXCEPT !.ring = r]
    <3>1. s \in SinkRecord
      BY DEF SinkOK
    <3> QED
      BY <1>1, <1>3, <3>1 DEF Emit, SinkRecord
  <2>2. \A i \in 1..k : r[i] \in Events /\ SameEvent(s.ring[i], r[i])
                        /\ (Completes(s, s.ring[i], type) => r[i].txid = e)
                        /\ (~Completes(s, s.ring[i], type) => r[i] = s.ring[i])
    BY <1>1 DEF Events, SameEvent, Statuses
  <2>3. r \in [1..k -> Events]
    BY <2>2
  <2> HIDE DEF r, n
  <2>4. Evolves(s, n) /\ n.seq = s.seq /\ n.stack = s.stack /\ n.ring = r /\ Len(r) = k
    BY <2>1, <2>2, <2>3, RewrittenOK
  <2>5. PICK a \in 1..k : Completes(s, s.ring[a], type)
    BY <1>3
  <2>6. Top(s) # 0 /\ s.stack # <<>>
    <3>1. s.ring[a].seq # 0
      BY <1>1, RingEvents DEF ToSet
    <3> QED
      BY <2>5, <3>1, TopIsGreatest DEF Completes
  <2>7. Emits(s, n, type)
    <3>1. ~s.enabled => type \in TraceTypes
      BY <1>3 DEF Filtered
    <3> QED
      BY <1>1, <2>4, <2>6, <3>1 DEF Emits
  <2>8. ASSUME NEW x \in Nat, NEW t, x < s.seq, TxOK(s, x, t), TxSafe(s, x, t, e, type)
        PROVE  TxOK(n, x, t)
    <3>1. DOMAIN r = 1..k
      BY <2>3
    <3>2. ASSUME NEW i \in 1..k
          PROVE  \/ r[i].txid = s.ring[i].txid
                 \/ r[i].txid = 0 /\ s.ring[i].type # "journal.begin"
      <4>1. CASE ~Completes(s, s.ring[i], type)
        BY <2>2, <4>1
      <4>2. CASE Completes(s, s.ring[i], type)
        <5>1. r[i].txid = e /\ s.ring[i].type = type /\ s.ring[i].seq = Top(s) /\ s.ring[i] \in ToSet(s.ring)
          BY <1>1, <2>2, <4>2 DEF Completes, ToSet
        <5>2. CASE e = 0
          BY <2>8, <5>1, <5>2 DEF TxSafe
        <5>3. CASE e # 0
          <6>1. e = t /\ x # 0 /\ Top(s) = x
            BY <1>3, <2>6, <2>8, <5>3 DEF TxSafe, Filtered
          <6>2. s.ring[i].txid = t
            BY <2>8, <5>1, <6>1 DEF TxOK, SpanOfTx
          <6> QED
            BY <5>1, <6>1, <6>2
        <5> QED
          BY <5>2, <5>3
      <4> QED
        BY <4>1, <4>2
    <3>3. \A f \in ToSet(n.ring) : \E o \in ToSet(s.ring) :
             SameEvent(o, f) /\ (o.txid = f.txid \/ (f.txid = 0 /\ o.type # "journal.begin"))
      BY <1>1, <2>2, <2>4, <3>1, <3>2 DEF ToSet
    <3> QED
      BY <2>8, <3>3 DEF TxOK, OfTx, OfBoot, SpanOfTx, SameEvent
  <2> QED
    BY <2>7, <2>8 DEF n
<1>4. CASE ~Filtered(s, type) /\ ~\E i \in 1..k : Completes(s, s.ring[i], type)
  <2>1. n = m
    BY <1>1, <1>4 DEF Emit
  <2>2. OneMore(s, m, new)
    BY PushedOK
  <2>3. new.seq = s.seq /\ new.command = s.command /\ new.parent = Top(s) /\ new.txid = e /\ new.type = type
    BY DEF NewEvent
  <2>4. ~s.enabled => type \in TraceTypes
    BY <1>4 DEF Filtered
  <2> HIDE DEF n, m, new
  <2>5. n.seq = s.seq + 1 /\ n.stack = s.stack /\ n.enabled = s.enabled /\ n.command = s.command /\ SinkOK(n)
        /\ n.seq >= s.seq /\ n.seq - s.seq = 1 /\ new.seq < n.seq /\ new.seq >= s.seq
    BY <1>1, <2>1, <2>2, <2>3 DEF OneMore
  <2>6. \A o \in ToSet(n.ring) : o \in ToSet(s.ring) \/ o = new
    BY <2>1, <2>2 DEF OneMore
  <2>7. Evolves(s, n)
    <3>1. Len(n.ring) = RingSize \/ Len(n.ring) >= k + (n.seq - s.seq)
      BY <1>1, <2>1, <2>2, <2>5 DEF OneMore
    <3>2. \A o \in ToSet(s.ring) : SameEvent(o, o)
      BY DEF SameEvent
    <3>3. \A o \in ToSet(n.ring) :
             \/ \E p \in ToSet(s.ring) : SameEvent(p, o)
             \/ o.seq >= s.seq /\ o.seq < n.seq /\ o.command = s.command
      BY Zenon, <2>3, <2>5, <2>6, <3>2
    <3> QED
      BY <2>5, <3>1, <3>3 DEF Evolves
  <2>8. Emits(s, n, type)
    BY <1>1, <2>4, <2>5, <2>7 DEF Emits
  <2>9. ASSUME NEW x \in Nat, NEW t, x < s.seq, TxOK(s, x, t), TxSafe(s, x, t, e, type)
        PROVE  TxOK(n, x, t)
    <3>1. new.txid # 0 => OfBoot(new) \/ (x # 0 /\ Top(s) = x /\ new.txid = t)
      BY <2>3, <2>4, <2>9 DEF TxSafe, OfBoot, Top
    <3> QED
      BY <2>3, <2>6, <2>9, <3>1, TxPush
  <2> QED
    BY <2>8, <2>9 DEF n
<1> QED
  BY <1>1, <1>2, <1>3, <1>4

\* SetSpanTxid writes t into the event of the span x.
LEMMA SetSpanTxidOK ==
    ASSUME NEW s, SinkOK(s), NEW x \in Nat, NEW t \in Nat
    PROVE  /\ Evolves(s, SetSpanTxid(s, x, t)) /\ SetSpanTxid(s, x, t).seq = s.seq
           /\ SetSpanTxid(s, x, t).stack = s.stack
           /\ \A e \in ToSet(SetSpanTxid(s, x, t).ring) : \E o \in ToSet(s.ring) :
                SameEvent(o, e) /\ e.txid = IF o.seq = x THEN t ELSE o.txid
<1> DEFINE n == SetSpanTxid(s, x, t)
           k == Len(s.ring)
           r == [i \in 1..k |-> IF s.ring[i].seq = x THEN [s.ring[i] EXCEPT !.txid = t] ELSE s.ring[i]]
<1>1. DOMAIN s.ring = 1..k /\ \A i \in 1..k : s.ring[i] \in Events
  BY SinkFields
<1>2. n = [s EXCEPT !.ring = r]
  <2>1. s \in SinkRecord
    BY DEF SinkOK
  <2> QED
    BY <1>1, <2>1 DEF SetSpanTxid, SinkRecord
<1>3. \A i \in 1..k : r[i] \in Events /\ SameEvent(s.ring[i], r[i])
                      /\ r[i].txid = IF s.ring[i].seq = x THEN t ELSE s.ring[i].txid
  BY <1>1 DEF Events, SameEvent
<1>4. r \in [1..k -> Events]
  BY <1>3
<1> HIDE DEF r, n
<1>5. Evolves(s, n) /\ n.seq = s.seq /\ n.stack = s.stack /\ n.ring = r /\ Len(r) = k
  BY <1>2, <1>3, <1>4, RewrittenOK
<1>6. DOMAIN r = 1..k
  BY <1>4
<1>7. \A e \in ToSet(n.ring) : \E o \in ToSet(s.ring) :
        SameEvent(o, e) /\ e.txid = IF o.seq = x THEN t ELSE o.txid
  BY <1>1, <1>3, <1>5, <1>6 DEF ToSet
<1> QED
  BY <1>5, <1>7 DEF n

\* A transaction's span as beginTx leaves it: open, with the txid.
OpenTx(s, t) == SetSpanTxid(BeginSpan(s, 0, "journal.begin"), SpanOf(s, "journal.begin"), t)

OpensTx(s, n, x, t) ==
    /\ Evolves(s, n) /\ x \in Nat /\ x < n.seq
    /\ ToSet(n.stack) = ToSet(s.stack) \cup ({x} \ {0})
    /\ x # 0 => x = s.seq
    /\ s.enabled => x # 0 /\ Top(n) = x
    /\ TxOK(n, x, t)

LEMMA OpenTxOK ==
    ASSUME NEW s, SinkOK(s), NEW t \in Nat, TxOK(s, 0, 0)
    PROVE  OpensTx(s, OpenTx(s, t), SpanOf(s, "journal.begin"), t)
<1> DEFINE m == BeginSpan(s, 0, "journal.begin")
           x == SpanOf(s, "journal.begin")
           n == OpenTx(s, t)
           new == NewEvent(s, 0, "journal.begin", "start")
<1>0. "journal.begin" \in EventTypes
  BY DEF EventTypes
<1>1. Opens(s, m, x, "journal.begin")
  BY <1>0, BeginSpanOK
<1>2. s.seq \in Nat /\ 0 < s.seq
  <2>1. s.seq \in Nat /\ Len(s.ring) \in Nat /\ Len(s.ring) < s.seq
    BY SinkFields
  <2> QED
    BY <2>1
<1>3. TxOK(m, 0, 0)
  BY <1>0, <1>2, BeginSpanTx
<1> HIDE DEF m, x
<1>4. /\ Evolves(s, m) /\ SinkOK(m) /\ x \in Nat /\ x < m.seq
      /\ ToSet(m.stack) = ToSet(s.stack) \cup ({x} \ {0})
      /\ x # 0 => x = s.seq
      /\ s.enabled => x # 0
      /\ \A e \in ToSet(m.ring) : e \in ToSet(s.ring) \/ e = new
  BY <1>1 DEF Opens, Evolves
<1>5. /\ Evolves(m, n) /\ n.seq = m.seq /\ n.stack = m.stack
      /\ \A e \in ToSet(n.ring) : \E o \in ToSet(m.ring) :
           SameEvent(o, e) /\ e.txid = IF o.seq = x THEN t ELSE o.txid
  <2>1. n = SetSpanTxid(m, x, t)
    BY DEF OpenTx, m, x
  <2> HIDE DEF n
  <2> QED
    BY <1>4, <2>1, SetSpanTxidOK
<1> HIDE DEF n
<1>6. Evolves(s, n)
  BY <1>4, <1>5, EvolvesTransitive
<1>7. \A e \in ToSet(s.ring) : e.seq < s.seq /\ e.seq # 0 /\ e.parent < s.seq /\ e.parent \in Nat /\ e.seq \in Nat
  <2>1. \A e \in ToSet(s.ring) : e.seq < s.seq /\ e.seq # 0 /\ e.parent < e.seq /\ e.parent \in Nat /\ e.seq \in Nat
    BY RingEvents
  <2> QED
    BY <1>2, <2>1
<1>8. new.seq = s.seq /\ new.type = "journal.begin" /\ new.parent < s.seq
  BY TopIsGreatest DEF NewEvent
<1> HIDE DEF new
<1>9. \A o \in ToSet(m.ring) : o.seq = x => o.type = "journal.begin"
  BY <1>2, <1>4, <1>7, <1>8
<1>10. \A o \in ToSet(m.ring) : o.parent # x \/ o.parent = 0
  BY <1>2, <1>4, <1>7, <1>8
<1>11. TxOK(n, x, t)
  <2>1. ASSUME NEW e \in ToSet(n.ring) PROVE OfTx(n, e)
    <3>1. PICK o \in ToSet(m.ring) : SameEvent(o, e) /\ e.txid = IF o.seq = x THEN t ELSE o.txid
      BY <1>5
    <3>2. CASE o.seq = x
      BY <1>9, <3>1, <3>2 DEF OfTx, SameEvent
    <3>3. CASE o.seq # x
      <4>1. OfTx(m, o) /\ e.txid = o.txid
        BY <1>3, <3>1, <3>3 DEF TxOK
      <4>2. ASSUME e.txid # 0, e.type # "journal.begin", ~OfBoot(e), NEW f \in ToSet(n.ring), f.seq = e.parent
            PROVE  f.type = "journal.begin" /\ f.txid = e.txid
        <5>1. PICK g \in ToSet(m.ring) : SameEvent(g, f) /\ f.txid = IF g.seq = x THEN t ELSE g.txid
          BY <1>5
        <5>2. o.parent # 0 /\ g.type = "journal.begin" /\ g.txid = o.txid
          BY <3>1, <4>1, <4>2, <5>1 DEF OfTx, OfBoot, SameEvent
        <5>3. g.seq # x
          BY <1>10, <3>1, <4>2, <5>1, <5>2 DEF SameEvent
        <5> QED
          BY <4>1, <5>1, <5>2, <5>3 DEF SameEvent
      <4> QED
        BY <3>1, <4>1, <4>2 DEF OfTx, OfBoot, SameEvent
    <3> QED
      BY <3>2, <3>3
  <2>2. SpanOfTx(n, x, t)
    BY <1>5, <1>9 DEF SpanOfTx, SameEvent
  <2> QED
    BY <2>1, <2>2 DEF TxOK
<1>12. s.enabled => Top(n) = x
  <2> SUFFICES ASSUME s.enabled PROVE Top(n) = x
    OBVIOUS
  <2>1. SinkOK(n) /\ x # 0 /\ x = s.seq
    BY <1>4, <1>6 DEF Evolves
  <2>2. \A y \in ToSet(s.stack) : y \in Nat /\ y < s.seq
    BY TopIsGreatest
  <2>3. x \in ToSet(n.stack) /\ ToSet(n.stack) = ToSet(s.stack) \cup {x}
    BY <1>4, <1>5, <2>1
  <2>4. n.stack # <<>>
    BY <2>3 DEF ToSet
  <2>5. Top(n) \in ToSet(n.stack) /\ x <= Top(n) /\ Top(n) \in Nat
    BY <2>1, <2>3, <2>4, TopIsGreatest
  <2> QED
    BY <1>2, <2>1, <2>2, <2>3, <2>5
<1> QED
  BY <1>4, <1>5, <1>6, <1>11, <1>12 DEF OpensTx, n, x

\* Several events in a row, whose first is a new one when no span is open.
EmitsAll(s, n, events) ==
    /\ Evolves(s, n) /\ n.stack = s.stack
    /\ s.enabled /\ s.stack = <<>> /\ Len(events) # 0 => n.seq > s.seq
    /\ \A x \in Nat : \A t :
         /\ x < s.seq /\ TxOK(s, x, t)
         /\ \A i \in 1..Len(events) : TxSafe(s, x, t, events[i][1], events[i][2])
         => TxOK(n, x, t)

\* EmitsAll before the last events are emitted.
EmitsSome(s, n, events, j) ==
    /\ Evolves(s, n) /\ n.stack = s.stack
    /\ s.enabled /\ s.stack = <<>> /\ j # 0 => n.seq > s.seq
    /\ \A x \in Nat : \A t :
         /\ x < s.seq /\ TxOK(s, x, t)
         /\ \A i \in 1..Len(events) : TxSafe(s, x, t, events[i][1], events[i][2])
         => TxOK(n, x, t)

LEMMA EmitsSomeMore ==
    ASSUME NEW s, SinkOK(s), NEW events \in Seq(Nat \X EventTypes), NEW i \in 1..Len(events),
           NEW n, EmitsSome(s, n, events, i - 1)
    PROVE  EmitsSome(s, Emit(n, events[i][1], events[i][2], "ok"), events, i)
<1> DEFINE e == events[i][1]
           type == events[i][2]
           m == Emit(n, e, type, "ok")
<1>1. e \in Nat /\ type \in EventTypes /\ "ok" \in Statuses
  BY ElementOfSeq DEF Statuses
<1>2. Evolves(s, n) /\ SinkOK(n) /\ n.stack = s.stack /\ n.enabled = s.enabled
  BY DEF EmitsSome, Evolves
<1>3. /\ Emits(n, m, type)
      /\ \A x \in Nat : \A t : x < n.seq /\ TxOK(n, x, t) /\ TxSafe(n, x, t, e, type) => TxOK(m, x, t)
  <2> HIDE DEF e, type
  <2> QED
    BY <1>1, <1>2, EmitOK
<1> HIDE DEF m
<1>4. Evolves(n, m) /\ m.stack = n.stack
  BY <1>3 DEF Emits
<1>5. Evolves(s, m)
  BY <1>2, <1>4, EvolvesTransitive
<1>6. s.seq \in Nat /\ n.seq \in Nat /\ m.seq \in Nat /\ SinkOK(m) /\ s.seq <= n.seq /\ n.seq <= m.seq
  BY <1>2, <1>4, SinkFields DEF Evolves
<1>7. s.enabled /\ s.stack = <<>> => m.seq > s.seq
  <2>1. s.enabled /\ s.stack = <<>> => m.seq = n.seq + 1
    BY <1>2, <1>3 DEF Emits
  <2> QED
    BY <1>6, <2>1
<1>8. ASSUME NEW x \in Nat, NEW t, x < s.seq, TxOK(s, x, t),
             \A j \in 1..Len(events) : TxSafe(s, x, t, events[j][1], events[j][2])
      PROVE  TxOK(m, x, t)
  <2>1. TxOK(n, x, t)
    BY <1>8 DEF EmitsSome
  <2>2. TxSafe(s, x, t, e, type)
    BY <1>8
  <2>3. TxSafe(n, x, t, e, type)
    BY <1>2, <2>2 DEF TxSafe, Top, EmitsSome, Evolves
  <2>4. x < n.seq
    BY <1>6, <1>8
  <2> QED
    BY <1>3, <2>1, <2>3, <2>4
<1>9. m.stack = s.stack
  BY <1>2, <1>4
<1> QED
  BY <1>5, <1>7, <1>8, <1>9 DEF EmitsSome, m

LEMMA EmitAllOK ==
    ASSUME NEW s, SinkOK(s), NEW events \in Seq(Nat \X EventTypes)
    PROVE  EmitsAll(s, EmitAll(s, events), events)
<1> DEFINE k == Len(events)
           Sinks == {n \in SinkRecord : SinkOK(n)}
           one(n, i) == Emit(n, events[i][1], events[i][2], "ok")
           step == [i \in 0..k |-> [n \in Sinks |-> IF i = 0 THEN n ELSE one(n, i)]]
           Equal(f) == f = [i \in 0..k |-> IF i = 0 THEN s ELSE one(f[i - 1], i)]
           chosen == CHOOSE f : Equal(f)
<1>1. k \in Nat /\ "ok" \in Statuses /\ \A i \in 1..k : events[i][1] \in Nat /\ events[i][2] \in EventTypes
  BY LenProperties, ElementOfSeq DEF Statuses
<1>2. s \in Sinks
  BY DEF SinkOK
<1>3. ASSUME NEW n \in Sinks, NEW i \in 1..k PROVE one(n, i) \in Sinks
  <2>1. Emits(n, one(n, i), events[i][2])
    BY <1>1, EmitOK
  <2> QED
    BY <2>1 DEF Emits, Evolves, SinkOK
<1>4. EmitAll(s, events) = chosen[k]
  BY Zenon DEF EmitAll
<1> HIDE DEF k, Sinks, one
<1>5. step \in [0..k -> [Sinks -> Sinks]]
  BY <1>1, <1>3
<1>6. PICK f \in [0..k -> Sinks] : Iterates(f, k, s, step)
  <2> HIDE DEF step
  <2> QED
    BY <1>1, <1>2, <1>5, UpToRecursion
<1>7. \A i \in 0..k : f[i] = IF i = 0 THEN s ELSE one(f[i - 1], i)
  <2> SUFFICES ASSUME NEW i \in 1..k PROVE f[i] = one(f[i - 1], i)
    BY <1>1, <1>6 DEF Iterates
  <2>1. f[i] = step[i][f[i - 1]] /\ i \in 0..k /\ i - 1 \in 0..k /\ i # 0
    <3> HIDE DEF step
    <3> QED
      BY <1>1, <1>6 DEF Iterates
  <2> QED
    BY <1>6, <2>1
<1>8. Equal(f)
  BY <1>7
<1>9. Equal(chosen)
  <2> HIDE DEF Equal
  <2> QED
    BY <1>8
<1> DEFINE T == {i \in 0..k : EmitsSome(s, chosen[i], events, i)}
<1> HIDE DEF chosen
<1>10. 0 \in T
  <2>1. chosen[0] = s /\ 0 \in 0..k
    BY <1>1, <1>9
  <2>2. EmitsSome(s, s, events, 0)
    BY EvolvesReflexive DEF EmitsSome
  <2> QED
    BY <2>1, <2>2
<1>11. ASSUME NEW i \in 1..k PROVE chosen[i] = one(chosen[i - 1], i)
  <2>1. i \in 0..k /\ i # 0
    BY <1>1
  <2> QED
    BY <2>1, <1>9
<1>12. ASSUME NEW i \in 0..k, i < k, i \in T PROVE i + 1 \in T
  <2>1. i + 1 \in 1..k /\ i + 1 \in 0..k /\ (i + 1) - 1 = i
    BY <1>1, <1>12
  <2>2. chosen[i + 1] = one(chosen[i], i + 1)
    BY <1>11, <2>1
  <2>3. EmitsSome(s, chosen[i], events, (i + 1) - 1)
    BY <1>12, <2>1
  <2>4. EmitsSome(s, one(chosen[i], i + 1), events, i + 1)
    BY <2>1, <2>3, EmitsSomeMore DEF k, one
  <2> QED
    BY <2>1, <2>2, <2>4
<1> HIDE DEF T
<1>13. k \in T
  <2>1. 0..k \subseteq T
    BY <1>1, <1>10, <1>12, UpToInduction
  <2> QED
    BY <1>1, <2>1
<1>14. EmitsSome(s, chosen[k], events, k)
  BY <1>13 DEF T
<1> QED
  BY <1>4, <1>14 DEF EmitsSome, EmitsAll, k

\* The spans of a lookup leave the stack one after the other.
LEMMA FinishAllOK ==
    ASSUME NEW s, SinkOK(s), NEW spans \in Seq(Nat)
    PROVE  Closes(s, FinishAll(s, spans), ToSet(spans))
<1> DEFINE k == Len(spans)
           Sinks == {n \in SinkRecord : SinkOK(n)}
           one(n, i) == FinishSpan(n, spans[i], Same)
           step == [i \in 0..k |-> [n \in Sinks |-> IF i = 0 THEN n ELSE one(n, i)]]
           Equal(f) == f = [i \in 0..k |-> IF i = 0 THEN s ELSE one(f[i - 1], i)]
           chosen == CHOOSE f : Equal(f)
           Closed(i) == {spans[j] : j \in 1..i}
<1>1. k \in Nat /\ \A i \in 1..k : spans[i] \in Nat
  BY LenProperties, ElementOfSeq
<1>2. s \in Sinks
  BY DEF SinkOK
<1>3. ASSUME NEW n \in Sinks, NEW i \in 1..k PROVE Closes(n, one(n, i), {spans[i]}) /\ one(n, i) \in Sinks
  <2>1. Closes(n, one(n, i), {spans[i]})
    BY <1>1, FinishSpanOK
  <2> QED
    BY <2>1 DEF Closes, Evolves, SinkOK
<1>4. FinishAll(s, spans) = chosen[k]
  BY Zenon DEF FinishAll
<1>15. ToSet(spans) = Closed(k)
  <2>1. DOMAIN spans = 1..k
    BY LenProperties
  <2> QED
    BY <2>1 DEF ToSet
<1> HIDE DEF k, Sinks, one
<1>16. \A i \in 0..k, n \in Sinks : i = 0 \/ one(n, i) \in Sinks
  <2>1. \A i \in 0..k : i = 0 \/ i \in 1..k
    BY <1>1
  <2> QED
    BY <1>3, <2>1
<1>5. step \in [0..k -> [Sinks -> Sinks]]
  BY <1>16
<1>6. PICK f \in [0..k -> Sinks] : Iterates(f, k, s, step)
  <2> HIDE DEF step
  <2> QED
    BY <1>1, <1>2, <1>5, UpToRecursion
<1>7. \A i \in 0..k : f[i] = IF i = 0 THEN s ELSE one(f[i - 1], i)
  <2> SUFFICES ASSUME NEW i \in 1..k PROVE f[i] = one(f[i - 1], i)
    BY <1>1, <1>6 DEF Iterates
  <2>1. f[i] = step[i][f[i - 1]] /\ i \in 0..k /\ i - 1 \in 0..k /\ i # 0
    <3> HIDE DEF step
    <3> QED
      BY <1>1, <1>6 DEF Iterates
  <2> QED
    BY <1>6, <2>1
<1>8. Equal(f)
  BY <1>7
<1>9. Equal(chosen)
  <2> HIDE DEF Equal
  <2> QED
    BY <1>8
<1> DEFINE T == {i \in 0..k : chosen[i] \in Sinks /\ Closes(s, chosen[i], Closed(i))}
<1> HIDE DEF chosen
<1>10. 0 \in T
  <2>1. chosen[0] = s /\ 0 \in 0..k
    BY <1>1, <1>9
  <2>2. Closed(0) = {}
    OBVIOUS
  <2>3. Closes(s, s, {})
    <3>1. s.seq \in Nat
      BY SinkFields
    <3> QED
      BY <3>1, EvolvesReflexive DEF Closes
  <2> HIDE DEF Closed
  <2> QED
    BY <1>2, <2>1, <2>2, <2>3
<1>11. ASSUME NEW i \in 1..k PROVE chosen[i] = one(chosen[i - 1], i)
  <2>1. i \in 0..k /\ i # 0
    BY <1>1
  <2> QED
    BY <2>1, <1>9
<1>12. ASSUME NEW i \in 0..k, i < k, i \in T PROVE i + 1 \in T
  <2>1. i + 1 \in 1..k /\ i + 1 \in 0..k /\ (i + 1) - 1 = i
    BY <1>1, <1>12
  <2>2. chosen[i + 1] = one(chosen[i], i + 1)
    BY <1>11, <2>1
  <2>3. chosen[i] \in Sinks /\ Closes(s, chosen[i], Closed(i))
    BY <1>12
  <2>4. Closes(chosen[i], chosen[i + 1], {spans[i + 1]}) /\ chosen[i + 1] \in Sinks
    BY <1>3, <2>1, <2>2, <2>3
  <2>5. Closed(i + 1) = Closed(i) \cup {spans[i + 1]}
    <3>1. \A j \in 1..i + 1 : j \in 1..i \/ j = i + 1
      BY <1>1
    <3>2. i + 1 \in 1..i + 1 /\ \A j \in 1..i : j \in 1..i + 1
      BY <1>1
    <3> QED
      BY <3>1, <3>2
  <2> HIDE DEF Closed
  <2>6. Evolves(s, chosen[i + 1])
    BY <2>3, <2>4, EvolvesTransitive DEF Closes
  <2>7. Closes(s, chosen[i + 1], Closed(i + 1))
    BY <2>3, <2>4, <2>5, <2>6 DEF Closes
  <2> QED
    BY <2>1, <2>4, <2>7
<1> HIDE DEF T
<1>13. k \in T
  <2>1. 0..k \subseteq T
    BY <1>1, <1>10, <1>12, UpToInduction
  <2> QED
    BY <1>1, <2>1
<1>14. Closes(s, chosen[k], Closed(k))
  BY <1>13 DEF T
<1> HIDE DEF Closed
<1> QED
  BY <1>4, <1>14, <1>15

\* Another context, or tracing switched: nothing else changes.
Retuned(s, n) == SinkOK(n) /\ n.ring = s.ring /\ n.stack = s.stack /\ n.seq = s.seq

InContext(s, n, c) == Retuned(s, n) /\ n.command = c /\ n.enabled = s.enabled

LEMMA InContextOK ==
    ASSUME NEW s, SinkOK(s), NEW c \in Contexts
    PROVE  InContext(s, [s EXCEPT !.command = c], c)
<1>1. s \in SinkRecord
  BY DEF SinkOK
<1> DEFINE n == [s EXCEPT !.command = c]
<1>2. n \in SinkRecord /\ n.ring = s.ring /\ n.stack = s.stack /\ n.seq = s.seq /\ n.command = c /\ n.enabled = s.enabled
  BY <1>1 DEF SinkRecord
<1> HIDE DEF n
<1>3. SinkOK(n)
  BY <1>2 DEF SinkOK, Numbered, Stacked
<1> QED
  BY <1>2, <1>3 DEF InContext, Retuned, n

LEMMA SwitchedOK ==
    ASSUME NEW s, SinkOK(s), NEW b \in BOOLEAN
    PROVE  Retuned(s, [s EXCEPT !.enabled = b])
<1>1. s \in SinkRecord
  BY DEF SinkOK
<1> DEFINE n == [s EXCEPT !.enabled = b]
<1>2. n \in SinkRecord /\ n.ring = s.ring /\ n.stack = s.stack /\ n.seq = s.seq
  BY <1>1 DEF SinkRecord
<1> HIDE DEF n
<1>3. SinkOK(n)
  BY <1>2 DEF SinkOK, Numbered, Stacked
<1> QED
  BY <1>2, <1>3 DEF Retuned, n

\* What the transactions of a ring are does not depend on the rest of the sink.
LEMMA SameRingTx ==
    ASSUME NEW s, NEW n, n.ring = s.ring, NEW x, NEW t, TxOK(s, x, t)
    PROVE  TxOK(n, x, t)
BY DEF TxOK, OfTx, SpanOfTx

\* With its span closed a transaction is none to look for.
LEMMA NoOpenTx ==
    ASSUME NEW s, NEW x, NEW t, TxOK(s, x, t), NEW u
    PROVE  TxOK(s, 0, u)
BY DEF TxOK, SpanOfTx

-----------------------------------------------------------------------------
\* The inductive invariant of the commands.

Frames == [command : Commands \cup {NoCommand}, root : Nat, tx : Nat, txid : Nat,
           paths : Seq(Nat), auth : Nat, done : BOOLEAN, work : Nat]

\* A command holds a permission check only outside lookups and transactions, a
\* transaction's span opened after the root span, and nothing but the root span
\* once its result is known.
FrameOK ==
    /\ frame \in Frames /\ pc \in {"idle", "run", "leave", "thrown"} /\ nextTxid \in 1 .. MaxTx + 1
    /\ pc = "idle" => frame = NoFrame
    /\ pc # "run" => frame.tx = 0 /\ frame.txid = 0 /\ frame.auth = 0 /\ frame.paths = <<>>
    /\ frame.auth # 0 => frame.paths = <<>> /\ frame.txid = 0
    /\ frame.tx # 0 => frame.txid # 0 /\ frame.tx \notin ToSet(frame.paths)
                        /\ (frame.root # 0 => frame.root < frame.tx)
    /\ frame.txid # 0 => frame.command \in Mutating /\ (sink.enabled => frame.tx # 0)
    /\ frame.root # 0 => frame.root \notin ToSet(frame.paths) /\ frame.root # frame.auth

\* Of the events since cmdTrace() began all are of the inner command, except one
\* that a login made last.
InnerEvent(e) ==
    \/ e.command = <<"run", wrapper.command>>
    \/ /\ e.command = <<"login", NoCommand>> /\ pc = "leave"
       /\ wrapper.first < e.seq /\ e.seq = sink.seq - 1

WrapperOK ==
    /\ wrapper \in [command : Commands \cup {NoCommand}, first : Nat]
    /\ pc \in {"run", "thrown"} => sink.command = <<"run", frame.command>>
    /\ pc = "leave" => sink.command \in {<<"run", frame.command>>, <<"login", NoCommand>>}
    /\ wrapper.command # NoCommand =>
         /\ pc # "idle" /\ frame.command = wrapper.command
         /\ wrapper.first <= sink.seq /\ (sink.enabled => wrapper.first < sink.seq)
         /\ Len(sink.ring) = RingSize \/ Len(sink.ring) >= sink.seq - wrapper.first
         /\ \A e \in ToSet(sink.ring) : e.seq >= wrapper.first => InnerEvent(e)

TraceInv ==
    /\ SinkOK(sink) /\ FrameOK /\ WrapperOK
    /\ ToSet(sink.stack) = HeldSpans
    /\ TxOK(sink, frame.tx, frame.txid)

LEMMA HeldNumbers ==
    ASSUME TraceInv
    PROVE  \A x \in {frame.root, frame.tx, frame.auth} \cup ToSet(frame.paths) : x \in Nat /\ x < sink.seq
<1> SUFFICES ASSUME NEW x \in {frame.root, frame.tx, frame.auth} \cup ToSet(frame.paths)
             PROVE  x \in Nat /\ x < sink.seq
  OBVIOUS
<1>1. sink.seq \in Nat /\ Len(sink.ring) \in Nat /\ Len(sink.ring) < sink.seq
  BY SinkFields DEF TraceInv
<1>2. CASE x = 0
  BY <1>1, <1>2
<1>3. CASE x # 0
  <2>1. x \in ToSet(sink.stack)
    BY <1>3 DEF TraceInv, HeldSpans
  <2> QED
    BY <2>1, TopIsGreatest DEF TraceInv
<1> QED
  BY <1>2, <1>3

\* Inside its transaction the command's innermost open span is the transaction's.
LEMMA TopIsTx ==
    ASSUME TraceInv, Working, frame.tx # 0
    PROVE  Top(sink) = frame.tx
<1>1. ToSet(sink.stack) = {frame.root, frame.tx} \ {0}
  <2>1. ToSet(frame.paths) = {} /\ frame.auth = 0
    BY DEF Working, ToSet
  <2> QED
    BY <2>1 DEF TraceInv, HeldSpans
<1>2. sink.stack # <<>>
  BY <1>1 DEF ToSet
<1>3. Top(sink) \in ToSet(sink.stack) /\ frame.tx <= Top(sink) /\ Top(sink) \in Nat
  BY <1>1, <1>2, TopIsGreatest DEF TraceInv
<1>4. frame.tx \in Nat /\ frame.root \in Nat /\ (frame.root # 0 => frame.root < frame.tx)
  BY DEF TraceInv, FrameOK, Frames
<1> QED
  BY <1>1, <1>3, <1>4

\* What the running command may emit.
LEMMA MayEmit ==
    ASSUME TraceInv, Working, NEW type \in EventTypes, type \notin TraceTypes
    PROVE  /\ TxSafe(sink, frame.tx, frame.txid, frame.txid, type) \/ (frame.txid = 0 /\ type = "journal.begin")
           /\ type # "journal.begin" => TxSafe(sink, frame.tx, frame.txid, 0, type)
BY TopIsTx DEF TxSafe, TraceInv, FrameOK

\* While the command runs its events are of its context.
LEMMA WrapperKept ==
    ASSUME TraceInv, pc = "run", Evolves(sink, sink'), wrapper' = wrapper,
           frame'.command = frame.command, pc' \in {"run", "leave", "thrown"}
    PROVE  WrapperOK'
<1>1. /\ wrapper \in [command : Commands \cup {NoCommand}, first : Nat]
      /\ sink.command = <<"run", frame.command>> /\ sink'.command = sink.command
      /\ sink'.enabled = sink.enabled
  BY DEF TraceInv, WrapperOK, Evolves
<1>2. CASE wrapper.command = NoCommand
  BY <1>1, <1>2 DEF WrapperOK
<1>3. CASE wrapper.command # NoCommand
  <2>1. /\ frame.command = wrapper.command
        /\ wrapper.first <= sink.seq /\ (sink.enabled => wrapper.first < sink.seq)
        /\ Len(sink.ring) = RingSize \/ Len(sink.ring) >= sink.seq - wrapper.first
        /\ \A e \in ToSet(sink.ring) : e.seq >= wrapper.first => e.command = <<"run", wrapper.command>>
    BY <1>3 DEF TraceInv, WrapperOK, InnerEvent
  <2>2. SinkOK(sink) /\ SinkOK(sink')
    BY DEF TraceInv, Evolves
  <2>3. PICK f \in Nat, a \in Nat, b \in Nat, k \in Nat, l \in Nat :
             f = wrapper.first /\ a = sink.seq /\ b = sink'.seq /\ k = Len(sink.ring) /\ l = Len(sink'.ring)
    BY <1>1, <2>2, SinkFields
  <2>4. b >= a /\ (l = RingSize \/ l >= k + (b - a)) /\ l <= RingSize /\ RingSize \in Nat
    BY <2>2, <2>3, SinkFields, RingAssumption DEF Evolves
  <2>5. f <= a /\ (k = RingSize \/ k >= a - f)
    BY <2>1, <2>3
  <2>6. f <= b /\ (f < a => f < b) /\ (l = RingSize \/ l >= b - f)
    BY ONLY <2>4, <2>5, f \in Nat, a \in Nat, b \in Nat, k \in Nat, l \in Nat
  <2>7. \A e \in ToSet(sink'.ring) : e.seq >= wrapper.first => e.command = <<"run", wrapper.command>>
    BY <1>1, <2>1 DEF Evolves, SameEvent
  <2>8. \A e \in ToSet(sink'.ring) : e.seq >= wrapper'.first => InnerEvent(e)'
    BY <2>7 DEF InnerEvent
  <2> QED
    BY <1>1, <2>1, <2>3, <2>6, <2>8 DEF WrapperOK
<1> QED
  BY <1>2, <1>3

LEMMA ToSetAppend ==
    ASSUME NEW S, NEW s \in Seq(S), NEW x \in S
    PROVE  Append(s, x) \in Seq(S) /\ ToSet(Append(s, x)) = ToSet(s) \cup {x}
<1> DEFINE k == Len(s)
           longer == Append(s, x)
<1>1. k \in Nat /\ DOMAIN s = 1..k
  BY LenProperties
<1>2. longer \in Seq(S) /\ Len(longer) = k + 1 /\ (\A i \in 1..k : longer[i] = s[i]) /\ longer[k + 1] = x
  BY AppendProperties
<1> HIDE DEF longer, k
<1>3. DOMAIN longer = 1..k + 1
  BY <1>2, LenProperties
<1>4. (\A i \in 1..k + 1 : i \in 1..k \/ i = k + 1) /\ (\A i \in 1..k : i \in 1..k + 1) /\ k + 1 \in 1..k + 1
  BY <1>1
<1> QED
  BY <1>1, <1>2, <1>3, <1>4 DEF ToSet, longer

\* Boot begins with an empty sink and no span, so that only recovery's events
\* have a txid.
LEMMA InitInv == TraceInit => TraceInv
<1> SUFFICES ASSUME TraceInit PROVE TraceInv
  OBVIOUS
<1>1. /\ pc = "idle" /\ frame = NoFrame /\ nextTxid \in 1 .. MaxTx
      /\ wrapper = [command |-> NoCommand, first |-> 0]
  BY DEF TraceInit
<1>2. PICK recovered \in RecoveryEvents :
        sink = EmitAll(NewSink, Append(recovered, <<0, "mount.open">>))
  BY DEF TraceInit
<1> DEFINE events == Append(recovered, <<0, "mount.open">>)
<1>3. PICK n \in 0 .. MaxTx : recovered \in [1 .. n -> (1 .. MaxTx) \X RecoveryTypes]
  BY DEF RecoveryEvents
<1>4. recovered \in Seq(Nat \X EventTypes) /\ Len(recovered) = n /\ n \in Nat
  <2>1. n \in Nat /\ MaxTx \in Nat
    BY BoundsAssumption
  <2>2. \A i \in 1 .. n : recovered[i] \in Nat \X EventTypes
    <3>1. (1 .. MaxTx) \X RecoveryTypes \subseteq Nat \X EventTypes
      BY <2>1 DEF EventTypes
    <3> QED
      BY <1>3, <3>1
  <2>3. recovered \in [1 .. n -> Nat \X EventTypes]
    BY <1>3, <2>2
  <2> QED
    BY <2>1, <2>3
<1>5. /\ events \in Seq(Nat \X EventTypes) /\ Len(events) = n + 1
      /\ \A i \in 1 .. n : events[i] = recovered[i]
      /\ events[n + 1] = <<0, "mount.open">>
  <2>1. <<0, "mount.open">> \in Nat \X EventTypes
    BY DEF EventTypes
  <2> QED
    BY <1>4, <2>1, AppendProperties
<1> HIDE DEF events
<1>6. Len(<<>>) = 0 /\ DOMAIN <<>> = {} /\ <<>> \in Seq(Events) /\ <<>> \in Seq(Nat)
  OBVIOUS
<1>7. NewSink \in SinkRecord
  BY <1>6 DEF SinkRecord, Contexts, NewSink
<1>8. SinkOK(NewSink)
  BY <1>6, <1>7, RingAssumption DEF SinkOK, Numbered, Stacked, Increasing, NewSink
<1>9. EmitsAll(NewSink, sink, events)
  BY <1>2, <1>5, <1>8, EmitAllOK DEF events
<1>10. ASSUME NEW i \in 1 .. Len(events) PROVE TxSafe(NewSink, 0, 0, events[i][1], events[i][2])
  <2>1. CASE i \in 1 .. n
    <3>1. events[i][1] \in 1 .. MaxTx /\ events[i][2] \in RecoveryTypes
      BY <1>3, <1>5, <2>1
    <3>2. events[i][1] # 0
      BY <3>1, BoundsAssumption
    <3> QED
      BY <3>1, <3>2 DEF TxSafe, NewSink
  <2>2. CASE i = n + 1
    BY <1>5, <2>2 DEF TxSafe
  <2> QED
    BY <1>4, <1>5, <2>1, <2>2
<1>11. TxOK(NewSink, 0, 0)
  BY <1>6 DEF TxOK, SpanOfTx, NewSink, ToSet
<1>12. NewSink.seq = 1 /\ NewSink.stack = <<>> /\ NewSink.command = <<"run", NoCommand>>
  BY DEF NewSink
<1>13. /\ frame.tx = 0 /\ frame.txid = 0 /\ frame.auth = 0 /\ frame.paths = <<>> /\ frame.root = 0
  BY <1>1 DEF NoFrame
<1>14. SinkOK(sink) /\ sink.stack = <<>> /\ TxOK(sink, 0, 0)
  BY <1>9, <1>10, <1>11, <1>12 DEF EmitsAll, Evolves
<1>15. frame \in Frames /\ nextTxid \in 1..MaxTx + 1
  BY <1>1, BoundsAssumption DEF Frames, NoFrame
<1>16. FrameOK
  BY <1>1, <1>13, <1>15 DEF FrameOK
<1>17. WrapperOK
  BY <1>1 DEF WrapperOK
<1>18. ToSet(sink.stack) = HeldSpans
  BY <1>13, <1>14 DEF HeldSpans, ToSet
<1> QED
  BY <1>13, <1>14, <1>16, <1>17, <1>18 DEF TraceInv

LEMMA LookupInv == TraceInv /\ Lookup => TraceInv'
<1> SUFFICES ASSUME TraceInv, Lookup PROVE TraceInv'
  OBVIOUS
<1> DEFINE x == SpanOf(sink, "path.lookup")
           open == BeginSpan(sink, 0, "path.lookup")
<1>1. /\ sink' = UpdateSpan(open, x, "ok") /\ frame' = [Worked EXCEPT !.paths = Append(@, x)]
      /\ pc = "run" /\ frame.auth = 0 /\ UNCHANGED <<pc, nextTxid, wrapper>>
  BY DEF Lookup
<1>2. "path.lookup" \in EventTypes /\ "ok" \in Statuses \cup {Same} /\ SinkOK(sink)
  BY DEF EventTypes, Statuses, TraceInv
<1>3. /\ frame.tx \in Nat /\ frame.tx < sink.seq /\ frame.root < sink.seq /\ frame.root \in Nat
      /\ sink.seq \in Nat
  BY <1>2, HeldNumbers, SinkFields
<1>4. /\ Evolves(sink, open) /\ x \in Nat /\ (x # 0 => x = sink.seq)
      /\ ToSet(open.stack) = ToSet(sink.stack) \cup ({x} \ {0})
  BY <1>2, BeginSpanOK DEF Opens
<1>5. TxOK(open, frame.tx, frame.txid)
  BY <1>2, <1>3, BeginSpanTx DEF TraceInv
<1> HIDE DEF x, open
<1>6. Updates(open, sink')
  BY <1>1, <1>2, <1>4, UpdateSpanOK DEF Evolves
<1>7. Evolves(sink, sink')
  BY <1>2, <1>4, <1>6, EvolvesTransitive DEF Updates
<1>8. frame \in Frames /\ frame.paths \in Seq(Nat)
  BY DEF TraceInv, FrameOK, Frames
<1> DEFINE longer == Append(frame.paths, x)
<1>9. longer \in Seq(Nat) /\ ToSet(longer) = ToSet(frame.paths) \cup {x}
  BY <1>4, <1>8, ToSetAppend
<1>10. frame' = [frame EXCEPT !.work = @ + 1, !.paths = longer]
  BY <1>1, <1>8 DEF Worked, Frames
<1> HIDE DEF longer
<1>11. /\ frame' \in Frames /\ frame'.paths = longer /\ frame'.root = frame.root /\ frame'.tx = frame.tx
       /\ frame'.txid = frame.txid /\ frame'.auth = frame.auth /\ frame'.command = frame.command
  <2>1. frame.work + 1 \in Nat
    BY <1>8 DEF Frames
  <2>2. frame' = [frame EXCEPT !.work = frame.work + 1, !.paths = longer]
    BY <1>8, <1>10 DEF Frames
  <2> QED
    BY <1>8, <1>9, <2>1, <2>2 DEF Frames
<1>12. WrapperOK'
  BY <1>1, <1>7, <1>11, WrapperKept
<1>13. FrameOK'
  <2>1. FrameOK /\ sink'.enabled = sink.enabled /\ pc' = pc /\ nextTxid' = nextTxid
    BY <1>1, <1>7 DEF TraceInv, Evolves
  <2>2. frame.tx # 0 => x # frame.tx
    BY <1>3, <1>4
  <2>3. frame.root # 0 => x # frame.root
    BY <1>3, <1>4
  <2> QED
    BY <1>1, <1>9, <1>11, <2>1, <2>2, <2>3 DEF FrameOK
<1>14. ToSet(sink'.stack) = HeldSpans'
  BY <1>4, <1>6, <1>9, <1>11 DEF Updates, HeldSpans, TraceInv
<1>15. TxOK(sink', frame'.tx, frame'.txid)
  BY <1>5, <1>6, <1>11 DEF Updates
<1> QED
  BY <1>7, <1>12, <1>13, <1>14, <1>15 DEF TraceInv, Evolves

LEMMA LookupDoneInv == TraceInv /\ LookupDone => TraceInv'
<1> SUFFICES ASSUME TraceInv, LookupDone PROVE TraceInv'
  OBVIOUS
<1>1. /\ sink' = FinishAll(sink, frame.paths) /\ frame' = [frame EXCEPT !.paths = <<>>]
      /\ frame.paths # <<>> /\ UNCHANGED <<pc, nextTxid, wrapper>>
  BY DEF LookupDone
<1>2. FrameOK /\ frame \in Frames /\ frame.paths \in Seq(Nat) /\ SinkOK(sink)
  BY DEF TraceInv, FrameOK, Frames
<1>3. pc = "run" /\ frame.auth = 0
  BY <1>1, <1>2 DEF FrameOK
<1>4. Closes(sink, sink', ToSet(frame.paths))
  BY <1>1, <1>2, FinishAllOK
<1>5. Evolves(sink, sink') /\ SinkOK(sink') /\ sink'.enabled = sink.enabled
      /\ ToSet(sink'.stack) = ToSet(sink.stack) \ ToSet(frame.paths)
  BY <1>4 DEF Closes, Evolves
<1>6. /\ frame' \in Frames /\ frame'.paths = <<>> /\ frame'.root = frame.root /\ frame'.tx = frame.tx
      /\ frame'.txid = frame.txid /\ frame'.auth = frame.auth /\ frame'.command = frame.command
  <2>1. <<>> \in Seq(Nat)
    OBVIOUS
  <2> QED
    BY <1>1, <1>2, <2>1 DEF Frames
<1>7. ToSet(frame'.paths) = {}
  BY <1>6 DEF ToSet
<1>8. WrapperOK'
  BY <1>1, <1>3, <1>5, <1>6, WrapperKept
<1>9. FrameOK'
  BY <1>1, <1>2, <1>3, <1>5, <1>6, <1>7 DEF FrameOK
<1>10. ToSet(sink'.stack) = HeldSpans'
  BY <1>2, <1>3, <1>5, <1>6, <1>7 DEF HeldSpans, TraceInv, FrameOK
<1>11. TxOK(sink', frame'.tx, frame'.txid)
  BY <1>4, <1>6 DEF Closes, TraceInv
<1> QED
  BY <1>5, <1>8, <1>9, <1>10, <1>11 DEF TraceInv

LEMMA AuthInv == TraceInv /\ Auth => TraceInv'
<1> SUFFICES ASSUME TraceInv, Auth PROVE TraceInv'
  OBVIOUS
<1> DEFINE x == SpanOf(sink, "auth.check")
<1>1. /\ sink' = BeginSpan(sink, 0, "auth.check") /\ frame' = [Worked EXCEPT !.auth = x]
      /\ pc = "run" /\ frame.auth = 0 /\ frame.paths = <<>> /\ frame.txid = 0
      /\ UNCHANGED <<pc, nextTxid, wrapper>>
  BY DEF Auth
<1>2. "auth.check" \in EventTypes /\ SinkOK(sink) /\ FrameOK /\ frame \in Frames
  BY DEF EventTypes, TraceInv, FrameOK
<1>3. /\ frame.tx \in Nat /\ frame.tx < sink.seq /\ frame.root < sink.seq /\ frame.root \in Nat
      /\ sink.seq \in Nat
  BY <1>2, HeldNumbers, SinkFields
<1>4. /\ Evolves(sink, sink') /\ x \in Nat /\ (x # 0 => x = sink.seq)
      /\ ToSet(sink'.stack) = ToSet(sink.stack) \cup ({x} \ {0})
  BY <1>1, <1>2, BeginSpanOK DEF Opens
<1>5. TxOK(sink', frame.tx, frame.txid)
  BY <1>1, <1>2, <1>3, BeginSpanTx DEF TraceInv
<1> HIDE DEF x
<1>6. frame.work + 1 \in Nat
  BY <1>2 DEF Frames
<1>7. frame' = [frame EXCEPT !.work = frame.work + 1, !.auth = x]
  BY <1>1, <1>2 DEF Frames, Worked
<1>8. /\ frame' \in Frames /\ frame'.paths = frame.paths /\ frame'.root = frame.root /\ frame'.tx = frame.tx
      /\ frame'.txid = frame.txid /\ frame'.auth = x /\ frame'.command = frame.command
  BY <1>2, <1>4, <1>6, <1>7 DEF Frames
<1>9. WrapperOK'
  BY <1>1, <1>4, <1>8, WrapperKept
<1>10. FrameOK'
  <2>1. sink'.enabled = sink.enabled
    BY <1>4 DEF Evolves
  <2>2. frame.root # 0 => x # frame.root
    BY <1>3, <1>4
  <2> QED
    BY <1>1, <1>2, <1>8, <2>1, <2>2 DEF FrameOK
<1>11. ToSet(sink'.stack) = HeldSpans'
  BY <1>1, <1>4, <1>8 DEF HeldSpans, TraceInv
<1> QED
  BY <1>4, <1>5, <1>8, <1>9, <1>10, <1>11 DEF TraceInv, Evolves

LEMMA AuthDoneInv == TraceInv /\ AuthDone => TraceInv'
<1> SUFFICES ASSUME TraceInv, AuthDone PROVE TraceInv'
  OBVIOUS
<1>1. /\ sink' = FinishSpan(sink, frame.auth, "ok") /\ frame' = [frame EXCEPT !.auth = 0]
      /\ frame.auth # 0 /\ UNCHANGED <<pc, nextTxid, wrapper>>
  BY DEF AuthDone
<1>2. FrameOK /\ frame \in Frames /\ frame.auth \in Nat /\ SinkOK(sink) /\ "ok" \in Statuses \cup {Same}
  BY DEF TraceInv, FrameOK, Frames, Statuses
<1>3. pc = "run" /\ frame.paths = <<>> /\ frame.tx = 0
  BY <1>1, <1>2 DEF FrameOK
<1>4. Closes(sink, sink', {frame.auth})
  BY <1>1, <1>2, FinishSpanOK
<1>5. Evolves(sink, sink') /\ SinkOK(sink') /\ sink'.enabled = sink.enabled
      /\ ToSet(sink'.stack) = ToSet(sink.stack) \ {frame.auth}
  BY <1>4 DEF Closes, Evolves
<1>6. /\ frame' \in Frames /\ frame'.paths = frame.paths /\ frame'.root = frame.root /\ frame'.tx = frame.tx
      /\ frame'.txid = frame.txid /\ frame'.auth = 0 /\ frame'.command = frame.command
  BY <1>1, <1>2 DEF Frames
<1>7. WrapperOK'
  BY <1>1, <1>3, <1>5, <1>6, WrapperKept
<1>8. FrameOK'
  BY <1>1, <1>2, <1>3, <1>5, <1>6 DEF FrameOK
<1>9. ToSet(sink'.stack) = HeldSpans'
  <2>1. ToSet(frame.paths) = {}
    BY <1>3 DEF ToSet
  <2> QED
    BY <1>2, <1>3, <1>5, <1>6, <2>1 DEF HeldSpans, TraceInv, FrameOK
<1>10. TxOK(sink', frame'.tx, frame'.txid)
  BY <1>4, <1>6 DEF Closes, TraceInv
<1> QED
  BY <1>5, <1>7, <1>8, <1>9, <1>10 DEF TraceInv

LEMMA BeginTxInv == TraceInv /\ BeginTx => TraceInv'
<1> SUFFICES ASSUME TraceInv, BeginTx PROVE TraceInv'
  OBVIOUS
<1> DEFINE x == SpanOf(sink, "journal.begin")
           open == OpenTx(sink, nextTxid)
           events == <<<<0, "super.mount_state">>, <<0, "block.write">>,
                       <<nextTxid, "journal.begin">>, <<nextTxid, "journal.record">>>>
<1>1. /\ sink' = EmitAll(open, events) /\ frame' = [frame EXCEPT !.tx = x, !.txid = nextTxid]
      /\ pc = "run" /\ frame.auth = 0 /\ frame.paths = <<>> /\ frame.txid = 0
      /\ frame.command \in Mutating /\ nextTxid <= MaxTx /\ nextTxid' = nextTxid + 1
      /\ UNCHANGED <<pc, wrapper>>
  BY DEF BeginTx, Working, OpenTx
<1>2. SinkOK(sink) /\ FrameOK /\ frame \in Frames /\ nextTxid \in 1..MaxTx + 1 /\ MaxTx \in Nat
  BY BoundsAssumption DEF TraceInv, FrameOK
<1>3. nextTxid \in Nat /\ nextTxid # 0 /\ nextTxid + 1 \in 1..MaxTx + 1
  BY <1>1, <1>2
<1>4. frame.tx = 0 /\ frame.root \in Nat /\ frame.root < sink.seq
  BY <1>1, <1>2, HeldNumbers DEF FrameOK
<1>5. TxOK(sink, 0, 0)
  BY NoOpenTx DEF TraceInv
<1>6. OpensTx(sink, open, x, nextTxid)
  BY <1>2, <1>3, <1>5, OpenTxOK
<1> HIDE DEF x, open
<1>7. /\ Evolves(sink, open) /\ SinkOK(open) /\ open.enabled = sink.enabled
      /\ x \in Nat /\ x < open.seq /\ (x # 0 => x = sink.seq)
      /\ ToSet(open.stack) = ToSet(sink.stack) \cup ({x} \ {0})
      /\ (sink.enabled => x # 0 /\ Top(open) = x) /\ TxOK(open, x, nextTxid)
  BY <1>6 DEF OpensTx, Evolves
<1>8. events \in Seq(Nat \X EventTypes) /\ Len(events) = 4
  BY <1>3 DEF EventTypes
<1>9. \A i \in 1..Len(events) : TxSafe(open, x, nextTxid, events[i][1], events[i][2])
  <2>1. \A i \in 1..4 : \/ (events[i][1] = 0 /\ events[i][2] # "journal.begin")
                         \/ (events[i][1] = nextTxid /\ events[i][2] \notin TraceTypes)
    BY DEF TraceTypes
  <2> HIDE DEF events
  <2> QED
    BY <1>3, <1>7, <1>8, <2>1 DEF TxSafe
<1> HIDE DEF events
<1>10. EmitsAll(open, sink', events)
  BY <1>1, <1>7, <1>8, EmitAllOK
<1>11. Evolves(open, sink') /\ sink'.stack = open.stack /\ TxOK(sink', x, nextTxid)
  BY <1>7, <1>9, <1>10 DEF EmitsAll
<1>12. Evolves(sink, sink')
  BY <1>2, <1>7, <1>11, EvolvesTransitive
<1>13. /\ frame' \in Frames /\ frame'.paths = frame.paths /\ frame'.root = frame.root /\ frame'.tx = x
       /\ frame'.txid = nextTxid /\ frame'.auth = frame.auth /\ frame'.command = frame.command
  BY <1>1, <1>2, <1>3, <1>7 DEF Frames
<1>14. WrapperOK'
  BY <1>1, <1>12, <1>13, WrapperKept
<1>15. ToSet(frame.paths) = {}
  BY <1>1 DEF ToSet
<1>16. FrameOK'
  <2>1. sink'.enabled = sink.enabled
    BY <1>12 DEF Evolves
  <2> QED
    BY <1>1, <1>2, <1>3, <1>4, <1>7, <1>13, <1>15, <2>1 DEF FrameOK
<1>17. ToSet(sink'.stack) = HeldSpans'
  BY <1>1, <1>4, <1>7, <1>11, <1>13 DEF HeldSpans, TraceInv
<1> QED
  BY <1>11, <1>12, <1>13, <1>14, <1>16, <1>17 DEF TraceInv, Evolves

\* A step that only emits, and keeps what the command holds.
LEMMA EmitsInv ==
    ASSUME TraceInv, pc = "run", NEW type, Emits(sink, sink', type), TxOK(sink', frame.tx, frame.txid),
           frame' = Worked, UNCHANGED <<pc, nextTxid, wrapper>>
    PROVE  TraceInv'
<1>1. Evolves(sink, sink') /\ SinkOK(sink') /\ sink'.enabled = sink.enabled /\ sink'.stack = sink.stack
  BY DEF Emits, Evolves
<1>2. FrameOK /\ frame \in Frames /\ frame.work + 1 \in Nat
  BY DEF TraceInv, FrameOK, Frames
<1>3. frame' = [frame EXCEPT !.work = frame.work + 1]
  BY <1>2 DEF Frames, Worked
<1>4. /\ frame' \in Frames /\ frame'.paths = frame.paths /\ frame'.root = frame.root /\ frame'.tx = frame.tx
      /\ frame'.txid = frame.txid /\ frame'.auth = frame.auth /\ frame'.command = frame.command
  BY <1>2, <1>3 DEF Frames
<1>5. WrapperOK'
  BY <1>1, <1>4, WrapperKept
<1>6. FrameOK'
  BY <1>1, <1>2, <1>4 DEF FrameOK
<1>7. ToSet(sink'.stack) = HeldSpans'
  BY <1>1, <1>4 DEF HeldSpans, TraceInv
<1> QED
  BY <1>1, <1>4, <1>5, <1>6, <1>7 DEF TraceInv

LEMMA EmitOwnInv == TraceInv /\ EmitOwn => TraceInv'
<1> SUFFICES ASSUME TraceInv, EmitOwn PROVE TraceInv'
  OBVIOUS
<1>1. /\ sink' = Emit(sink, frame.txid, frame.command, "ok") /\ frame' = Worked
      /\ Working /\ pc = "run" /\ frame.command \in Typed /\ UNCHANGED <<pc, nextTxid, wrapper>>
  BY DEF EmitOwn, Working
<1>2. frame.command \in EventTypes /\ frame.command \notin TraceTypes /\ frame.command # "journal.begin"
  BY <1>1, CommandsAssumption DEF EventTypes, TraceTypes
<1>3. SinkOK(sink) /\ frame.txid \in Nat /\ "ok" \in Statuses /\ frame.tx \in Nat /\ frame.tx < sink.seq
  BY HeldNumbers DEF TraceInv, FrameOK, Frames, Statuses
<1>4. TxSafe(sink, frame.tx, frame.txid, frame.txid, frame.command)
  BY <1>1, <1>2, MayEmit
<1>5. Emits(sink, sink', frame.command)
  BY <1>1, <1>2, <1>3, EmitOK
<1>6. TxOK(sink', frame.tx, frame.txid)
  BY <1>1, <1>2, <1>3, <1>4, EmitOK DEF TraceInv
<1> QED
  BY <1>1, <1>5, <1>6, EmitsInv

LEMMA EmitDetailInv == ASSUME NEW t \in 0 .. MaxTx PROVE TraceInv /\ EmitDetail(t) => TraceInv'
<1> SUFFICES ASSUME TraceInv, EmitDetail(t) PROVE TraceInv'
  OBVIOUS
<1>1. /\ sink' = Emit(sink, t, "detail", "ok") /\ frame' = Worked /\ t \in {0, frame.txid}
      /\ Working /\ pc = "run" /\ UNCHANGED <<pc, nextTxid, wrapper>>
  BY DEF EmitDetail, Working
<1>2. "detail" \in EventTypes /\ "detail" \notin TraceTypes /\ t \in Nat
  BY BoundsAssumption DEF EventTypes, TraceTypes
<1>3. SinkOK(sink) /\ "ok" \in Statuses /\ frame.tx \in Nat /\ frame.tx < sink.seq
  BY HeldNumbers DEF TraceInv, Statuses
<1>4. TxSafe(sink, frame.tx, frame.txid, t, "detail")
  BY <1>1, <1>2, MayEmit
<1>5. Emits(sink, sink', "detail")
  BY <1>1, <1>2, <1>3, EmitOK
<1>6. TxOK(sink', frame.tx, frame.txid)
  BY <1>1, <1>2, <1>3, <1>4, EmitOK DEF TraceInv
<1> QED
  BY <1>1, <1>5, <1>6, EmitsInv

LEMMA CommitTxInv == TraceInv /\ CommitTx => TraceInv'
<1> SUFFICES ASSUME TraceInv, CommitTx PROVE TraceInv'
  OBVIOUS
<1> DEFINE events == <<<<frame.txid, "journal.record">>, <<frame.txid, "journal.commit">>,
                       <<0, "block.write">>, <<frame.txid, "journal.checkpoint">>,
                       <<0, "journal.clear">>, <<0, "coord.epoch.bump">>>>
           all == EmitAll(sink, events)
<1>1. /\ sink' = FinishSpan(all, frame.tx, "ok") /\ frame' = [frame EXCEPT !.tx = 0, !.txid = 0, !.done = TRUE]
      /\ Working /\ pc = "run" /\ frame.auth = 0 /\ frame.paths = <<>> /\ frame.txid # 0
      /\ pc' \in {"run", "leave"} /\ UNCHANGED <<nextTxid, wrapper>>
  BY DEF CommitTx, Working
<1>2. /\ SinkOK(sink) /\ FrameOK /\ frame \in Frames /\ frame.tx \in Nat /\ frame.txid \in Nat
      /\ frame.tx < sink.seq /\ "ok" \in Statuses \cup {Same}
  BY HeldNumbers DEF TraceInv, FrameOK, Frames, Statuses
<1>3. events \in Seq(Nat \X EventTypes) /\ Len(events) = 6
  BY <1>2 DEF EventTypes
<1>4. \A i \in 1..Len(events) : TxSafe(sink, frame.tx, frame.txid, events[i][1], events[i][2])
  <2>1. \A i \in 1..6 : events[i][1] \in {0, frame.txid} /\ events[i][2] # "journal.begin"
                         /\ events[i][2] \in EventTypes /\ events[i][2] \notin TraceTypes
    BY DEF EventTypes, TraceTypes
  <2> HIDE DEF events
  <2> QED
    BY <1>1, <1>3, <2>1, MayEmit
<1> HIDE DEF events
<1>5. EmitsAll(sink, all, events)
  BY <1>2, <1>3, EmitAllOK
<1> HIDE DEF all
<1>6. Evolves(sink, all) /\ SinkOK(all) /\ all.stack = sink.stack /\ TxOK(all, frame.tx, frame.txid)
  BY <1>2, <1>4, <1>5 DEF EmitsAll, Evolves, TraceInv
<1>7. Closes(all, sink', {frame.tx})
  BY <1>1, <1>2, <1>6, FinishSpanOK
<1>8. Evolves(all, sink') /\ ToSet(sink'.stack) = ToSet(sink.stack) \ {frame.tx} /\ TxOK(sink', frame.tx, frame.txid)
  BY <1>6, <1>7 DEF Closes
<1>9. Evolves(sink, sink')
  BY <1>2, <1>6, <1>8, EvolvesTransitive
<1>10. /\ frame' \in Frames /\ frame'.paths = frame.paths /\ frame'.root = frame.root /\ frame'.tx = 0
       /\ frame'.txid = 0 /\ frame'.auth = frame.auth /\ frame'.command = frame.command
  BY <1>1, <1>2 DEF Frames
<1>11. WrapperOK'
  BY <1>1, <1>9, <1>10, WrapperKept
<1>12. FrameOK'
  BY <1>1, <1>2, <1>10 DEF FrameOK
<1>13. ToSet(sink'.stack) = HeldSpans'
  <2>1. ToSet(frame.paths) = {}
    BY <1>1 DEF ToSet
  <2>2. frame.tx # 0 => frame.tx # frame.root
    BY <1>2 DEF FrameOK, Frames
  <2> QED
    BY <1>1, <1>8, <1>10, <2>1, <2>2 DEF HeldSpans, TraceInv
<1>14. TxOK(sink', frame'.tx, frame'.txid)
  BY <1>8, <1>10, NoOpenTx
<1> QED
  BY <1>9, <1>11, <1>12, <1>13, <1>14 DEF TraceInv, Evolves

\* The root span's event is written; the span is on the stack while it is held.
LEMMA ReturnInv == ASSUME NEW error \in BOOLEAN PROVE TraceInv /\ Return(error) => TraceInv'
<1> SUFFICES ASSUME TraceInv, Return(error) PROVE TraceInv'
  OBVIOUS
<1>1. /\ sink' = IF error THEN FinishSpan(sink, frame.root, "error") ELSE sink
      /\ frame' = IF error THEN [frame EXCEPT !.root = 0] ELSE frame
      /\ pc = "run" /\ frame.auth = 0 /\ frame.paths = <<>> /\ frame.txid = 0 /\ pc' = "leave"
      /\ UNCHANGED <<nextTxid, wrapper>>
  BY DEF Return, Working
<1>2. /\ SinkOK(sink) /\ FrameOK /\ frame \in Frames /\ frame.root \in Nat /\ frame.tx = 0
      /\ "error" \in Statuses \cup {Same}
  BY <1>1 DEF TraceInv, FrameOK, Frames, Statuses
<1>3. PICK gone \in {{}, {frame.root}} :
        /\ Closes(sink, sink', gone)
        /\ frame'.root = IF gone = {} THEN frame.root ELSE 0
  <2>1. CASE error
    BY <1>1, <1>2, <2>1, FinishSpanOK DEF Frames
  <2>2. CASE ~error
    <3>1. Closes(sink, sink, {})
      BY <1>2, SinkFields, EvolvesReflexive DEF Closes
    <3> QED
      BY <1>1, <2>2, <3>1
  <2> QED
    BY <2>1, <2>2
<1>4. /\ Evolves(sink, sink') /\ SinkOK(sink') /\ sink'.enabled = sink.enabled
      /\ ToSet(sink'.stack) = ToSet(sink.stack) \ gone /\ TxOK(sink', frame.tx, frame.txid)
  BY <1>3 DEF Closes, Evolves, TraceInv
<1>5. /\ frame' \in Frames /\ frame'.paths = frame.paths /\ frame'.tx = frame.tx
      /\ frame'.txid = frame.txid /\ frame'.auth = frame.auth /\ frame'.command = frame.command
  BY <1>1, <1>2 DEF Frames
<1>6. WrapperOK'
  BY <1>1, <1>4, <1>5, WrapperKept
<1>7. ToSet(frame.paths) = {}
  BY <1>1 DEF ToSet
<1>8. FrameOK'
  BY <1>1, <1>2, <1>3, <1>4, <1>5, <1>7 DEF FrameOK
<1>9. ToSet(sink'.stack) = HeldSpans'
  BY <1>1, <1>2, <1>3, <1>4, <1>5, <1>7 DEF HeldSpans, TraceInv
<1> QED
  BY <1>4, <1>5, <1>6, <1>8, <1>9 DEF TraceInv

LEMMA ThrowInv == TraceInv /\ Throw => TraceInv'
<1> SUFFICES ASSUME TraceInv, Throw PROVE TraceInv'
  OBVIOUS
<1> DEFINE looked   == FinishAll(sink, frame.paths)
           unwound  == FinishSpan(looked, frame.tx, Same)
           released == Emit(unwound, 0, "coord.lock.release", "ok")
           failed   == FinishSpan(released, frame.root, "error")
<1>1. /\ sink' = Emit(failed, 0, "command.error", "error") /\ frame' = [NoFrame EXCEPT !.command = frame.command]
      /\ pc = "run" /\ frame.auth = 0 /\ pc' = "thrown" /\ UNCHANGED <<nextTxid, wrapper>>
  BY DEF Throw
<1>2. /\ SinkOK(sink) /\ FrameOK /\ frame \in Frames /\ frame.root \in Nat /\ frame.tx \in Nat
      /\ frame.paths \in Seq(Nat) /\ "ok" \in Statuses /\ "error" \in Statuses
      /\ "coord.lock.release" \in EventTypes /\ "command.error" \in EventTypes
  BY DEF TraceInv, FrameOK, Frames, Statuses, EventTypes
<1>3. /\ TxSafe(unwound, 0, 0, 0, "coord.lock.release") /\ TxSafe(failed, 0, 0, 0, "command.error")
  BY DEF TxSafe
<1>4. Closes(sink, looked, ToSet(frame.paths))
  BY <1>2, FinishAllOK
<1> HIDE DEF looked
<1>5. /\ Evolves(sink, looked) /\ SinkOK(looked) /\ TxOK(looked, 0, 0)
      /\ ToSet(looked.stack) = ToSet(sink.stack) \ ToSet(frame.paths)
  BY <1>4, NoOpenTx DEF Closes, Evolves, TraceInv
<1>6. Closes(looked, unwound, {frame.tx})
  BY <1>2, <1>5, FinishSpanOK
<1> HIDE DEF unwound
<1>7. /\ Evolves(looked, unwound) /\ SinkOK(unwound) /\ TxOK(unwound, 0, 0)
      /\ ToSet(unwound.stack) = ToSet(looked.stack) \ {frame.tx}
  BY <1>5, <1>6 DEF Closes, Evolves
<1>8. 0 < unwound.seq
  BY <1>7, SinkFields
<1>9. Emits(unwound, released, "coord.lock.release") /\ TxOK(released, 0, 0)
  BY <1>2, <1>3, <1>7, <1>8, EmitOK
<1> HIDE DEF released
<1>10. Evolves(unwound, released) /\ SinkOK(released) /\ released.stack = unwound.stack
  BY <1>9 DEF Emits, Evolves
<1>11. Closes(released, failed, {frame.root})
  BY <1>2, <1>10, FinishSpanOK
<1> HIDE DEF failed
<1>12. /\ Evolves(released, failed) /\ SinkOK(failed) /\ TxOK(failed, 0, 0)
       /\ ToSet(failed.stack) = ToSet(released.stack) \ {frame.root}
  BY <1>9, <1>11 DEF Closes, Evolves
<1>13. 0 < failed.seq
  BY <1>12, SinkFields
<1>14. Emits(failed, sink', "command.error") /\ TxOK(sink', 0, 0)
  BY <1>1, <1>2, <1>3, <1>12, <1>13, EmitOK
<1>15. Evolves(failed, sink') /\ SinkOK(sink') /\ sink'.stack = failed.stack
  BY <1>14 DEF Emits, Evolves
<1>16. Evolves(sink, unwound)
  BY <1>2, <1>5, <1>7, EvolvesTransitive
<1>17. Evolves(sink, released)
  BY <1>2, <1>10, <1>16, EvolvesTransitive
<1>18. Evolves(sink, failed)
  BY <1>2, <1>12, <1>17, EvolvesTransitive
<1>19. Evolves(sink, sink')
  BY <1>2, <1>15, <1>18, EvolvesTransitive
<1>20. /\ frame' \in Frames /\ frame'.paths = <<>> /\ frame'.root = 0 /\ frame'.tx = 0
       /\ frame'.txid = 0 /\ frame'.auth = 0 /\ frame'.command = frame.command
  <2>1. <<>> \in Seq(Nat)
    OBVIOUS
  <2> QED
    BY <1>1, <1>2, <2>1 DEF Frames, NoFrame
<1>21. WrapperOK'
  BY <1>1, <1>19, <1>20, WrapperKept
<1>22. FrameOK'
  BY <1>1, <1>2, <1>20 DEF FrameOK
<1>23. ToSet(sink'.stack) = HeldSpans'
  <2>1. ToSet(frame'.paths) = {}
    BY <1>20 DEF ToSet
  <2>2. ToSet(sink'.stack) = ((ToSet(sink.stack) \ ToSet(frame.paths)) \ {frame.tx}) \ {frame.root}
    BY <1>5, <1>7, <1>10, <1>12, <1>15
  <2> QED
    BY <1>1, <1>20, <2>1, <2>2 DEF HeldSpans, TraceInv
<1>24. TxOK(sink', frame'.tx, frame'.txid)
  BY <1>14, <1>20
<1> QED
  BY <1>15, <1>21, <1>22, <1>23, <1>24 DEF TraceInv

\* Between two commands nothing is held, and no cmdTrace() is about.
LEMMA IdleHoldsNothing ==
    ASSUME TraceInv, pc = "idle"
    PROVE  /\ frame = NoFrame /\ frame.tx = 0 /\ frame.txid = 0 /\ sink.stack = <<>> /\ ToSet(sink.stack) = {}
           /\ HeldSpans = {} /\ wrapper.command = NoCommand /\ TxOK(sink, 0, 0)
<1>1. frame = NoFrame /\ wrapper.command = NoCommand
  BY DEF TraceInv, FrameOK, WrapperOK
<1>2. frame.root = 0 /\ frame.tx = 0 /\ frame.txid = 0 /\ frame.auth = 0 /\ frame.paths = <<>>
  BY <1>1 DEF NoFrame
<1>3. ToSet(frame.paths) = {}
  BY <1>2 DEF ToSet
<1>4. HeldSpans = {}
  BY <1>2, <1>3 DEF HeldSpans
<1>5. ToSet(sink.stack) = {}
  BY <1>4 DEF TraceInv
<1>6. sink.stack = <<>>
  BY <1>5, TopIsGreatest DEF TraceInv
<1> QED
  BY <1>1, <1>2, <1>4, <1>5, <1>6 DEF TraceInv

LEMMA ExecuteInv ==
    ASSUME TraceInv, pc = "idle", NEW c \in Commands, NEW s, SinkOK(s), s.ring = sink.ring,
           s.stack = sink.stack, s.seq = sink.seq, s.enabled = sink.enabled,
           Execute(s, c), nextTxid' = nextTxid,
           wrapper' = wrapper \/ wrapper' = [command |-> c, first |-> sink.seq]
    PROVE  TraceInv'
<1> DEFINE in == [s EXCEPT !.command = <<"run", c>>]
           x == IF c \in Typed THEN SpanOf(in, c) ELSE 0
           open == IF c \in Typed THEN BeginSpan(in, 0, c) ELSE in
           events == <<<<0, "coord.lock.acquire">>>>
<1>1. /\ sink' = EmitAll(open, events) /\ frame' = [NoFrame EXCEPT !.command = c, !.root = x]
      /\ pc' = "run"
  BY DEF Execute
<1>2. <<"run", c>> \in Contexts
  BY DEF Contexts
<1>3. /\ SinkOK(in) /\ in.ring = sink.ring /\ in.stack = sink.stack /\ in.seq = sink.seq
      /\ in.enabled = sink.enabled /\ in.command = <<"run", c>>
  <2>1. InContext(s, in, <<"run", c>>)
    BY <1>2, InContextOK
  <2> QED
    BY <2>1 DEF InContext, Retuned
<1> HIDE DEF in
<1>4. /\ sink.stack = <<>> /\ ToSet(sink.stack) = {} /\ wrapper.command = NoCommand /\ TxOK(sink, 0, 0)
  BY IdleHoldsNothing
<1>5. TxOK(in, 0, 0)
  BY <1>3, <1>4, SameRingTx
<1>6. in.seq \in Nat /\ 0 < in.seq
  BY <1>3, SinkFields
<1>7. /\ Evolves(in, open) /\ SinkOK(open) /\ x \in Nat /\ x < open.seq
      /\ ToSet(open.stack) = {x} \ {0} /\ open.enabled = sink.enabled
      /\ TxOK(open, 0, 0) /\ (c \notin Typed => open = in)
      /\ (c \in Typed /\ in.enabled => open.seq = in.seq + 1)
  <2>1. CASE c \in Typed
    <3>1. c \in EventTypes
      BY <2>1 DEF EventTypes
    <3>2. Opens(in, BeginSpan(in, 0, c), SpanOf(in, c), c) /\ TxOK(BeginSpan(in, 0, c), 0, 0)
      BY <1>3, <1>5, <1>6, <3>1, BeginSpanOK, BeginSpanTx
    <3> QED
      BY <1>3, <1>4, <2>1, <3>2 DEF Opens, Evolves
  <2>2. CASE c \notin Typed
    BY <1>3, <1>4, <1>5, <1>6, <2>2, EvolvesReflexive
  <2> QED
    BY <2>1, <2>2
<1> HIDE DEF x, open
<1>8. /\ events \in Seq(Nat \X EventTypes) /\ Len(events) = 1
      /\ \A i \in 1..1 : TxSafe(open, 0, 0, events[i][1], events[i][2])
  BY DEF EventTypes, TxSafe
<1> HIDE DEF events
<1>9. EmitsAll(open, sink', events)
  BY <1>1, <1>7, <1>8, EmitAllOK
<1>10. /\ Evolves(open, sink') /\ SinkOK(sink') /\ sink'.stack = open.stack
       /\ (open.enabled /\ open.stack = <<>> => sink'.seq > open.seq)
  BY <1>8, <1>9 DEF EmitsAll, Evolves
<1>11. TxOK(sink', 0, 0)
  <2>1. 0 < open.seq
    BY <1>7, SinkFields
  <2> QED
    BY <1>7, <1>8, <1>9, <2>1 DEF EmitsAll
<1>12. Evolves(in, sink')
  BY <1>3, <1>7, <1>10, EvolvesTransitive
<1>13. sink'.seq \in Nat /\ sink.seq <= sink'.seq /\ (sink.enabled => sink.seq < sink'.seq)
  <2>1. open.seq \in Nat /\ sink'.seq \in Nat
    BY <1>7, <1>10, SinkFields
  <2>2. in.seq <= open.seq /\ open.seq <= sink'.seq
    BY <2>1, <1>6, <1>7, <1>10 DEF Evolves
  <2>3. CASE c \in Typed
    BY <1>3, <1>6, <1>7, <2>1, <2>2, <2>3
  <2>4. CASE c \notin Typed
    BY <1>3, <1>4, <1>6, <1>7, <1>10, <2>1, <2>2, <2>4
  <2> QED
    BY <2>3, <2>4
<1>14. /\ sink'.command = <<"run", c>> /\ sink'.enabled = sink.enabled
  BY <1>3, <1>12 DEF Evolves
<1>15. /\ frame' \in Frames /\ frame'.paths = <<>> /\ frame'.root = x /\ frame'.tx = 0
       /\ frame'.txid = 0 /\ frame'.auth = 0 /\ frame'.command = c
  <2>1. <<>> \in Seq(Nat)
    OBVIOUS
  <2> QED
    BY <1>1, <1>7, <2>1 DEF Frames, NoFrame
<1>16. ToSet(frame'.paths) = {}
  BY <1>15 DEF ToSet
<1>17. FrameOK'
  BY <1>1, <1>15, <1>16 DEF FrameOK, TraceInv
<1>18. ToSet(sink'.stack) = HeldSpans'
  BY <1>7, <1>10, <1>15, <1>16 DEF HeldSpans
<1>19. WrapperOK'
  <2>1. CASE wrapper' = wrapper
    BY <1>1, <1>4, <1>14, <1>15, <2>1 DEF WrapperOK, TraceInv
  <2>2. CASE wrapper' = [command |-> c, first |-> sink.seq]
    <3>1. wrapper' \in [command : Commands \cup {NoCommand}, first : Nat] /\ wrapper'.command = c
          /\ wrapper'.first = sink.seq
      BY <1>3, <1>6, <2>2
    <3>2. Len(sink'.ring) = RingSize \/ Len(sink'.ring) >= sink'.seq - sink.seq
      <4>1. Len(in.ring) \in Nat /\ Len(sink'.ring) \in Nat
        BY <1>3, <1>10, SinkFields
      <4>2. PICK a \in Nat, b \in Nat, k \in Nat, l \in Nat :
              a = in.seq /\ b = sink'.seq /\ k = Len(in.ring) /\ l = Len(sink'.ring)
        BY <1>6, <1>13, <4>1
      <4>3. l = RingSize \/ l >= k + (b - a)
        BY <1>12, <4>2 DEF Evolves
      <4>4. l = RingSize \/ l >= b - a
        BY ONLY <4>3, a \in Nat, b \in Nat, k \in Nat, l \in Nat
      <4> QED
        BY <1>3, <4>2, <4>4
    <3>3. \A e \in ToSet(sink'.ring) : e.seq >= sink.seq => e.command = <<"run", c>>
      <4>1. \A o \in ToSet(sink.ring) : ~(o.seq >= sink.seq)
        <5>1. \A o \in ToSet(sink.ring) : o.seq \in Nat /\ o.seq < sink.seq
          BY RingEvents DEF TraceInv
        <5> QED
          BY <1>3, <1>6, <5>1
      <4> QED
        BY <1>3, <1>12, <4>1 DEF Evolves, SameEvent
    <3>4. \A e \in ToSet(sink'.ring) : e.seq >= wrapper'.first => InnerEvent(e)'
      BY <3>1, <3>3 DEF InnerEvent
    <3> QED
      BY <1>1, <1>13, <1>14, <1>15, <3>1, <3>2, <3>4 DEF WrapperOK
  <2> QED
    BY <2>1, <2>2
<1> QED
  BY <1>10, <1>11, <1>15, <1>17, <1>18, <1>19 DEF TraceInv

LEMMA EnterInv == ASSUME NEW c \in Commands PROVE TraceInv /\ (Enter(c) \/ EnterTraced(c)) => TraceInv'
<1>1. ASSUME TraceInv, Enter(c) PROVE TraceInv'
  <2>1. SinkOK(sink)
    BY <1>1 DEF TraceInv
  <2> QED
    BY <1>1, <2>1, ExecuteInv DEF Enter
<1>2. ASSUME TraceInv, EnterTraced(c) PROVE TraceInv'
  <2> DEFINE s == [sink EXCEPT !.command = <<"trace", c>>]
  <2>1. /\ SinkOK(s) /\ s.ring = sink.ring /\ s.stack = sink.stack /\ s.seq = sink.seq
        /\ s.enabled = sink.enabled
    <3>1. <<"trace", c>> \in Contexts
      BY DEF Contexts
    <3>2. InContext(sink, s, <<"trace", c>>)
      BY <1>2, <3>1, InContextOK DEF TraceInv
    <3> QED
      BY <3>2 DEF InContext, Retuned
  <2>2. Execute(s, c) /\ pc = "idle" /\ nextTxid' = nextTxid /\ wrapper' = [command |-> c, first |-> sink.seq]
    BY <1>2 DEF EnterTraced
  <2> HIDE DEF s
  <2> QED
    BY <1>2, <2>1, <2>2, ExecuteInv
<1> QED
  BY <1>1, <1>2

\* trace on, off and clear run between two commands.
LEMMA IdleStep ==
    ASSUME TraceInv, pc = "idle", SinkOK(sink'), sink'.stack = <<>>, TxOK(sink', 0, 0),
           UNCHANGED <<pc, frame, nextTxid, wrapper>>
    PROVE  TraceInv'
<1>1. /\ frame = NoFrame /\ frame.tx = 0 /\ frame.txid = 0 /\ HeldSpans = {} /\ wrapper.command = NoCommand
  BY IdleHoldsNothing
<1>2. FrameOK'
  BY <1>1 DEF TraceInv, FrameOK
<1>3. WrapperOK'
  BY <1>1 DEF TraceInv, WrapperOK
<1>4. HeldSpans' = {}
  BY <1>1 DEF HeldSpans
<1>5. ToSet(sink'.stack) = {}
  BY DEF ToSet
<1> QED
  BY <1>1, <1>2, <1>3, <1>4, <1>5 DEF TraceInv

LEMMA SwitchInv == ASSUME NEW on \in BOOLEAN PROVE TraceInv /\ Switch(on) => TraceInv'
<1> SUFFICES ASSUME TraceInv, Switch(on) PROVE TraceInv'
  OBVIOUS
<1> DEFINE in == [sink EXCEPT !.command = <<"trace", NoCommand>>]
           switched == [in EXCEPT !.enabled = TRUE]
           off == Emit(in, 0, "trace.off", "ok")
<1>1. /\ pc = "idle" /\ UNCHANGED <<pc, frame, nextTxid, wrapper>>
      /\ sink' = IF on THEN Emit(switched, 0, "trace.on", "ok") ELSE [off EXCEPT !.enabled = FALSE]
  BY DEF Switch
<1>2. sink.stack = <<>> /\ TxOK(sink, 0, 0) /\ SinkOK(sink)
  BY <1>1, IdleHoldsNothing DEF TraceInv
<1>3. SinkOK(in) /\ in.stack = <<>> /\ in.ring = sink.ring
  <2>1. <<"trace", NoCommand>> \in Contexts
    BY DEF Contexts
  <2>2. InContext(sink, in, <<"trace", NoCommand>>)
    BY <1>2, <2>1, InContextOK
  <2> QED
    BY <1>2, <2>2 DEF InContext, Retuned
<1> HIDE DEF in
<1>4. TxOK(in, 0, 0)
  BY <1>2, <1>3, SameRingTx
<1>5. SinkOK(switched) /\ switched.stack = <<>> /\ switched.ring = in.ring
  <2>1. Retuned(in, switched)
    BY <1>3, SwitchedOK
  <2> QED
    BY <1>3, <2>1 DEF Retuned
<1> HIDE DEF switched
<1>6. TxOK(switched, 0, 0) /\ 0 < switched.seq /\ 0 < in.seq
  BY <1>3, <1>4, <1>5, SameRingTx, SinkFields
<1>7. "ok" \in Statuses /\ "trace.on" \in EventTypes /\ "trace.off" \in EventTypes
  BY DEF Statuses, EventTypes, TraceTypes
<1>8. TxSafe(switched, 0, 0, 0, "trace.on") /\ TxSafe(in, 0, 0, 0, "trace.off")
  BY DEF TxSafe
<1>9. /\ Emits(in, off, "trace.off") /\ TxOK(off, 0, 0)
  BY <1>3, <1>4, <1>6, <1>7, <1>8, EmitOK
<1>10. CASE on
  <2>1. sink' = Emit(switched, 0, "trace.on", "ok")
    BY <1>1, <1>10
  <2>2. Emits(switched, sink', "trace.on") /\ TxOK(sink', 0, 0)
    BY <1>5, <1>6, <1>7, <1>8, <2>1, EmitOK
  <2>3. SinkOK(sink') /\ sink'.stack = <<>>
    BY <1>5, <2>2 DEF Emits, Evolves
  <2> QED
    BY <1>1, <2>2, <2>3, IdleStep
<1>11. CASE ~on
  <2>1. SinkOK(off) /\ off.stack = <<>> /\ sink' = [off EXCEPT !.enabled = FALSE]
    BY <1>1, <1>3, <1>9, <1>11 DEF Emits, Evolves
  <2> HIDE DEF off
  <2>2. SinkOK(sink') /\ sink'.stack = <<>> /\ sink'.ring = off.ring
    <3>1. Retuned(off, sink')
      BY <2>1, SwitchedOK
    <3> QED
      BY <2>1, <3>1 DEF Retuned
  <2>3. TxOK(sink', 0, 0)
    BY <1>9, <2>2, SameRingTx
  <2> QED
    BY <1>1, <2>2, <2>3, IdleStep
<1> QED
  BY <1>10, <1>11

LEMMA TraceClearInv == TraceInv /\ TraceClear => TraceInv'
<1> SUFFICES ASSUME TraceInv, TraceClear PROVE TraceInv'
  OBVIOUS
<1>1. /\ sink' = [[sink EXCEPT !.command = <<"trace", NoCommand>>] EXCEPT !.ring = <<>>, !.stack = <<>>]
      /\ pc = "idle" /\ UNCHANGED <<pc, frame, nextTxid, wrapper>>
  BY DEF TraceClear, Clear
<1>2. sink \in SinkRecord /\ sink.seq \in Nat /\ 0 < sink.seq
  BY SinkFields DEF TraceInv, SinkOK
<1>3. Len(<<>>) = 0 /\ DOMAIN <<>> = {} /\ <<>> \in Seq(Events) /\ <<>> \in Seq(Nat)
  OBVIOUS
<1>4. <<"trace", NoCommand>> \in Contexts
  BY DEF Contexts
<1>5. /\ sink' \in SinkRecord /\ sink'.ring = <<>> /\ sink'.stack = <<>> /\ sink'.seq = sink.seq
  BY <1>1, <1>2, <1>3, <1>4 DEF SinkRecord
<1>6. SinkOK(sink')
  BY <1>2, <1>3, <1>5, RingAssumption DEF SinkOK, Numbered, Stacked, Increasing
<1>7. TxOK(sink', 0, 0)
  BY <1>3, <1>5 DEF TxOK, SpanOfTx, ToSet
<1> QED
  BY <1>1, <1>5, <1>6, <1>7, IdleStep

LEMMA LoginInv == TraceInv /\ Login => TraceInv'
<1> SUFFICES ASSUME TraceInv, Login PROVE TraceInv'
  OBVIOUS
<1> DEFINE login == <<"login", NoCommand>>
           in == [sink EXCEPT !.command = login]
<1>1. /\ sink' = Emit(in, 0, "session.login", "ok") /\ pc' = "leave" /\ pc = "run"
      /\ frame.paths = <<>> /\ frame.auth = 0 /\ frame.command = "session.login"
      /\ UNCHANGED <<frame, nextTxid, wrapper>>
  BY DEF Login, Working
<1>2. SinkOK(sink) /\ FrameOK /\ login \in Contexts /\ "session.login" \in EventTypes /\ "ok" \in Statuses
  BY DEF TraceInv, Contexts, EventTypes, Statuses
<1>3. frame.txid = 0 /\ frame.tx = 0
  BY <1>1, <1>2, CommandsAssumption DEF FrameOK
<1>4. /\ SinkOK(in) /\ in.ring = sink.ring /\ in.stack = sink.stack /\ in.seq = sink.seq
      /\ in.command = login /\ in.enabled = sink.enabled
  <2>1. InContext(sink, in, login)
    BY <1>2, InContextOK
  <2> QED
    BY <1>2, <2>1 DEF InContext, Retuned
<1> HIDE DEF in
<1>5. TxOK(in, 0, 0) /\ 0 < in.seq /\ in.seq \in Nat
  BY <1>3, <1>4, SameRingTx, SinkFields DEF TraceInv
<1>6. TxSafe(in, 0, 0, 0, "session.login")
  BY DEF TxSafe
<1>7. Emits(in, sink', "session.login") /\ TxOK(sink', 0, 0)
  BY <1>1, <1>2, <1>4, <1>5, <1>6, EmitOK
<1>8. /\ Evolves(in, sink') /\ SinkOK(sink') /\ sink'.stack = sink.stack /\ sink'.command = login
      /\ sink'.enabled = sink.enabled /\ sink'.seq <= sink.seq + 1 /\ sink'.seq >= sink.seq
      /\ (~sink.enabled => sink' = in)
  BY <1>4, <1>7 DEF Emits, Evolves, TraceTypes
<1>9. FrameOK'
  BY <1>1, <1>2, <1>3, <1>8 DEF FrameOK
<1>10. ToSet(sink'.stack) = HeldSpans'
  BY <1>1, <1>8 DEF HeldSpans, TraceInv
<1>11. WrapperOK'
  <2>1. CASE wrapper.command = NoCommand
    BY <1>1, <1>8, <2>1 DEF WrapperOK, TraceInv
  <2>2. CASE wrapper.command # NoCommand
    <3>1. /\ wrapper \in [command : Commands \cup {NoCommand}, first : Nat]
          /\ frame.command = wrapper.command
          /\ wrapper.first <= sink.seq /\ (sink.enabled => wrapper.first < sink.seq)
          /\ Len(sink.ring) = RingSize \/ Len(sink.ring) >= sink.seq - wrapper.first
          /\ \A e \in ToSet(sink.ring) : e.seq >= wrapper.first => e.command = <<"run", wrapper.command>>
      BY <1>1, <2>2 DEF TraceInv, WrapperOK, InnerEvent
    <3>2. PICK f \in Nat, a \in Nat, b \in Nat, k \in Nat, l \in Nat :
             f = wrapper.first /\ a = sink.seq /\ b = sink'.seq /\ k = Len(sink.ring) /\ l = Len(sink'.ring)
      BY <1>2, <1>8, <3>1, SinkFields
    <3>3. b >= a /\ b <= a + 1 /\ (l = RingSize \/ l >= k + (b - a)) /\ l <= RingSize /\ RingSize \in Nat
      BY <1>4, <1>8, <3>2, SinkFields, RingAssumption DEF Evolves
    <3>4. f <= a /\ (k = RingSize \/ k >= a - f)
      BY <3>1, <3>2
    <3>5. f <= b /\ (f < a => f < b) /\ (l = RingSize \/ l >= b - f)
      BY ONLY <3>3, <3>4, f \in Nat, a \in Nat, b \in Nat, k \in Nat, l \in Nat
    <3>6. ASSUME NEW e \in ToSet(sink'.ring), e.seq >= wrapper.first PROVE InnerEvent(e)'
      <4>1. \/ \E o \in ToSet(sink.ring) : SameEvent(o, e)
            \/ e.seq >= in.seq /\ e.seq < sink'.seq /\ e.command = login
        BY <1>4, <1>8 DEF Evolves
      <4>2. CASE \E o \in ToSet(sink.ring) : SameEvent(o, e)
        BY <1>1, <3>1, <3>6, <4>2 DEF InnerEvent, SameEvent
      <4>3. CASE e.seq >= in.seq /\ e.seq < sink'.seq /\ e.command = login
        <5>1. PICK q \in Nat : q = e.seq
          BY <1>8, RingEvents
        <5>2. q >= a /\ q < b
          BY <1>4, <3>2, <4>3, <5>1
        <5>3. q = b - 1 /\ b # a
          BY ONLY <3>3, <5>2, a \in Nat, b \in Nat, q \in Nat
        <5>4. sink.enabled
          BY <1>4, <1>8, <3>2, <5>3
        <5>5. f < a
          BY <3>1, <3>2, <5>4
        <5>6. f < q
          BY ONLY <5>2, <5>5, f \in Nat, a \in Nat, q \in Nat
        <5>7. wrapper.first < e.seq /\ e.seq = sink'.seq - 1
          BY <3>2, <5>1, <5>3, <5>6
        <5> QED
          BY <1>1, <4>3, <5>7 DEF InnerEvent
      <4> QED
        BY <4>1, <4>2, <4>3
    <3>7. \A e \in ToSet(sink'.ring) : e.seq >= wrapper'.first => InnerEvent(e)'
      BY <1>1, <3>6
    <3> QED
      BY <1>1, <1>8, <3>1, <3>2, <3>5, <3>7 DEF WrapperOK
  <2> QED
    BY <2>1, <2>2
<1> QED
  BY <1>1, <1>3, <1>7, <1>8, <1>9, <1>10, <1>11 DEF TraceInv

\* The sink as execute() leaves it: the lock released, the root span closed.
SinkAfter ==
    FinishSpan(IF pc = "leave" THEN Emit(sink, 0, "coord.lock.release", "ok") ELSE sink, frame.root, Same)

LEMMA LeftOK ==
    ASSUME TraceInv, pc \in {"leave", "thrown"}
    PROVE  /\ Evolves(sink, SinkAfter) /\ SinkAfter.seq <= sink.seq + 1 /\ (~sink.enabled => SinkAfter.seq = sink.seq)
           /\ SinkAfter.stack = <<>> /\ TxOK(SinkAfter, 0, 0)
<1> DEFINE released == IF pc = "leave" THEN Emit(sink, 0, "coord.lock.release", "ok") ELSE sink
           n == SinkAfter
<1>1. /\ SinkOK(sink) /\ FrameOK /\ frame.root \in Nat /\ "ok" \in Statuses
      /\ "coord.lock.release" \in EventTypes /\ "coord.lock.release" \notin TraceTypes /\ 0 < sink.seq
      /\ sink.seq \in Nat
  BY SinkFields DEF TraceInv, FrameOK, Frames, Statuses, EventTypes, TraceTypes
<1>2. frame.tx = 0 /\ frame.auth = 0 /\ frame.paths = <<>> /\ TxOK(sink, 0, 0)
  BY <1>1, NoOpenTx DEF TraceInv, FrameOK
<1>3. TxSafe(sink, 0, 0, 0, "coord.lock.release")
  BY DEF TxSafe
<1>4. /\ Evolves(sink, released) /\ SinkOK(released) /\ released.stack = sink.stack
      /\ released.seq <= sink.seq + 1 /\ (~sink.enabled => released.seq = sink.seq) /\ TxOK(released, 0, 0)
  <2>1. CASE pc = "leave"
    <3> DEFINE m == Emit(sink, 0, "coord.lock.release", "ok")
    <3>1. Emits(sink, m, "coord.lock.release") /\ TxOK(m, 0, 0)
      BY <1>1, <1>2, <1>3, EmitOK
    <3>2. released = m
      BY <2>1
    <3> HIDE DEF m, released
    <3> QED
      BY <1>1, <3>1, <3>2 DEF Emits, Evolves
  <2>2. CASE pc # "leave"
    <3>1. released = sink
      BY <2>2
    <3> HIDE DEF released
    <3> QED
      BY <1>1, <1>2, <3>1, EvolvesReflexive
  <2> QED
    BY <2>1, <2>2
<1>5. n = FinishSpan(released, frame.root, Same)
  BY DEF SinkAfter
<1> HIDE DEF released, n
<1>6. Closes(released, n, {frame.root})
  BY <1>1, <1>4, <1>5, FinishSpanOK
<1>7. Evolves(released, n) /\ n.seq = released.seq /\ ToSet(n.stack) = ToSet(sink.stack) \ {frame.root}
      /\ TxOK(n, 0, 0)
  BY <1>4, <1>6 DEF Closes
<1>8. Evolves(sink, n)
  BY <1>1, <1>4, <1>7, EvolvesTransitive
<1>9. ToSet(n.stack) = {}
  <2>1. ToSet(frame.paths) = {}
    BY <1>2 DEF ToSet
  <2> QED
    BY <1>2, <1>7, <2>1 DEF TraceInv, HeldSpans
<1>10. n.stack = <<>>
  BY <1>8, <1>9, TopIsGreatest DEF Evolves
<1> QED
  BY <1>4, <1>7, <1>8, <1>10 DEF n

LEMMA LeaveInv == TraceInv /\ Leave => TraceInv'
<1> SUFFICES ASSUME TraceInv, Leave PROVE TraceInv'
  OBVIOUS
<1>1. /\ pc \in {"leave", "thrown"} /\ pc' = "idle" /\ frame' = NoFrame /\ nextTxid' = nextTxid
      /\ wrapper' = [command |-> NoCommand, first |-> 0]
      /\ sink' = IF wrapper.command # NoCommand
                 THEN [SinkAfter EXCEPT !.command = <<"trace", wrapper.command>>] ELSE SinkAfter
  BY DEF Leave, SinkAfter
<1>2. SinkOK(SinkAfter) /\ SinkAfter.stack = <<>> /\ TxOK(SinkAfter, 0, 0)
  BY <1>1, LeftOK DEF Evolves
<1>3. <<"trace", wrapper.command>> \in Contexts
  BY DEF TraceInv, WrapperOK, Contexts
<1>4. SinkOK(sink') /\ sink'.stack = <<>> /\ sink'.ring = SinkAfter.ring
  <2>1. CASE wrapper.command # NoCommand
    <3>1. InContext(SinkAfter, [SinkAfter EXCEPT !.command = <<"trace", wrapper.command>>], <<"trace", wrapper.command>>)
      BY <1>2, <1>3, InContextOK
    <3> QED
      BY <1>1, <1>2, <2>1, <3>1 DEF InContext, Retuned
  <2>2. CASE wrapper.command = NoCommand
    BY <1>1, <1>2, <2>2
  <2> QED
    BY <2>1, <2>2
<1>5. TxOK(sink', 0, 0)
  BY <1>2, <1>4, SameRingTx
<1>6. /\ NoFrame \in Frames /\ NoFrame.tx = 0 /\ NoFrame.txid = 0 /\ NoFrame.auth = 0
      /\ NoFrame.root = 0 /\ NoFrame.paths = <<>>
  <2>1. <<>> \in Seq(Nat)
    OBVIOUS
  <2> QED
    BY <2>1 DEF NoFrame, Frames
<1>7. FrameOK'
  BY <1>1, <1>6 DEF FrameOK, TraceInv
<1>8. WrapperOK'
  BY <1>1 DEF WrapperOK
<1>9. ToSet(sink'.stack) = {} /\ ToSet(frame'.paths) = {}
  BY <1>1, <1>4, <1>6 DEF ToSet
<1>10. HeldSpans' = {}
  BY <1>1, <1>6, <1>9 DEF HeldSpans
<1> QED
  BY <1>1, <1>4, <1>5, <1>6, <1>7, <1>8, <1>9, <1>10 DEF TraceInv

LEMMA TraceInvHolds == TraceSpec => []TraceInv
<1>1. TraceInv /\ [TraceNext]_traceVars => TraceInv'
  <2> SUFFICES ASSUME TraceInv, [TraceNext]_traceVars PROVE TraceInv'
    OBVIOUS
  <2>1. CASE UNCHANGED traceVars
    BY <2>1 DEF TraceInv, FrameOK, WrapperOK, InnerEvent, HeldSpans, traceVars
  <2>2. CASE TraceNext
    BY <2>2, EnterInv, SwitchInv, TraceClearInv, LookupInv, LookupDoneInv, AuthInv, AuthDoneInv, BeginTxInv,
       EmitOwnInv, CommitTxInv, LoginInv, EmitDetailInv, ReturnInv, ThrowInv, LeaveInv DEF TraceNext
  <2> QED
    BY <2>1, <2>2
<1> QED
  BY <1>1, InitInv, PTL DEF TraceSpec

\* The sink's type invariant: the ring's events are numbered without a gap.
THEOREM TraceTypeHolds == TraceSpec => []TraceTypeOK
<1>1. TraceInv => TraceTypeOK
  <2> SUFFICES ASSUME TraceInv PROVE TraceTypeOK
    OBVIOUS
  <2>1. SinkOK(sink) /\ sink.seq \in Nat \ {0} /\ Len(sink.ring) \in Nat /\ DOMAIN sink.ring = 1..Len(sink.ring)
    <3>1. SinkOK(sink)
      BY DEF TraceInv
    <3> QED
      BY <3>1, SinkFields
  <2>2. \A i \in DOMAIN sink.ring :
          sink.ring[i] \in Events /\ sink.ring[i].seq = sink.seq - Len(sink.ring) + i - 1
    <3> SUFFICES ASSUME NEW i \in 1..Len(sink.ring)
                 PROVE  sink.ring[i] \in Events /\ sink.ring[i].seq = sink.seq - Len(sink.ring) + i - 1
      BY <2>1
    <3>1. sink.ring[i] \in Events /\ sink.ring[i].seq = (sink.seq - Len(sink.ring)) + (i - 1)
      BY <2>1, SinkFields DEF SinkOK, Numbered
    <3> QED
      BY <2>1, <3>1
  <2>3. frame.command \in Commands \cup {NoCommand}
    BY DEF TraceInv, FrameOK, Frames
  <2> QED
    BY <2>1, <2>2, <2>3, SinkFields DEF TraceTypeOK, TraceInv, FrameOK
<1> QED
  BY <1>1, TraceInvHolds, PTL

\* The stack is always exactly the spans that the running command holds, in the
\* order they were opened, for any ring size: closing spans front to back, by an
\* exception, or after their events were dropped leaves none behind.
THEOREM StackIsOpenSpansHolds == TraceSpec => []StackIsOpenSpans
<1>1. TraceInv => StackIsOpenSpans
  BY DEF TraceInv, SinkOK, Stacked, StackIsOpenSpans
<1> QED
  BY <1>1, TraceInvHolds, PTL

\* Boot's recovery aside, which speaks of an earlier process's transactions outside
\* every span, no txid reaches an event outside its transaction.
THEOREM TxEventsInTxHolds == TraceSpec => []TxEventsInTx
<1>1. TraceInv => TxEventsInTx
  BY DEF TraceInv, TxOK, OfTx, OfBoot, TxEventsInTx, Ring, ParentsOf
<1> QED
  BY <1>1, TraceInvHolds, PTL

\* When the traced command has returned, an event of its own is still in the ring
\* if any is: a login takes at most the last two.
LEMMA LeftEvents ==
    ASSUME TraceInv, pc \in {"leave", "thrown"}, wrapper.command # NoCommand
    PROVE  LET made == {e \in ToSet(SinkAfter.ring) : e.seq >= wrapper.first}
               mine == {e \in made : e.command = <<"run", wrapper.command>>}
           IN  /\ \A e \in made : e \in mine \/ e.command = <<"login", NoCommand>>
               /\ mine = {} => made = {}
<1> DEFINE made == {e \in ToSet(SinkAfter.ring) : e.seq >= wrapper.first}
           run == <<"run", wrapper.command>>
           login == <<"login", NoCommand>>
           mine == {e \in made : e.command = run}
<1>1. /\ wrapper.first \in Nat /\ wrapper.first <= sink.seq /\ (sink.enabled => wrapper.first < sink.seq)
      /\ Len(sink.ring) = RingSize \/ Len(sink.ring) >= sink.seq - wrapper.first
      /\ \A e \in ToSet(sink.ring) : e.seq >= wrapper.first => InnerEvent(e)
      /\ sink.command \in {run, login} /\ SinkOK(sink)
  BY DEF TraceInv, WrapperOK
<1>2. /\ Evolves(sink, SinkAfter) /\ SinkOK(SinkAfter) /\ SinkAfter.seq <= sink.seq + 1
      /\ (~sink.enabled => SinkAfter.seq = sink.seq)
  BY LeftOK DEF Evolves
<1> HIDE DEF run, login
<1>3. PICK f \in Nat, a \in Nat, b \in Nat, k \in Nat, l \in Nat :
         f = wrapper.first /\ a = sink.seq /\ b = SinkAfter.seq /\ k = Len(sink.ring) /\ l = Len(SinkAfter.ring)
  BY <1>1, <1>2, SinkFields
<1>4. /\ b >= a /\ b <= a + 1 /\ (l = RingSize \/ l >= k + (b - a)) /\ l <= RingSize
      /\ f <= a /\ (k = RingSize \/ k >= a - f) /\ RingSize \in Nat /\ RingSize > 2
  BY <1>1, <1>2, <1>3, SinkFields, RingAssumption DEF Evolves
<1>5. l = RingSize \/ l >= b - f
  BY ONLY <1>4, f \in Nat, a \in Nat, b \in Nat, k \in Nat, l \in Nat
<1>6. ASSUME NEW e \in ToSet(SinkAfter.ring), e.seq >= wrapper.first, e.command # run
      PROVE  e.command = login /\ f < e.seq /\ e.seq >= b - 2 /\ e.seq \in Nat /\ e.seq < b
  <2>1. e.seq \in Nat /\ e.seq < b
    BY <1>2, <1>3, RingEvents
  <2>2. PICK q \in Nat : q = e.seq
    BY <2>1
  <2>3. \/ \E o \in ToSet(sink.ring) : SameEvent(o, e)
        \/ e.seq >= sink.seq /\ e.command = sink.command
    BY <1>2 DEF Evolves
  <2>4. CASE \E o \in ToSet(sink.ring) : SameEvent(o, e)
    <3>1. e.command = login /\ wrapper.first < e.seq /\ e.seq = sink.seq - 1
      BY <1>1, <1>6, <2>4 DEF SameEvent, InnerEvent, run, login
    <3>2. q = a - 1 /\ f < q
      BY <1>3, <2>2, <3>1
    <3>3. q >= b - 2
      BY ONLY <1>4, <3>2, a \in Nat, b \in Nat, q \in Nat
    <3> QED
      BY <2>1, <2>2, <3>1, <3>2, <3>3
  <2>5. CASE e.seq >= sink.seq /\ e.command = sink.command
    <3>1. e.command = login /\ q >= a /\ q < b
      BY <1>1, <1>3, <1>6, <2>1, <2>2, <2>5
    <3>2. b # a
      BY ONLY <3>1, a \in Nat, b \in Nat, q \in Nat
    <3>3. f < a
      BY <1>1, <1>2, <1>3, <3>2
    <3>4. f < q /\ q >= b - 2
      BY ONLY <1>4, <3>1, <3>3, f \in Nat, a \in Nat, b \in Nat, q \in Nat
    <3> QED
      BY <2>1, <2>2, <3>1, <3>4
  <2> QED
    BY <2>3, <2>4, <2>5
<1>7. \A e \in made : e \in mine \/ e.command = login
  BY <1>6
<1>8. ASSUME mine = {}, made # {} PROVE FALSE
  <2>1. PICK e \in ToSet(SinkAfter.ring) : e.seq >= wrapper.first /\ e.command # run
    BY <1>8
  <2>2. PICK p \in Nat : p = e.seq /\ f < p /\ p >= b - 2 /\ p < b
    BY <1>6, <2>1
  <2> DEFINE q == IF b - 3 >= f THEN b - 3 ELSE f
             i == (l - (b - q)) + 1
  <2>3. q \in Nat /\ q >= f /\ q < b /\ q >= b - 3 /\ (q = f \/ q = b - 3)
    BY ONLY <2>2, f \in Nat, b \in Nat, p \in Nat
  <2> HIDE DEF q
  <2>4. i \in 1..l /\ (b - l) + (i - 1) = q
    BY ONLY <1>4, <1>5, <2>3, f \in Nat, b \in Nat, l \in Nat, q \in Nat
  <2> HIDE DEF i
  <2>5. SinkAfter.ring[i] \in ToSet(SinkAfter.ring) /\ SinkAfter.ring[i].seq = q
    BY <1>2, <1>3, <2>4, SinkFields DEF SinkOK, Numbered, ToSet
  <2>6. SinkAfter.ring[i].command # run
    BY <1>3, <1>8, <2>3, <2>5
  <2>7. f < q /\ q >= b - 2
    BY <1>3, <1>6, <2>3, <2>5, <2>6
  <2> QED
    BY ONLY <2>3, <2>7, f \in Nat, b \in Nat, q \in Nat
<1> QED
  BY <1>7, <1>8 DEF run, login

\* `trace <command>` renders all events of that command that the ring holds, and
\* none of another's.
THEOREM ShownIsTheCommandHolds == TraceSpec => ShownIsTheCommand
<1>1. ASSUME TraceInv, [TraceNext]_traceVars, wrapper.command # NoCommand, wrapper'.command = NoCommand
      PROVE  LET made == {e \in Ring' : e.seq >= wrapper.first}
             IN shown' = {e \in made : e.command[1] # "login"}
  <2> DEFINE made == {e \in Ring' : e.seq >= wrapper.first}
             mine == {e \in made : e.command = <<"run", wrapper.command>>}
  <2>1. Leave
    <3>1. pc # "idle"
      BY <1>1 DEF TraceInv, WrapperOK
    <3> QED
      BY <1>1, <3>1 DEF TraceNext, traceVars, Enter, EnterTraced, Switch, TraceClear, Lookup, LookupDone, Auth,
         AuthDone, BeginTx, EmitOwn, CommitTx, Login, EmitDetail, Return, Throw
  <2>2. /\ pc \in {"leave", "thrown"} /\ shown' = Render(SinkAfter)
        /\ sink' = [SinkAfter EXCEPT !.command = <<"trace", wrapper.command>>]
    BY <1>1, <2>1 DEF Leave, SinkAfter
  <2>3. sink'.ring = SinkAfter.ring
    <3>1. SinkOK(SinkAfter)
      BY <1>1, <2>2, LeftOK DEF Evolves
    <3> QED
      BY <2>2, <3>1 DEF SinkOK, SinkRecord
  <2>4. shown' = IF mine = {} THEN made ELSE mine
    BY <2>2, <2>3 DEF Render, SinceForCommand, Ring
  <2>5. (\A e \in made : e \in mine \/ e.command = <<"login", NoCommand>>) /\ (mine = {} => made = {})
    BY <1>1, <2>2, <2>3, LeftEvents DEF Ring
  <2>6. \A e \in made : e \in mine <=> e.command[1] # "login"
    BY <2>5
  <2>7. shown' = mine
    BY <2>4, <2>5
  <2>8. mine = {e \in made : e.command[1] # "login"}
    <3>1. mine \subseteq made
      OBVIOUS
    <3> HIDE DEF made, mine
    <3> QED
      BY <2>6, <3>1
  <2> QED
    BY <2>7, <2>8
<1>2. TraceInv /\ [TraceNext]_traceVars =>
        [(wrapper.command # NoCommand /\ wrapper'.command = NoCommand) =>
           LET made == {e \in Ring' : e.seq >= wrapper.first}
           IN shown' = {e \in made : e.command[1] # "login"}]_traceVars
  BY <1>1
<1> QED
  BY <1>2, TraceInvHolds, PTL DEF TraceSpec, ShownIsTheCommand

-----------------------------------------------------------------------------
\* The line editor.

LEMMA LineIsBytes == \A s : s \in Line <=> s \in Seq(Byte) /\ Len(s) <= MaxLine
<1>1. ASSUME NEW s \in Line PROVE s \in Seq(Byte) /\ Len(s) <= MaxLine
  <2>1. PICK n \in 0..MaxLine : s \in [1..n -> Byte]
    BY <1>1 DEF Line
  <2>2. n \in Nat
    BY <2>1, EditorAssumption
  <2> QED
    BY <2>1, <2>2, EditorAssumption
<1>2. ASSUME NEW s, s \in Seq(Byte), Len(s) <= MaxLine PROVE s \in Line
  <2>1. s \in [1..Len(s) -> Byte] /\ Len(s) \in 0..MaxLine
    BY <1>2, LenProperties, EditorAssumption
  <2> QED
    BY <2>1 DEF Line
<1> QED
  BY <1>1, <1>2

LEMMA Cut ==
    ASSUME NEW S, NEW s \in Seq(S), NEW n \in 0..Len(s)
    PROVE  /\ SubSeq(s, 1, n) \in Seq(S) /\ Len(SubSeq(s, 1, n)) = n
           /\ SubSeq(s, n + 1, Len(s)) \in Seq(S)
           /\ Len(SubSeq(s, n + 1, Len(s))) = Len(s) - n
OBVIOUS

\* What a concatenation holds of its two parts.
LEMMA Parts ==
    ASSUME NEW S, NEW s \in Seq(S), NEW t \in Seq(S)
    PROVE  /\ SubSeq(s \o t, 1, Len(s)) = s
           /\ \A n \in 0..Len(t) : SubSeq(s \o t, Len(s) + 1, Len(s) + n) = SubSeq(t, 1, n)
<1>1. Len(s) \in Nat /\ Len(t) \in Nat
  BY LenProperties
<1>2. SubSeq(s \o t, 1, Len(s)) = s
  <2>1. CASE Len(s) = 0
    <3>1. SubSeq(s \o t, 1, Len(s)) = <<>>
      BY <2>1, SubSeqEmpty
    <3>2. s = <<>>
      BY <2>1, EmptySeq
    <3> QED
      BY <3>1, <3>2
  <2>2. CASE Len(s) # 0
    <3>1. 1 \in 1..Len(s) /\ Len(s) \in 1..Len(s)
      BY <2>2, <1>1
    <3>2. SubSeq(s \o t, 1, Len(s)) = SubSeq(s, 1, Len(s))
      BY <3>1, SubSeqOfConcat1
    <3> QED
      BY <3>2, SubSeqFull
  <2> QED
    BY <2>1, <2>2
<1>3. ASSUME NEW n \in 0..Len(t) PROVE SubSeq(s \o t, Len(s) + 1, Len(s) + n) = SubSeq(t, 1, n)
  <2>1. CASE n = 0
    <3>1. Len(s) + 1 \in Int /\ Len(s) + n \in Int /\ Len(s) + n < Len(s) + 1 /\ n < 1 /\ n \in Int
      BY <2>1, <1>1
    <3>2. SubSeq(s \o t, Len(s) + 1, Len(s) + n) = <<>>
      BY <3>1, SubSeqEmpty
    <3>3. SubSeq(t, 1, n) = <<>>
      BY <3>1, SubSeqEmpty
    <3> QED
      BY <3>2, <3>3
  <2>2. CASE n # 0
    <3>1. /\ Len(s) + 1 \in Len(s) + 1..Len(s) + Len(t) /\ Len(s) + n \in Len(s) + 1..Len(s) + Len(t)
          /\ (Len(s) + 1) - Len(s) = 1 /\ (Len(s) + n) - Len(s) = n
      BY <2>2, <1>1
    <3> QED
      BY <3>1, SubSeqOfConcat2
  <2> QED
    BY <2>1, <2>2
<1> QED
  BY <1>2, <1>3

\* What a text holds that was put between two others.
LEMMA Between ==
    ASSUME NEW S, NEW front \in Seq(S), NEW text \in Seq(S), NEW back \in Seq(S),
           NEW r, r = front \o text \o back
    PROVE  /\ r \in Seq(S)
           /\ Len(r) = Len(front) + Len(text) + Len(back)
           /\ SubSeq(r, 1, Len(front)) = front
           /\ SubSeq(r, Len(front) + 1, Len(front) + Len(text)) = text
<1> DEFINE rest == text \o back
<1>1. (front \o text) \o back = r
  OBVIOUS
<1>2. r = front \o rest
  <2>1. front \in Seq(S) /\ text \in Seq(S) /\ back \in Seq(S)
    OBVIOUS
  <2>2. (front \o text) \o back = front \o (text \o back)
    BY ONLY <2>1, ConcatAssociative
  <2> QED
    BY <1>1, <2>2
<1>3. rest \in Seq(S) /\ Len(rest) = Len(text) + Len(back)
  BY ConcatProperties
<1>4. SubSeq(rest, 1, Len(text)) = text
  BY Parts
<1> HIDE DEF rest
<1>5. r \in Seq(S) /\ Len(r) = Len(front) + Len(rest)
  BY <1>2, <1>3, ConcatProperties
<1>6. Len(text) \in Nat /\ Len(front) \in Nat /\ Len(back) \in Nat
  BY LenProperties
<1>7. Len(text) \in 0..Len(rest)
  BY <1>3, <1>6
<1>8. SubSeq(r, 1, Len(front)) = front
  BY <1>2, <1>3, Parts
<1>9. SubSeq(r, Len(front) + 1, Len(front) + Len(text)) = SubSeq(rest, 1, Len(text))
  BY <1>2, <1>3, <1>7, Parts, SMTT(30)
<1> QED
  BY <1>3, <1>4, <1>5, <1>6, <1>8, <1>9

-----------------------------------------------------------------------------
\* Completion offers words.
LEMMA TokenStartBound ==
    ASSUME cursor \in Nat, line \in Seq(Byte), cursor <= Len(line)
    PROVE  TokenStart \in 0..cursor
<1> DEFINE blanks == {i \in 1..cursor : line[i] = Blank}
           later == {cursor - i : i \in blanks}
<1>1. CASE blanks = {}
  BY <1>1 DEF TokenStart
<1>2. CASE blanks # {}
  <2>1. later \subseteq Nat /\ later # {}
    BY <1>2
  <2>2. PICK n \in later : \A m \in later : n <= m
    <3> HIDE DEF later
    <3> QED
      BY <2>1, LeastElement
  <2>3. PICK i \in blanks : n = cursor - i
    BY <2>2
  <2>4. \A j \in blanks : j <= i
    <3> SUFFICES ASSUME NEW j \in blanks PROVE j <= i
      OBVIOUS
    <3>1. cursor - j \in later
      OBVIOUS
    <3>2. cursor - i <= cursor - j
      BY <3>1, <2>2, <2>3
    <3> QED
      BY <3>2
  <2> DEFINE last == CHOOSE x \in blanks : \A j \in blanks : j <= x
  <2>5. last \in blanks
    BY <2>4
  <2>6. TokenStart = last
    BY <1>2 DEF TokenStart
  <2> QED
    BY <2>5, <2>6
<1> QED
  BY <1>1, <1>2

LEMMA MatchesAreLines ==
    ASSUME cursor \in Nat, line \in Seq(Byte), cursor <= Len(line)
    PROVE  Matches \in Seq(Seq(Byte))
<1> DEFINE k == Len(Word)
           Words == Seq(Seq(Byte))
           token == SubSeq(line, TokenStart + 1, cursor)
           begins(w) == Len(w) >= Len(token) /\ SubSeq(w, 1, Len(token)) = token
           with(s, n) == IF begins(Word[n]) THEN Append(s, Word[n]) ELSE s
           step == [n \in 0..k |-> [s \in Words |-> IF n = 0 THEN s ELSE with(s, n)]]
           Equal(f) == f = [n \in 0..k |-> IF n = 0 THEN <<>> ELSE with(f[n - 1], n)]
           chosen == CHOOSE f : Equal(f)
<1>1. k \in Nat /\ \A n \in 1..k : Word[n] \in Seq(Byte)
  BY EditorAssumption, LenProperties, ElementOfSeq
<1>2. \A s \in Words, n \in 1..k : with(s, n) \in Words
  <2> HIDE DEF begins
  <2> QED
    BY <1>1, AppendProperties
<1>3. Matches = chosen[k]
  BY Zenon DEF Matches
<1> HIDE DEF with, k
<1>4. step \in [0..k -> [Words -> Words]] /\ <<>> \in Words
  BY <1>1, <1>2
<1>5. PICK f \in [0..k -> Words] : Iterates(f, k, <<>>, step)
  <2> HIDE DEF step, Words
  <2> QED
    BY <1>1, <1>4, UpToRecursion
<1>6. \A n \in 0..k : f[n] = IF n = 0 THEN <<>> ELSE with(f[n - 1], n)
  <2> SUFFICES ASSUME NEW n \in 1..k PROVE f[n] = with(f[n - 1], n)
    BY <1>1, <1>5 DEF Iterates
  <2>1. f[n] = step[n][f[n - 1]] /\ n \in 0..k /\ n - 1 \in 0..k /\ n # 0
    <3> HIDE DEF step
    <3> QED
      BY <1>1, <1>5 DEF Iterates
  <2> QED
    BY <2>1, <1>5
<1>7. Equal(f)
  BY <1>6
<1>8. Equal(chosen)
  <2> HIDE DEF Equal
  <2> QED
    BY <1>7
<1> DEFINE T == {n \in 0..k : chosen[n] \in Words}
<1> HIDE DEF chosen
<1>9. 0 \in T
  BY <1>1, <1>4, <1>8
<1>10. ASSUME NEW n \in 0..k, n < k, n \in T PROVE n + 1 \in T
  <2>1. PICK m \in 1..k : m = n + 1 /\ m \in 0..k /\ m # 0 /\ m - 1 = n
    BY <1>1, <1>10
  <2>2. chosen[m] = with(chosen[n], m)
    BY <2>1, <1>8
  <2> QED
    BY <2>1, <2>2, <1>2, <1>10
<1>11. k \in T
  <2> HIDE DEF T
  <2>1. 0..k \subseteq T
    BY <1>1, <1>9, <1>10, UpToInduction
  <2> QED
    BY <2>1, <1>1
<1> QED
  BY <1>3, <1>11

-----------------------------------------------------------------------------
\* The editor's invariant: lines are sequences of bytes within the bound, the
\* candidates and the place they were taken for are typed, and the ghost is what
\* Down would bring back.

LinesTyped ==
    /\ line \in Seq(Byte) /\ draft \in Seq(Byte) /\ bottom \in Seq(Byte)
    /\ Len(line) <= MaxLine /\ Len(draft) <= MaxLine /\ Len(bottom) <= MaxLine
    /\ cursor \in 0..Len(line)

HistoryTyped ==
    /\ history \in Seq(Line) /\ Len(history) <= HistoryLimit
    /\ historyIndex \in 0..Len(history)

TabTyped ==
    /\ tab \in [candidates : Seq(Seq(Byte)), start : Nat, prefix : Seq(Byte), index : Nat]
    /\ tab.candidates # <<>> => tab.index < Len(tab.candidates)

BottomBelow == bottom = IF historyIndex = Len(history) THEN line ELSE draft

EditorInv == LinesTyped /\ HistoryTyped /\ TabTyped /\ TabReplacesCandidate /\ BottomBelow

LEMMA EditorInvInit == EditorInit => EditorInv
<1> SUFFICES ASSUME EditorInit PROVE EditorInv
  OBVIOUS
<1>1. LinesTyped /\ HistoryTyped
  BY EditorAssumption DEF EditorInit, LinesTyped, HistoryTyped
<1>2. TabTyped /\ TabReplacesCandidate
  BY DEF EditorInit, NoTab, TabTyped, TabReplacesCandidate
<1> QED
  BY <1>1, <1>2 DEF EditorInit, EditorInv, BottomBelow

\* What an edit leaves alone keeps its type.
LEMMA EditKeeps ==
    ASSUME EditorInv, NEW text \in Seq(Byte), NEW place \in 0..Len(text), Edit(text, place),
           bottom' = IF historyIndex' = Len(history') THEN line' ELSE bottom
    PROVE  LinesTyped' /\ HistoryTyped' /\ BottomBelow'
BY DEF EditorInv, LinesTyped, HistoryTyped, BottomBelow, Edit

LEMMA OtherKeyForgets ==
    ASSUME EditorInv, OtherKey
    PROVE  TabTyped' /\ TabReplacesCandidate'
<1>1. tab' \in [candidates : Seq(Seq(Byte)), start : Nat, prefix : Seq(Byte), index : Nat]
  <2>1. <<>> \in Seq(Seq(Byte))
    BY EmptySeq
  <2> QED
    BY <2>1 DEF EditorInv, TabTyped, OtherKey
<1>2. tab'.candidates = <<>>
  BY DEF EditorInv, TabTyped, OtherKey
<1> QED
  BY <1>1, <1>2 DEF TabTyped, TabReplacesCandidate

LEMMA ReplacedParts ==
    ASSUME LinesTyped, NEW start \in 0..Len(line), NEW end \in start..Len(line),
           NEW text \in Seq(Byte)
    PROVE  /\ Replaced(start, end, text) \in Seq(Byte)
           /\ Len(Replaced(start, end, text)) = start + Len(text) + (Len(line) - end)
           /\ SubSeq(Replaced(start, end, text), 1, start) = First(start)
           /\ SubSeq(Replaced(start, end, text), start + 1, start + Len(text)) = text
<1> DEFINE r == Replaced(start, end, text)
<1>1. line \in Seq(Byte) /\ Len(line) \in Nat
  BY DEF LinesTyped
<1>2. end \in 0..Len(line)
  BY <1>1
<1>3. First(start) \in Seq(Byte) /\ Len(First(start)) = start
  BY <1>1, Cut DEF First
<1>4. From(end) \in Seq(Byte) /\ Len(From(end)) = Len(line) - end
  BY <1>1, <1>2, Cut DEF From
<1> DEFINE front == First(start)
           back == From(end)
<1>5. r = front \o text \o back /\ front \in Seq(Byte) /\ back \in Seq(Byte)
  BY <1>3, <1>4 DEF Replaced
<1> HIDE DEF front, back, r
<1>6. /\ r \in Seq(Byte)
      /\ Len(r) = Len(front) + Len(text) + Len(back)
      /\ SubSeq(r, 1, Len(front)) = front
      /\ SubSeq(r, Len(front) + 1, Len(front) + Len(text)) = text
  BY <1>5, Between
<1>7. Len(front) = start /\ Len(back) = Len(line) - end /\ Len(text) \in Nat
  BY <1>3, <1>4 DEF front, back
<1> QED
  BY <1>1, <1>6, <1>7 DEF front, r

LEMMA EditorInvStep == EditorInv /\ EditorNext => EditorInv'
<1> SUFFICES ASSUME EditorInv, EditorNext PROVE EditorInv'
  OBVIOUS
<1>1. bottom' = IF historyIndex' = Len(history') THEN line' ELSE bottom
  BY DEF EditorNext
<1>2. /\ line \in Seq(Byte) /\ cursor \in 0..Len(line) /\ Len(line) \in Nat /\ cursor \in Nat
      /\ LinesTyped /\ HistoryTyped
  BY DEF EditorInv, LinesTyped
<1>3. ASSUME NEW text \in Seq(Byte), NEW place \in 0..Len(text), OtherKey, Edit(text, place)
      PROVE  EditorInv'
  BY <1>1, <1>3, EditKeeps, OtherKeyForgets DEF EditorInv
<1>4. ASSUME NEW start \in 0..cursor, NEW end \in cursor..Len(line), NEW text \in Seq(Byte),
             OtherKey, NEW place \in 0..start + Len(text), Edit(Replaced(start, end, text), place)
      PROVE  EditorInv'
  <2>1. start \in 0..Len(line) /\ end \in start..Len(line) /\ Len(text) \in Nat
    BY <1>2
  <2>2. Replaced(start, end, text) \in Seq(Byte)
        /\ Len(Replaced(start, end, text)) = start + Len(text) + (Len(line) - end)
    BY <1>2, <2>1, ReplacedParts
  <2>3. place \in 0..Len(Replaced(start, end, text))
    BY <1>2, <2>1, <2>2
  <2> QED
    BY <1>3, <1>4, <2>2, <2>3
<1>5. ASSUME NEW b \in Byte, Character(b) PROVE EditorInv'
  <2>1. <<b>> \in Seq(Byte) /\ Len(<<b>>) = 1 /\ cursor \in 0..cursor /\ cursor \in cursor..Len(line)
        /\ cursor + 1 \in 0..cursor + 1
    BY <1>2
  <2> QED
    BY <1>4, <1>5, <2>1 DEF Character
<1>6. CASE Backspace
  <2>1. <<>> \in Seq(Byte) /\ Len(<<>>) = 0 /\ cursor - 1 \in 0..cursor /\ cursor \in cursor..Len(line)
        /\ cursor - 1 \in 0..(cursor - 1) + 0
    BY <1>2, <1>6 DEF Backspace
  <2> QED
    BY <1>4, <1>6, <2>1 DEF Backspace
<1>7. CASE Delete
  <2>1. <<>> \in Seq(Byte) /\ Len(<<>>) = 0 /\ cursor \in 0..cursor /\ cursor + 1 \in cursor..Len(line)
        /\ cursor \in 0..cursor + 0
    BY <1>2, <1>7 DEF Delete
  <2> QED
    BY <1>4, <1>7, <2>1 DEF Delete
<1>8. CASE Left \/ Right
  <2>1. cursor > 0 => cursor - 1 \in 0..Len(line)
    BY <1>2
  <2>2. cursor < Len(line) => cursor + 1 \in 0..Len(line)
    BY <1>2
  <2> QED
    BY <1>2, <1>3, <1>8, <2>1, <2>2 DEF Left, Right
<1>9. CASE Ignored
  <2>1. LinesTyped' /\ HistoryTyped' /\ BottomBelow'
    BY <1>1, <1>9 DEF Ignored, EditorInv, LinesTyped, HistoryTyped, BottomBelow
  <2> QED
    BY <1>9, <2>1, OtherKeyForgets DEF EditorInv, Ignored
<1>10. CASE Up
  <2>1. historyIndex - 1 \in 0..Len(history) /\ historyIndex - 1 # Len(history)
        /\ (historyIndex - 1) + 1 \in 1..Len(history) /\ Len(history) \in Nat
    BY <1>10 DEF Up, EditorInv, HistoryTyped
  <2>2. history' = history /\ historyIndex' = historyIndex - 1
        /\ line' = history[(historyIndex - 1) + 1] /\ cursor' = Len(line')
    BY <1>10, <2>1 DEF Up, Show
  <2>3. line' \in Line
    BY <1>2, <2>1, <2>2, ElementOfSeq DEF HistoryTyped
  <2>4. line' \in Seq(Byte) /\ Len(line') <= MaxLine /\ Len(line') \in Nat
    BY <2>3, LineIsBytes
  <2>5. bottom' = bottom /\ bottom' = draft'
    BY <1>1, <1>10, <2>1, <2>2 DEF Up, EditorInv, BottomBelow
  <2>6. LinesTyped'
    BY <2>2, <2>4, <2>5, <1>2 DEF LinesTyped
  <2>7. HistoryTyped' /\ BottomBelow'
    BY <1>2, <2>1, <2>2, <2>5 DEF HistoryTyped, BottomBelow
  <2> QED
    BY <1>10, <2>6, <2>7, OtherKeyForgets DEF Up, EditorInv
<1>11. CASE Down
  <2>1. historyIndex + 1 \in 0..Len(history) /\ historyIndex + 1 \in 1..Len(history) /\ Len(history) \in Nat
        /\ historyIndex # Len(history)
    BY <1>11 DEF Down, EditorInv, HistoryTyped
  <2>2. history' = history /\ historyIndex' = historyIndex + 1 /\ draft' = draft /\ bottom = draft
        /\ line' = (IF historyIndex + 1 = Len(history) THEN draft ELSE history[(historyIndex + 1) + 1]) /\ cursor' = Len(line')
    BY <1>11, <2>1 DEF Down, Show, EditorInv, BottomBelow
  <2>3. line' \in Seq(Byte) /\ Len(line') <= MaxLine /\ Len(line') \in Nat
    <3>1. CASE historyIndex + 1 = Len(history)
      BY <1>2, <2>2, <3>1 DEF LinesTyped
    <3>2. CASE historyIndex + 1 # Len(history)
      <4>1. (historyIndex + 1) + 1 \in 1..Len(history)
        BY <2>1, <3>2
      <4>2. line' \in Line
        BY <1>2, <2>2, <3>2, <4>1, ElementOfSeq DEF HistoryTyped
      <4> QED
        BY <4>2, LineIsBytes
    <3> QED
      BY <3>1, <3>2
  <2>4. bottom' = bottom /\ (historyIndex' = Len(history') => line' = bottom)
    BY <1>1, <2>2
  <2>5. LinesTyped'
    BY <2>2, <2>3, <2>4, <1>2 DEF LinesTyped
  <2>6. HistoryTyped' /\ BottomBelow'
    BY <1>2, <2>1, <2>2, <2>4 DEF HistoryTyped, BottomBelow
  <2> QED
    BY <1>11, <2>5, <2>6, OtherKeyForgets DEF Down, EditorInv
<1>12. CASE Tab
  <2> DEFINE next == NextTab
  <2>1. tab' = next /\ tab' = NextTab
    BY <1>12 DEF Tab
  <2>2. ASSUME next.candidates # <<>>, next.index < Len(next.candidates),
               next.start \in 0..cursor, next.prefix = First(next.start),
               next \in [candidates : Seq(Seq(Byte)), start : Nat, prefix : Seq(Byte), index : Nat]
        PROVE  EditorInv'
    <3> DEFINE text == next.candidates[next.index + 1]
               whole == Replaced(next.start, cursor, text)
    <3> HIDE DEF next
    <3>1. next.index + 1 \in 1..Len(next.candidates)
      BY <2>2
    <3>2. text \in Seq(Byte) /\ Len(text) \in Nat
      BY <2>2, <3>1, ElementOfSeq, LenProperties
    <3>3. Edit(whole, next.start + Len(text))
      BY <1>12, <2>2 DEF Tab, next
    <3>4. next.start \in 0..Len(line) /\ cursor \in next.start..Len(line)
      BY <2>2, <1>2
    <3> HIDE DEF text, whole
    <3>5. /\ whole \in Seq(Byte)
          /\ Len(whole) = next.start + Len(text) + (Len(line) - cursor)
          /\ SubSeq(whole, 1, next.start) = First(next.start)
          /\ SubSeq(whole, next.start + 1, next.start + Len(text)) = text
      BY <1>2, <3>2, <3>4, ReplacedParts DEF whole
    <3>6. next.start + Len(text) \in 0..Len(whole)
      BY <1>2, <3>2, <3>4, <3>5
    <3>7. LinesTyped' /\ HistoryTyped' /\ BottomBelow'
      BY <1>1, <3>3, <3>5, <3>6, EditKeeps
    <3>8. TabTyped'
      BY <2>1, <2>2 DEF TabTyped
    <3>9. TabReplacesCandidate'
      <4>1. tab'.start = next.start /\ tab'.prefix = next.prefix
            /\ tab'.candidates[tab'.index + 1] = text /\ line' = whole /\ cursor' = next.start + Len(text)
        BY <2>1, <3>3 DEF Edit, text
      <4>2. SubSeq(line', 1, tab'.start) = tab'.prefix
        BY <2>2, <3>5, <4>1 DEF First
      <4>3. SubSeq(line', tab'.start + 1, cursor') = tab'.candidates[tab'.index + 1]
        BY <3>5, <4>1
      <4>4. tab'.start <= cursor'
        BY <2>2, <3>2, <4>1, <1>2
      <4> QED
        BY <4>2, <4>3, <4>4 DEF TabReplacesCandidate, First
    <3> QED
      BY <3>7, <3>8, <3>9 DEF EditorInv
  <2>3. CASE SameTabContext
    <3>1. next = [tab EXCEPT !.index = (tab.index + 1) % Len(tab.candidates)] /\ tab.candidates # <<>>
      BY <2>3 DEF NextTab, SameTabContext
    <3>2. tab \in [candidates : Seq(Seq(Byte)), start : Nat, prefix : Seq(Byte), index : Nat]
      BY DEF EditorInv, TabTyped
    <3>3. Len(tab.candidates) \in Nat \ {0}
      BY <3>1, <3>2, EmptySeq
    <3>4. PICK i \in Nat : i = (tab.index + 1) % Len(tab.candidates) /\ i < Len(tab.candidates)
      BY <3>2, <3>3
    <3> HIDE DEF next
    <3>5. /\ next \in [candidates : Seq(Seq(Byte)), start : Nat, prefix : Seq(Byte), index : Nat]
          /\ next.candidates = tab.candidates /\ next.start = tab.start /\ next.prefix = tab.prefix
          /\ next.index < Len(next.candidates)
      BY <3>1, <3>2, <3>3, <3>4
    <3>6. tab.start \in 0..cursor /\ First(tab.start) = tab.prefix
      BY <3>1, <3>2, <1>2 DEF EditorInv, TabReplacesCandidate
    <3> QED
      BY <2>2, <3>1, <3>5, <3>6
  <2>4. CASE ~SameTabContext
    <3>1. next = [candidates |-> Matches, start |-> TokenStart, prefix |-> First(TokenStart), index |-> 0]
      BY <2>4 DEF NextTab
    <3>2. TokenStart \in 0..cursor /\ Matches \in Seq(Seq(Byte))
      BY <1>2, TokenStartBound, MatchesAreLines
    <3>3. First(TokenStart) \in Seq(Byte)
      BY <1>2, <3>2, Cut DEF First
    <3> HIDE DEF next
    <3>4. /\ next \in [candidates : Seq(Seq(Byte)), start : Nat, prefix : Seq(Byte), index : Nat]
          /\ next.candidates = Matches /\ next.start = TokenStart /\ next.index = 0
          /\ next.prefix = First(TokenStart)
      BY <3>1, <3>2, <3>3
    <3>5. CASE Matches = <<>>
      <4>1. UNCHANGED <<line, cursor, history, historyIndex, draft>>
        BY <1>12, <3>4, <3>5 DEF Tab, next
      <4>2. LinesTyped' /\ HistoryTyped' /\ BottomBelow'
        BY <1>1, <4>1 DEF EditorInv, LinesTyped, HistoryTyped, BottomBelow
      <4>3. TabTyped' /\ TabReplacesCandidate'
        BY <2>1, <3>4, <3>5 DEF TabTyped, TabReplacesCandidate
      <4> QED
        BY <4>2, <4>3 DEF EditorInv
    <3>6. CASE Matches # <<>>
      <4>1. Len(Matches) \in Nat \ {0}
        BY <3>2, <3>6, EmptySeq
      <4> QED
        BY <2>2, <3>2, <3>4, <3>6, <4>1
    <3> QED
      BY <3>5, <3>6
  <2> QED
    BY <2>3, <2>4
<1>13. ASSUME NEW lines \in Seq(Line), Len(lines) <= HistoryLimit, NewLine(lines) PROVE EditorInv'
  <2>1. line' = <<>> /\ cursor' = 0 /\ draft' = <<>> /\ tab' = NoTab /\ history' = lines
        /\ historyIndex' = Len(lines) /\ bottom' = <<>> /\ Len(lines) \in Nat
    BY <1>1, <1>13 DEF NewLine
  <2>2. LinesTyped'
    BY <2>1, EditorAssumption DEF LinesTyped
  <2>3. HistoryTyped' /\ BottomBelow'
    BY <2>1, <1>13 DEF HistoryTyped, BottomBelow
  <2>4. TabTyped' /\ TabReplacesCandidate'
    BY <2>1 DEF NoTab, TabTyped, TabReplacesCandidate
  <2> QED
    BY <2>2, <2>3, <2>4 DEF EditorInv
<1>14. CASE EnterKey
  <2>1. Remembered \in Seq(Line) /\ Len(Remembered) <= HistoryLimit
    <3>1. line \in Line
      BY <1>2, LineIsBytes DEF LinesTyped
    <3> DEFINE longer == Append(history, line)
    <3>2. longer \in Seq(Line) /\ Len(longer) = Len(history) + 1 /\ longer # <<>> /\ Len(history) \in Nat
      BY <3>1, <1>2, AppendProperties DEF HistoryTyped
    <3> HIDE DEF longer
    <3>3. Tail(longer) \in Seq(Line) /\ Len(Tail(longer)) = Len(longer) - 1
      BY <3>2, HeadTailProperties
    <3>4. Kept(longer) \in Seq(Line) /\ Len(Kept(longer)) <= HistoryLimit
      BY <3>2, <3>3, <1>2, EditorAssumption DEF Kept, HistoryTyped
    <3> QED
      BY <3>4, <1>2 DEF Remembered, HistoryTyped, longer
  <2> QED
    BY <2>1, <1>13, <1>14 DEF EnterKey
<1>15. CASE CtrlC
  BY <1>2, <1>13, <1>15 DEF CtrlC, HistoryTyped
<1> QED
  BY <1>5, <1>6, <1>7, <1>8, <1>9, <1>10, <1>11, <1>12, <1>14, <1>15 DEF EditorNext, Keys

LEMMA EditorInvHolds == EditorSpec => []EditorInv
<1>1. EditorInv /\ UNCHANGED editorVars => EditorInv'
  BY DEF editorVars, EditorInv, LinesTyped, HistoryTyped, TabTyped, TabReplacesCandidate, BottomBelow, First
<1> QED
  BY <1>1, EditorInvInit, EditorInvStep, PTL DEF EditorSpec

\* Every state of the line editor has its types: lines stay within the bound, the
\* cursor within the line, the history within its limit.
THEOREM EditorTypeHolds == EditorSpec => []EditorTypeOK
<1>1. EditorInv => EditorTypeOK
  <2> SUFFICES ASSUME EditorInv PROVE EditorTypeOK
    OBVIOUS
  <2>1. \A i \in 1..Len(history) : history[i] \in Line
    BY ElementOfSeq DEF EditorInv, HistoryTyped
  <2> QED
    BY <2>1, LineIsBytes DEF EditorInv, LinesTyped, HistoryTyped, EditorTypeOK
<1> QED
  BY <1>1, EditorInvHolds, PTL

\* The next press of Tab replaces the candidate of the last one and nothing else.
THEOREM TabReplacesCandidateHolds == EditorSpec => []TabReplacesCandidate
<1>1. EditorInv => TabReplacesCandidate
  BY DEF EditorInv
<1> QED
  BY <1>1, EditorInvHolds, PTL

\* Down below the last line of the history shows what was being typed.
THEOREM DraftReturnsHolds == EditorSpec => DraftReturns
<1>1. ASSUME EditorInv, Down, historyIndex' = Len(history) PROVE line' = bottom
  BY <1>1 DEF EditorInv, HistoryTyped, BottomBelow, Down, Show
<1>2. EditorInv /\ [EditorNext]_editorVars
        => [Down /\ historyIndex' = Len(history) => line' = bottom]_editorVars
  BY <1>1 DEF editorVars
<1> QED
  BY <1>2, EditorInvHolds, PTL DEF EditorSpec, DraftReturns

-----------------------------------------------------------------------------
\* The tree of directories: every directory but the root is in one.

Typable == Name \cup {NoName, ".", ".."}

LEMMA DotsDiffer == NoName # "." /\ NoName # ".." /\ "." # ".."
  BY Zenon DEF NoName

LEMMA UpToSeq ==
    ASSUME NEW S, NEW k \in Nat, NEW s
    PROVE  s \in SeqsUpTo(S, k) <=> s \in Seq(S) /\ Len(s) <= k
<1>1. ASSUME s \in SeqsUpTo(S, k) PROVE s \in Seq(S) /\ Len(s) <= k
  <2>1. PICK n \in 0..k : s \in [1..n -> S]
    BY <1>1 DEF SeqsUpTo
  <2> QED
    BY <2>1
<1>2. ASSUME s \in Seq(S), Len(s) <= k PROVE s \in SeqsUpTo(S, k)
  <2>1. s \in [1..Len(s) -> S] /\ Len(s) \in 0..k
    BY <1>2, LenProperties
  <2> QED
    BY <2>1 DEF SeqsUpTo
<1> QED
  BY <1>1, <1>2

\* A canonical path is a short sequence of names.
LEMMA CanonicalIsNames == \A s : s \in Canonical <=> s \in Seq(Name) /\ Len(s) <= MaxDepth
  BY UpToSeq, SessionAssumption DEF Canonical

LEMMA PrefixOf ==
    ASSUME NEW S, NEW s \in Seq(S), NEW n \in 0..Len(s)
    PROVE  SubSeq(s, 1, n) \in Seq(S) /\ Len(SubSeq(s, 1, n)) = n /\ \A i \in 1..n : SubSeq(s, 1, n)[i] = s[i]
OBVIOUS

LEMMA FrontOf ==
    ASSUME NEW S, NEW s \in Seq(S), s # <<>>
    PROVE  /\ Front(s) \in Seq(S) /\ Len(Front(s)) = Len(s) - 1 /\ Len(s) \in Nat \ {0}
           /\ Append(Front(s), s[Len(s)]) = s
<1>1. Len(s) \in Nat \ {0} /\ Front(s) = SubSeq(s, 1, Len(s) - 1)
  BY EmptySeq DEF Front
<1>2. Front(s) \in Seq(S) /\ Len(Front(s)) = Len(s) - 1 /\ \A i \in 1..Len(s) - 1 : Front(s)[i] = s[i]
  <2>1. PICK n \in 0..Len(s) : n = Len(s) - 1
    BY <1>1
  <2>2. SubSeq(s, 1, n) \in Seq(S) /\ Len(SubSeq(s, 1, n)) = n /\ \A i \in 1..n : SubSeq(s, 1, n)[i] = s[i]
    BY <2>1, PrefixOf
  <2> QED
    BY <1>1, <2>1, <2>2
<1>3. s[Len(s)] \in S
  BY <1>1, ElementOfSeq
<1> DEFINE t == Append(Front(s), s[Len(s)])
<1>4. t \in Seq(S) /\ Len(t) = Len(s) /\ \A i \in 1..Len(s) : t[i] = s[i]
  BY <1>1, <1>2, <1>3, AppendProperties
<1>5. t = s
  <2> HIDE DEF t
  <2> QED
    BY <1>4, SeqEqual
<1> QED
  BY <1>1, <1>2, <1>5

LEMMA FrontOfAppend ==
    ASSUME NEW S, NEW s \in Seq(S), NEW e \in S
    PROVE  Append(s, e) \in Seq(S) /\ Append(s, e) # <<>> /\ Front(Append(s, e)) = s
<1> DEFINE t == Append(s, e)
<1>1. t \in Seq(S) /\ t # <<>> /\ Len(t) = Len(s) + 1 /\ Len(s) \in Nat /\ \A i \in 1..Len(s) : t[i] = s[i]
  BY AppendProperties, LenProperties
<1> HIDE DEF t
<1>2. Front(t) \in Seq(S) /\ Len(Front(t)) = Len(s) /\ \A i \in 1..Len(s) : Front(t)[i] = t[i]
  BY <1>1 DEF Front
<1>3. Front(t) = s
  BY <1>1, <1>2, SeqEqual
<1> QED
  BY <1>1, <1>3 DEF t

TreeClosed == \A p \in dirs : p \in Canonical /\ (p # <<>> => Front(p) \in dirs)
AtWork     == \A t \in Terminal : LoggedIn(t) => Base(t) \in Canonical

SessionInv ==
    /\ SessionTypeOK
    /\ <<>> \in dirs
    /\ TreeClosed
    /\ AtWork

-----------------------------------------------------------------------------
\* What pathParts makes of a typed path, component after component.

LEMMA DescendCases ==
    ASSUME NEW out \in Seq(Name), NEW name \in Typable
    PROVE  /\ Descend(out, name) \in Seq(Name)
           /\ name \in {NoName, "."} => Descend(out, name) = out
           /\ name = ".." => Descend(out, name) = IF out = <<>> THEN out ELSE Front(out)
           /\ name \in Name => Descend(out, name) = Append(out, name)
           /\ name \in Name <=> name \notin {NoName, ".", ".."}
<1>1. name \in Name <=> name \notin {NoName, ".", ".."}
  BY SessionAssumption DEF Typable
<1>2. CASE name \in {NoName, "."}
  BY <1>1, <1>2, DotsDiffer DEF Descend
<1>3. CASE name = ".."
  <2>1. Descend(out, name) = IF out = <<>> THEN out ELSE Front(out)
    BY <1>3, DotsDiffer DEF Descend
  <2> QED
    BY <1>1, <1>3, <2>1, FrontOf, DotsDiffer
<1>4. CASE name \in Name
  <2>1. Descend(out, name) = Append(out, name)
    BY <1>1, <1>4 DEF Descend
  <2> QED
    BY <1>1, <1>4, <2>1, AppendProperties
<1> QED
  BY <1>1, <1>2, <1>3, <1>4 DEF Typable

\* out is what pathParts has after each component of parts.
Parses(out, parts) ==
    /\ out \in [0..Len(parts) -> Seq(Name)]
    /\ out[0] = <<>>
    /\ \A n \in 1..Len(parts) : out[n] = Descend(out[n - 1], parts[n])

LEMMA PathPartsIsLast ==
    ASSUME NEW parts \in Seq(Typable)
    PROVE  \E out : Parses(out, parts) /\ PathParts(parts) = out[Len(parts)]
<1> DEFINE k == Len(parts)
           Names == Seq(Name)
           step == [n \in 0..k |-> [s \in Names |-> IF n = 0 THEN s ELSE Descend(s, parts[n])]]
           Equal(f) == f = [n \in 0..k |-> IF n = 0 THEN <<>> ELSE Descend(f[n - 1], parts[n])]
           chosen == CHOOSE f : Equal(f)
<1>1. k \in Nat /\ \A n \in 1..k : parts[n] \in Typable
  BY LenProperties, ElementOfSeq
<1>2. \A s \in Names, n \in 1..k : Descend(s, parts[n]) \in Names
  BY <1>1, DescendCases
<1>3. PathParts(parts) = chosen[k]
  BY Zenon DEF PathParts
<1> HIDE DEF k
<1>4. step \in [0..k -> [Names -> Names]] /\ <<>> \in Names
  BY <1>1, <1>2
<1>5. PICK f \in [0..k -> Names] : Iterates(f, k, <<>>, step)
  <2> HIDE DEF step, Names
  <2> QED
    BY <1>1, <1>4, UpToRecursion
<1>6. \A n \in 0..k : f[n] = IF n = 0 THEN <<>> ELSE Descend(f[n - 1], parts[n])
  <2> SUFFICES ASSUME NEW n \in 1..k PROVE f[n] = Descend(f[n - 1], parts[n])
    BY <1>1, <1>5 DEF Iterates
  <2>1. f[n] = step[n][f[n - 1]] /\ n \in 0..k /\ n - 1 \in 0..k /\ n # 0
    <3> HIDE DEF step
    <3> QED
      BY <1>1, <1>5 DEF Iterates
  <2> QED
    BY <2>1, <1>5
<1>7. Equal(f)
  BY <1>6
<1>8. Equal(chosen)
  <2> HIDE DEF Equal
  <2> QED
    BY <1>7
<1> DEFINE T == {n \in 0..k : chosen[n] \in Names}
<1> HIDE DEF chosen
<1>9. 0 \in T
  BY <1>1, <1>4, <1>8
<1>10. ASSUME NEW n \in 1..k PROVE chosen[n] = Descend(chosen[n - 1], parts[n])
  <2>1. n \in 0..k /\ n # 0
    BY <1>1
  <2> QED
    BY <2>1, <1>8
<1>11. ASSUME NEW n \in 0..k, n < k, n \in T PROVE n + 1 \in T
  <2>1. PICK m \in 1..k : m = n + 1 /\ m \in 0..k /\ m # 0 /\ m - 1 = n
    BY <1>1, <1>11
  <2>2. chosen[m] = Descend(chosen[n], parts[m])
    BY <2>1, <1>10
  <2> QED
    BY <2>1, <2>2, <1>2, <1>11
<1>12. \A n \in 0..k : chosen[n] \in Names
  <2>1. 0..k \subseteq T
    <3> HIDE DEF T
    <3> QED
      BY <1>1, <1>9, <1>11, UpToInduction
  <2> QED
    BY <2>1
<1>13. chosen \in [0..k -> Names] /\ chosen[0] = <<>>
  BY <1>8, <1>12, <1>1
<1>14. Parses(chosen, parts)
  BY <1>10, <1>13 DEF Parses, k
<1> QED
  BY <1>3, <1>14 DEF k

\* A canonical path is what pathParts makes of it.
LEMMA CanonicalStays ==
    ASSUME NEW base \in Seq(Name), NEW parts \in Seq(Typable), NEW out, Parses(out, base \o parts)
    PROVE  /\ base \o parts \in Seq(Typable)
           /\ Len(base \o parts) = Len(base) + Len(parts)
           /\ out[Len(base)] = base
           /\ \A n \in 1..Len(parts) : out[Len(base) + n] = Descend(out[Len(base) + (n - 1)], parts[n])
<1> DEFINE whole == base \o parts
           k == Len(base)
           T == {n \in 0..k : out[n] = SubSeq(base, 1, n)}
<1>1. base \in Seq(Typable) /\ k \in Nat /\ Len(parts) \in Nat
  BY SeqMonotonic, LenProperties DEF Typable
<1>2. /\ whole \in Seq(Typable) /\ Len(whole) = k + Len(parts)
      /\ \A i \in 1..k + Len(parts) : whole[i] = IF i <= k THEN base[i] ELSE parts[i - k]
  BY <1>1, ConcatProperties
<1> HIDE DEF whole
<1>3. out[0] = <<>> /\ \A n \in 1..k + Len(parts) : out[n] = Descend(out[n - 1], whole[n])
  BY <1>2 DEF Parses, whole
<1>4. 0 \in T
  <2>1. SubSeq(base, 1, 0) = <<>>
    BY SubSeqEmpty
  <2>2. 0 \in 0..k
    BY <1>1
  <2>3. out[0] = SubSeq(base, 1, 0)
    BY Zenon, <1>3, <2>1
  <2> QED
    BY <2>2, <2>3
<1>5. ASSUME NEW n \in 0..k, n < k, n \in T PROVE n + 1 \in T
  <2>1. PICK m \in 1..k : m = n + 1 /\ m \in 0..k /\ m - 1 = n /\ m \in 1..k + Len(parts) /\ m <= k
    BY <1>1, <1>5
  <2>2. out[m] = Descend(SubSeq(base, 1, n), base[m])
    BY <2>1, <1>2, <1>3, <1>5
  <2>3. base[m] \in Name /\ SubSeq(base, 1, n) \in Seq(Name) /\ base[m] \in Typable
    BY <2>1, ElementOfSeq, PrefixOf DEF Typable
  <2>4. out[m] = Append(SubSeq(base, 1, n), base[m])
    BY <2>2, <2>3, DescendCases
  <2> DEFINE p == SubSeq(base, 1, m)
             q == SubSeq(base, 1, n)
  <2>5. p \in Seq(Name) /\ Len(p) = m /\ \A i \in 1..m : p[i] = base[i]
    BY <2>1, PrefixOf
  <2>6. q \in Seq(Name) /\ Len(q) = n /\ \A i \in 1..n : q[i] = base[i]
    BY PrefixOf
  <2> HIDE DEF p, q
  <2> DEFINE r == Append(q, base[m])
  <2>7. r \in Seq(Name) /\ Len(r) = m /\ \A i \in 1..n : r[i] = q[i] /\ r[m] = base[m]
    BY <2>1, <2>3, <2>6, AppendProperties
  <2>8. r[m] = base[m]
    BY <2>1, <2>3, <2>6, AppendProperties
  <2> HIDE DEF r
  <2>9. \A i \in 1..m : r[i] = base[i]
    BY <2>1, <2>6, <2>7, <2>8
  <2>10. r = p
    BY <2>5, <2>7, <2>9, SeqEqual
  <2> QED
    BY <2>1, <2>4, <2>10 DEF p, q, r
<1>6. out[k] = base
  <2>1. 0..k \subseteq T
    <3> HIDE DEF T
    <3> QED
      BY <1>1, <1>4, <1>5, UpToInduction
  <2>2. out[k] = SubSeq(base, 1, k)
    BY <2>1, <1>1
  <2> QED
    BY <2>2, SubSeqFull
<1>7. ASSUME NEW n \in 1..Len(parts) PROVE out[k + n] = Descend(out[k + (n - 1)], parts[n])
  <2>1. PICK m \in 1..k + Len(parts) : m = k + n /\ ~(m <= k) /\ m - k = n /\ m - 1 = k + (n - 1)
    BY <1>1
  <2> QED
    BY <2>1, <1>2, <1>3
<1> QED
  BY <1>2, <1>6, <1>7 DEF whole

\* Where a typed path starts, and the part of pathParts' work that begins there.
Origin(t, path) == IF path.absolute THEN <<>> ELSE Base(t)

ParsesFrom(at, start, parts) ==
    /\ at \in [0..Len(parts) -> Seq(Name)]
    /\ at[0] = start
    /\ \A n \in 1..Len(parts) : at[n] = Descend(at[n - 1], parts[n])

LEMMA CanonicalizeIsLast ==
    ASSUME NEW t \in Terminal, NEW path \in TypedPaths, LoggedIn(t), AtWork
    PROVE  /\ path.parts \in Seq(Typable) /\ Origin(t, path) \in Seq(Name)
           /\ \E at : /\ ParsesFrom(at, Origin(t, path), path.parts)
                      /\ Canonicalize(t, path) = at[Len(path.parts)]
<1> DEFINE parts == path.parts
           base == Origin(t, path)
           k == Len(base)
<1>1. parts \in Seq(Typable) /\ Len(parts) \in Nat
  BY UpToSeq, SessionAssumption, LenProperties DEF TypedPaths, Typable
<1>2. base \in Seq(Name) /\ k \in Nat
  BY CanonicalIsNames, LenProperties DEF AtWork, Origin
<1>3. Canonicalize(t, path) = PathParts(base \o parts)
  <2>1. CASE path.absolute
    BY <2>1, <1>1, ConcatEmptySeq DEF Canonicalize, Origin
  <2>2. CASE ~path.absolute
    BY <2>2 DEF Canonicalize, Origin
  <2> QED
    BY <2>1, <2>2
<1> HIDE DEF parts, base
<1>4. base \o parts \in Seq(Typable) /\ Len(base \o parts) = k + Len(parts)
  <2>1. base \in Seq(Typable)
    BY <1>2, SeqMonotonic DEF Typable
  <2> QED
    BY <2>1, <1>1, ConcatProperties
<1>5. PICK out : Parses(out, base \o parts) /\ PathParts(base \o parts) = out[Len(base \o parts)]
  BY <1>4, PathPartsIsLast
<1>6. /\ out[k] = base
      /\ \A n \in 1..Len(parts) : out[k + n] = Descend(out[k + (n - 1)], parts[n])
  BY <1>1, <1>2, <1>5, CanonicalStays
<1> DEFINE at == [n \in 0..Len(parts) |-> out[k + n]]
<1>7. at \in [0..Len(parts) -> Seq(Name)]
  <2>1. \A n \in 0..Len(parts) : k + n \in 0..k + Len(parts)
    BY <1>1, <1>2
  <2>2. \A n \in 0..k + Len(parts) : out[n] \in Seq(Name)
    BY <1>4, <1>5 DEF Parses
  <2> QED
    BY <2>1, <2>2
<1>8. at[0] = base
  BY <1>1, <1>2, <1>6
<1>9. ASSUME NEW n \in 1..Len(parts) PROVE at[n] = Descend(at[n - 1], parts[n])
  <2>1. n \in 0..Len(parts) /\ n - 1 \in 0..Len(parts)
    BY <1>1
  <2> QED
    BY <2>1, <1>6
<1>10. Canonicalize(t, path) = at[Len(parts)]
  BY <1>1, <1>3, <1>4, <1>5
<1> HIDE DEF at
<1>11. ParsesFrom(at, base, parts)
  BY <1>7, <1>8, <1>9 DEF ParsesFrom
<1> QED
  BY <1>1, <1>2, <1>10, <1>11 DEF parts, base

LEMMA FreshTree ==
    FreshDirs \subseteq Canonical /\ <<>> \in FreshDirs
    /\ \A p \in FreshDirs : p # <<>> => Front(p) \in FreshDirs
<1>1. <<>> \in Canonical
  <2>1. PICK s \in Seq(Name) : s = <<>> /\ Len(s) = 0
    BY Zenon, EmptySeq
  <2>2. Len(s) <= MaxDepth
    BY <2>1, SessionAssumption
  <2>3. s \in Canonical
    BY <2>2, CanonicalIsNames
  <2> QED
    BY <2>1, <2>3
<1>2. ASSUME NEW u \in User, NEW n \in 0..Len(Home[u])
      PROVE  /\ SubSeq(Home[u], 1, n) \in Canonical
             /\ n # 0 => /\ Front(SubSeq(Home[u], 1, n)) = SubSeq(Home[u], 1, n - 1)
                         /\ n - 1 \in 0..Len(Home[u])
             /\ n = 0 => SubSeq(Home[u], 1, n) = <<>>
  <2> DEFINE h == Home[u]
             p == SubSeq(h, 1, n)
  <2>1. h \in Seq(Name) /\ Len(h) <= MaxDepth /\ Len(h) \in Nat /\ MaxDepth \in Nat
    BY CanonicalIsNames, SessionAssumption, LenProperties
  <2> HIDE DEF h
  <2>2. p \in Seq(Name) /\ Len(p) = n /\ \A i \in 1..n : p[i] = h[i]
    BY <2>1 DEF h
  <2>3. p \in Canonical
    <3>1. n <= MaxDepth
      BY <2>1 DEF h
    <3> HIDE DEF p
    <3> QED
      BY <3>1, <2>2, CanonicalIsNames
  <2>4. ASSUME n # 0 PROVE Front(p) = SubSeq(h, 1, n - 1) /\ n - 1 \in 0..Len(h)
    <3> DEFINE q == SubSeq(h, 1, n - 1)
    <3>1. q \in Seq(Name) /\ Len(q) = n - 1 /\ (\A i \in 1..n - 1 : q[i] = h[i]) /\ n - 1 \in 0..Len(h)
      BY <2>1, <2>4 DEF h
    <3> HIDE DEF p, q
    <3>2. Front(p) \in Seq(Name) /\ Len(Front(p)) = n - 1 /\ \A i \in 1..n - 1 : Front(p)[i] = p[i]
      BY <2>2, <2>4 DEF Front
    <3>3. Front(p) = q
      BY <2>2, <3>1, <3>2, SeqEqual
    <3> QED
      BY <3>1, <3>3 DEF q
  <2>5. n = 0 => p = <<>>
    BY <2>2, EmptySeq
  <2> QED
    BY <2>3, <2>4, <2>5 DEF h
<1>3. ASSUME NEW p \in FreshDirs PROVE p \in Canonical /\ (p # <<>> => Front(p) \in FreshDirs)
  <2>1. CASE p = <<>>
    BY <2>1, <1>1
  <2>2. CASE p # <<>>
    <3>1. PICK u \in User : p \in {SubSeq(Home[u], 1, n) : n \in 0..Len(Home[u])}
      BY <2>2 DEF FreshDirs
    <3>2. PICK n \in 0..Len(Home[u]) : p = SubSeq(Home[u], 1, n)
      BY <3>1
    <3>3. p \in Canonical /\ n # 0
      BY <3>2, <1>2, <2>2
    <3>4. Front(p) = SubSeq(Home[u], 1, n - 1) /\ n - 1 \in 0..Len(Home[u])
      BY <3>2, <3>3, <1>2
    <3> QED
      BY <3>3, <3>4 DEF FreshDirs
  <2> QED
    BY <2>1, <2>2
<1> QED
  BY <1>3 DEF FreshDirs

LEMMA SessionInvInit == SessionInit => SessionInv
<1> SUFFICES ASSUME SessionInit PROVE SessionInv
  OBVIOUS
<1>1. dirs = FreshDirs
  BY DEF SessionInit
<1>2. SessionTypeOK /\ AtWork
  BY <1>1, FreshTree DEF SessionInit, SessionTypeOK, AtWork, LoggedIn
<1> QED
  BY <1>1, <1>2, FreshTree DEF SessionInv, TreeClosed

LEMMA SessionInvStep == SessionInv /\ [SessionNext]_sessionVars => SessionInv'
<1> SUFFICES ASSUME SessionInv, [SessionNext]_sessionVars PROVE SessionInv'
  OBVIOUS
<1> USE DEF SessionInv
<1>1. ASSUME NEW t \in Terminal, NEW u \in User, LogIn(t, u) PROVE SessionInv'
  <2>1. SessionTypeOK'
    BY <1>1, SessionAssumption DEF LogIn, SessionTypeOK
  <2>2. ASSUME NEW o \in Terminal, active'[o] # NoUser PROVE cwd'[o][active'[o]] \in Canonical
    <3>1. CASE o = t
      <4>1. active'[o] = u /\ cwd'[o][u] = IF cwd[t][u] = NoSession THEN Home[u] ELSE cwd[t][u]
        BY <1>1, <3>1 DEF LogIn, SessionTypeOK
      <4>2. cwd[t][u] \in Canonical \cup {NoSession} /\ Home[u] \in Canonical
        BY SessionAssumption DEF SessionTypeOK
      <4>3. cwd'[o][u] \in Canonical
        BY <4>1, <4>2
      <4> QED
        BY <4>1, <4>3
    <3>2. CASE o # t
      <4>1. active'[o] = active[o] /\ cwd'[o] = cwd[o]
        BY <1>1, <3>2 DEF LogIn, SessionTypeOK
      <4>2. active[o] # NoUser => cwd[o][active[o]] \in Canonical
        BY DEF AtWork, LoggedIn, Base
      <4> QED
        BY ONLY <2>2, <4>1, <4>2
    <3> QED
      BY <3>1, <3>2
  <2>3. AtWork'
    BY <2>2 DEF AtWork, LoggedIn, Base
  <2> QED
    BY <1>1, <2>1, <2>3 DEF LogIn, TreeClosed
<1>2. ASSUME NEW t \in Terminal, LogOut(t) PROVE SessionInv'
  BY <1>2 DEF LogOut, SessionTypeOK, AtWork, LoggedIn, Base, TreeClosed
<1>3. ASSUME NEW t \in Terminal, Format(t) PROVE SessionInv'
  <2>1. SessionTypeOK'
    BY <1>3, FreshTree DEF Format, SessionTypeOK
  <2>2. AtWork'
    BY <1>3 DEF Format, SessionTypeOK, AtWork, LoggedIn, Base
  <2> QED
    BY <1>3, <2>1, <2>2, FreshTree DEF Format, TreeClosed
<1>4. ASSUME NEW t \in Terminal, NEW path \in TypedPaths, Chdir(t, path) PROVE SessionInv'
  <2>1. Canonicalize(t, path) \in Canonical
    BY <1>4 DEF Chdir, Resolves, SessionTypeOK
  <2> HIDE DEF SessionInv
  <2>2. SessionTypeOK'
    BY <1>4, <2>1 DEF Chdir, SessionTypeOK, SessionInv, LoggedIn
  <2>3. AtWork'
    BY <1>4, <2>1 DEF Chdir, SessionTypeOK, AtWork, LoggedIn, Base, SessionInv
  <2> QED
    BY <1>4, <2>2, <2>3 DEF Chdir, TreeClosed, SessionInv
<1>5. ASSUME NEW t \in Terminal, NEW path \in TypedPaths, Mkdir(t, path) PROVE SessionInv'
  <2> DEFINE p == Canonicalize(t, path)
  <2>1. p # <<>> /\ Front(p) \in dirs /\ Len(p) <= MaxDepth /\ dirs' = dirs \cup {p}
        /\ active' = active /\ cwd' = cwd
    BY <1>5 DEF Mkdir, Creatable
  <2>2. p \in Canonical
    <3>1. p \in Seq(Name)
      <4>1. PICK at : /\ ParsesFrom(at, Origin(t, path), path.parts)
                      /\ Canonicalize(t, path) = at[Len(path.parts)]
        BY <1>5, CanonicalizeIsLast DEF Mkdir
      <4>2. Len(path.parts) \in 0..Len(path.parts)
        BY <1>5, CanonicalizeIsLast, LenProperties DEF Mkdir
      <4> QED
        BY <4>1, <4>2 DEF ParsesFrom
    <3> QED
      BY <2>1, <3>1, CanonicalIsNames
  <2> HIDE DEF p
  <2>3. SessionTypeOK'
    BY <2>1, <2>2 DEF SessionTypeOK
  <2>4. AtWork' /\ TreeClosed'
    BY <2>1, <2>2 DEF AtWork, LoggedIn, Base, TreeClosed
  <2> QED
    BY <2>1, <2>3, <2>4
<1>6. ASSUME NEW t \in Terminal, NEW path \in TypedPaths, Rmdir(t, path) PROVE SessionInv'
  <2> DEFINE p == Canonicalize(t, path)
  <2>1. p # <<>> /\ (~\E q \in dirs : IsStrictPrefix(p, q)) /\ dirs' = dirs \ {p}
        /\ active' = active /\ cwd' = cwd
    BY <1>6 DEF Rmdir
  <2> HIDE DEF p
  <2>2. ASSUME NEW q \in dirs, q # <<>> PROVE Front(q) # p
    <3>1. q \in Seq(Name)
      BY CanonicalIsNames DEF TreeClosed
    <3>2. Len(q) \in Nat \ {0} /\ Len(Front(q)) = Len(q) - 1 /\ Front(q) \in Seq(Name)
      BY <3>1, <2>2, FrontOf
    <3>3. SubSeq(Front(q), 1, Len(Front(q))) = Front(q)
      BY <3>2, SubSeqFull
    <3>4. SubSeq(q, 1, Len(Front(q))) = Front(q)
      BY <3>2 DEF Front
    <3>5. IsStrictPrefix(Front(q), q)
      BY <3>2, <3>3, <3>4 DEF IsStrictPrefix, IsPrefix
    <3> QED
      BY <2>1, <3>5
  <2>3. SessionTypeOK' /\ AtWork'
    BY <2>1 DEF AtWork, LoggedIn, Base, SessionTypeOK
  <2>4. TreeClosed'
    BY <2>1, <2>2 DEF TreeClosed
  <2> QED
    BY <2>1, <2>3, <2>4
<1>7. CASE UNCHANGED sessionVars
  BY <1>7 DEF sessionVars, SessionTypeOK, TreeClosed, AtWork, LoggedIn, Base
<1> QED
  BY <1>1, <1>2, <1>3, <1>4, <1>5, <1>6, <1>7 DEF SessionNext

LEMMA SessionInvHolds == SessionSpec => []SessionInv
BY SessionInvInit, SessionInvStep, PTL DEF SessionSpec

-----------------------------------------------------------------------------
\* Walking: what one gets to after each component.

Places == dirs \cup {Nowhere}

LEMMA NowhereIsNoDirectory == SessionInv => Nowhere \notin dirs
<1> SUFFICES ASSUME SessionInv, Nowhere \in dirs PROVE FALSE
  OBVIOUS
<1>1. Nowhere \in Seq(Name) /\ Len(Nowhere) = 1 /\ Nowhere[1] = NoName
  BY CanonicalIsNames DEF SessionInv, TreeClosed, Nowhere
<1>2. NoName \in Name
  BY <1>1, ElementOfSeq
<1> QED
  BY <1>2, SessionAssumption

LEMMA StepCases ==
    ASSUME SessionInv, NEW dir \in Places, NEW name \in Typable
    PROVE  /\ Step(dir, name) \in Places
           /\ dir = Nowhere => Step(dir, name) = Nowhere
           /\ dir # Nowhere =>
                /\ dir \in Seq(Name) /\ Descend(dir, name) \in Seq(Name)
                /\ Step(dir, name) = IF Descend(dir, name) \in dirs THEN Descend(dir, name) ELSE Nowhere
                /\ name # ".." /\ Descend(dir, name) \in dirs => dir \in dirs
<1>1. CASE dir = Nowhere
  BY <1>1 DEF Step, Places
<1>2. CASE dir # Nowhere
  <2>1. dir \in dirs /\ dir \in Seq(Name)
    BY <1>2, CanonicalIsNames DEF Places, SessionInv, TreeClosed
  <2>2. /\ Descend(dir, name) \in Seq(Name)
        /\ name \in {NoName, "."} => Descend(dir, name) = dir
        /\ name = ".." => Descend(dir, name) = IF dir = <<>> THEN dir ELSE Front(dir)
        /\ name \in Name => Descend(dir, name) = Append(dir, name)
        /\ name \in Name <=> name \notin {NoName, ".", ".."}
    BY <2>1, DescendCases
  <2>3. CASE name \in {NoName, "."}
    BY <1>2, <2>1, <2>2, <2>3 DEF Step, Places
  <2>4. CASE name = ".."
    <3>1. Step(dir, name) = Descend(dir, name)
      BY <1>2, <2>2, <2>4, DotsDiffer DEF Step
    <3>2. Descend(dir, name) \in dirs
      BY <2>1, <2>2, <2>4 DEF SessionInv, TreeClosed
    <3> QED
      BY <1>2, <2>1, <2>2, <2>4, <3>1, <3>2 DEF Places
  <2>5. CASE name \in Name
    <3>1. Step(dir, name) = IF Append(dir, name) \in dirs THEN Append(dir, name) ELSE Nowhere
      BY <1>2, <2>2, <2>5 DEF Step
    <3> QED
      BY <1>2, <2>1, <2>2, <2>5, <3>1 DEF Places
  <2> QED
    BY <2>3, <2>4, <2>5 DEF Typable
<1> QED
  BY <1>1, <1>2

\* Without "..", what is above a directory is a directory.
LEMMA DescendFromDirectory ==
    ASSUME SessionInv, NEW out \in Seq(Name), NEW name \in Typable, name # "..",
           Descend(out, name) \in dirs
    PROVE  out \in dirs
<1>1. /\ name \in {NoName, "."} => Descend(out, name) = out
      /\ name \in Name => Descend(out, name) = Append(out, name)
      /\ name \in Name <=> name \notin {NoName, ".", ".."}
  BY DescendCases
<1>2. CASE name \in Name
  <2>1. Append(out, name) # <<>> /\ Front(Append(out, name)) = out
    BY <1>2, FrontOfAppend
  <2> QED
    BY <1>1, <1>2, <2>1 DEF SessionInv, TreeClosed
<1> QED
  BY <1>1, <1>2

Start(t, path) == IF Origin(t, path) \in dirs THEN Origin(t, path) ELSE Nowhere

Walks(at, start, parts) ==
    /\ at \in [0..Len(parts) -> Places]
    /\ at[0] = start
    /\ \A n \in 1..Len(parts) : at[n] = Step(at[n - 1], parts[n])

LEMMA WalkIsLast ==
    ASSUME SessionInv, NEW t \in Terminal, NEW path, path.parts \in Seq(Typable)
    PROVE  \E at : Walks(at, Start(t, path), path.parts) /\ Walk(t, path) = at[Len(path.parts)]
<1> DEFINE parts == path.parts
           k == Len(parts)
           from == IF path.absolute THEN <<>> ELSE IF Base(t) \in dirs THEN Base(t) ELSE Nowhere
           step == [n \in 0..k |-> [d \in Places |-> IF n = 0 THEN d ELSE Step(d, parts[n])]]
           Equal(f) == f = [n \in 0..k |-> IF n = 0 THEN from ELSE Step(f[n - 1], parts[n])]
           chosen == CHOOSE f : Equal(f)
<1>1. k \in Nat /\ \A n \in 1..k : parts[n] \in Typable
  BY LenProperties, ElementOfSeq
<1>2. \A d \in Places, n \in 1..k : Step(d, parts[n]) \in Places
  BY <1>1, StepCases
<1>3. Walk(t, path) = chosen[k]
  BY Zenon DEF Walk
<1>4. from = Start(t, path)
  BY DEF Start, Origin, SessionInv
<1>5. from \in Places
  BY DEF Places, SessionInv
<1> HIDE DEF k, from, parts
<1>6. step \in [0..k -> [Places -> Places]]
  BY <1>1, <1>2
<1>7. PICK f \in [0..k -> Places] : Iterates(f, k, from, step)
  <2> HIDE DEF step
  <2> QED
    BY <1>1, <1>5, <1>6, UpToRecursion
<1>8. \A n \in 0..k : f[n] = IF n = 0 THEN from ELSE Step(f[n - 1], parts[n])
  <2> SUFFICES ASSUME NEW n \in 1..k PROVE f[n] = Step(f[n - 1], parts[n])
    BY <1>1, <1>7 DEF Iterates
  <2>1. f[n] = step[n][f[n - 1]] /\ n \in 0..k /\ n - 1 \in 0..k /\ n # 0
    <3> HIDE DEF step
    <3> QED
      BY <1>1, <1>7 DEF Iterates
  <2> QED
    BY <2>1, <1>7
<1>9. Equal(f)
  BY <1>8
<1>10. Equal(chosen)
  <2> HIDE DEF Equal
  <2> QED
    BY <1>9
<1> DEFINE T == {n \in 0..k : chosen[n] \in Places}
<1> HIDE DEF chosen
<1>11. 0 \in T /\ chosen[0] = from
  BY <1>1, <1>5, <1>10
<1>12. ASSUME NEW n \in 1..k PROVE chosen[n] = Step(chosen[n - 1], parts[n])
  <2>1. n \in 0..k /\ n # 0
    BY <1>1
  <2> QED
    BY <2>1, <1>10
<1>13. ASSUME NEW n \in 0..k, n < k, n \in T PROVE n + 1 \in T
  <2>1. PICK m \in 1..k : m = n + 1 /\ m \in 0..k /\ m # 0 /\ m - 1 = n
    BY <1>1, <1>13
  <2>2. chosen[m] = Step(chosen[n], parts[m])
    BY <2>1, <1>12
  <2> QED
    BY <2>1, <2>2, <1>2, <1>13
<1>14. \A n \in 0..k : chosen[n] \in Places
  <2>1. 0..k \subseteq T
    <3> HIDE DEF T
    <3> QED
      BY <1>1, <1>11, <1>13, UpToInduction
  <2> QED
    BY <2>1
<1>15. chosen \in [0..k -> Places]
  BY <1>10, <1>14
<1>16. Walks(chosen, from, parts)
  BY <1>11, <1>12, <1>15 DEF Walks, k
<1> QED
  BY <1>3, <1>4, <1>16 DEF k, parts

\* The text and the walk, component by component.
LEMMA WalkAgrees ==
    ASSUME SessionInv, NEW parts \in Seq(Typable), NEW start \in Seq(Name),
           NEW out, ParsesFrom(out, start, parts),
           NEW at, Walks(at, IF start \in dirs THEN start ELSE Nowhere, parts)
    PROVE  /\ at[Len(parts)] # Nowhere => at[Len(parts)] = out[Len(parts)] /\ out[Len(parts)] \in dirs
           /\ out[Len(parts)] \in dirs /\ (\A i \in 1..Len(parts) : parts[i] # "..")
                => at[Len(parts)] = out[Len(parts)]
<1> DEFINE k == Len(parts)
<1>1. k \in Nat /\ \A n \in 1..k : parts[n] \in Typable
  BY LenProperties, ElementOfSeq
<1> HIDE DEF k
<1>2. /\ out \in [0..k -> Seq(Name)] /\ out[0] = start
      /\ \A n \in 1..k : out[n] = Descend(out[n - 1], parts[n])
  BY DEF ParsesFrom, k
<1>3. /\ at \in [0..k -> Places] /\ at[0] = IF start \in dirs THEN start ELSE Nowhere
      /\ \A n \in 1..k : at[n] = Step(at[n - 1], parts[n])
  BY DEF Walks, k
<1>4. at[k] # Nowhere => at[k] = out[k] /\ out[k] \in dirs
  <2> DEFINE T == {n \in 0..k : at[n] # Nowhere => at[n] = out[n] /\ out[n] \in dirs}
  <2>1. 0 \in T
    BY <1>1, <1>2, <1>3
  <2>2. ASSUME NEW n \in 0..k, n < k, n \in T PROVE n + 1 \in T
    <3>1. PICK m \in 1..k : m = n + 1 /\ m \in 0..k /\ m - 1 = n
      <4>1. n + 1 \in 1..k /\ n + 1 \in 0..k /\ (n + 1) - 1 = n
        BY ONLY <1>1, <2>2
      <4> QED
        BY ONLY <4>1
    <3>2. at[m] = Step(at[n], parts[m]) /\ out[m] = Descend(out[n], parts[m])
          /\ parts[m] \in Typable /\ at[n] \in Places
      BY <3>1, <1>1, <1>2, <1>3
    <3>3. at[m] # Nowhere => at[m] = out[m] /\ out[m] \in dirs
      <4> SUFFICES ASSUME at[m] # Nowhere PROVE at[m] = out[m] /\ out[m] \in dirs
        OBVIOUS
      <4>1. at[n] # Nowhere
        BY <3>2, StepCases
      <4>2. at[n] = out[n]
        BY <4>1, <2>2
      <4>3. at[m] = IF Descend(at[n], parts[m]) \in dirs THEN Descend(at[n], parts[m]) ELSE Nowhere
        BY <3>2, <4>1, StepCases
      <4> QED
        BY <3>2, <4>2, <4>3
    <3> QED
      BY <3>1, <3>3
  <2>3. 0..k \subseteq T
    <3> HIDE DEF T
    <3> QED
      BY <1>1, <2>1, <2>2, UpToInduction
  <2> QED
    BY <2>3, <1>1
<1>5. ASSUME out[k] \in dirs, \A i \in 1..k : parts[i] # ".." PROVE at[k] = out[k]
  <2> DEFINE T == {n \in 0..k : out[k - n] \in dirs}
  <2>1. 0 \in T
    BY <1>1, <1>5
  <2>2. ASSUME NEW n \in 0..k, n < k, n \in T PROVE n + 1 \in T
    <3>1. PICK m \in 1..k : m = k - n /\ m - 1 = k - (n + 1) /\ m - 1 \in 0..k /\ n + 1 \in 0..k
      BY <1>1, <2>2
    <3>2. out[m] = Descend(out[m - 1], parts[m]) /\ out[m - 1] \in Seq(Name)
          /\ parts[m] \in Typable /\ parts[m] # ".." /\ out[m] \in dirs
      BY <3>1, <1>1, <1>2, <1>5, <2>2
    <3>3. out[m - 1] \in dirs
      BY <3>2, DescendFromDirectory
    <3> QED
      BY <3>1, <3>3
  <2>3. 0..k \subseteq T
    <3> HIDE DEF T
    <3> QED
      BY <1>1, <2>1, <2>2, UpToInduction
  <2>4. ASSUME NEW n \in 0..k PROVE out[n] \in dirs
    <3>1. PICK m \in 0..k : m = k - n /\ k - m = n
      BY <1>1
    <3> QED
      BY <3>1, <2>3
  <2> DEFINE U == {n \in 0..k : at[n] = out[n]}
  <2>5. 0 \in U
    <3>1. 0 \in 0..k
      BY <1>1
    <3> QED
      BY <3>1, <1>2, <1>3, <2>4
  <2>6. ASSUME NEW n \in 0..k, n < k, n \in U PROVE n + 1 \in U
    <3>1. PICK m \in 1..k : m = n + 1 /\ m \in 0..k /\ m - 1 = n
      BY <1>1, <2>6
    <3>2. at[m] = Step(at[n], parts[m]) /\ out[m] = Descend(out[n], parts[m])
          /\ parts[m] \in Typable /\ at[n] \in Places /\ at[n] = out[n] /\ out[n] \in dirs /\ out[m] \in dirs
      BY <3>1, <1>1, <1>2, <1>3, <2>4, <2>6
    <3>3. at[n] # Nowhere
      BY <3>2, NowhereIsNoDirectory
    <3>4. at[m] = IF Descend(at[n], parts[m]) \in dirs THEN Descend(at[n], parts[m]) ELSE Nowhere
      BY <3>2, <3>3, StepCases
    <3> QED
      BY <3>1, <3>2, <3>4
  <2>7. 0..k \subseteq U
    <3> HIDE DEF U
    <3> QED
      BY <1>1, <2>5, <2>6, UpToInduction
  <2> QED
    BY <2>7, <1>1
<1> QED
  BY <1>4, <1>5 DEF k

\* The tree, the users at work and their working directories have their types.
THEOREM SessionTypeHolds == SessionSpec => []SessionTypeOK
<1>1. SessionInv => SessionTypeOK
  BY DEF SessionInv
<1> QED
  BY <1>1, SessionInvHolds, PTL

\* Wherever a user of any terminal stands and whatever is typed: what can be walked
\* is what the text is resolved to, and without ".." the text is resolved to nothing
\* else (canonicalize, pathParts and resolve).
THEOREM PathIsWalkHolds == SessionSpec => []PathIsWalk
<1>1. SessionInv => PathIsWalk
  <2> SUFFICES ASSUME SessionInv, NEW t \in Terminal, LoggedIn(t), NEW path \in TypedPaths
               PROVE  /\ Walk(t, path) # Nowhere => Resolves(Canonicalize(t, path))
                                                    /\ Canonicalize(t, path) = Walk(t, path)
                      /\ Resolves(Canonicalize(t, path)) /\ (\A i \in DOMAIN path.parts : path.parts[i] # "..")
                           => Walk(t, path) = Canonicalize(t, path)
    BY DEF PathIsWalk
  <2> DEFINE parts == path.parts
             start == Origin(t, path)
  <2>1. AtWork
    BY DEF SessionInv
  <2>2. parts \in Seq(Typable) /\ start \in Seq(Name)
    BY <2>1, CanonicalizeIsLast
  <2>3. PICK out : ParsesFrom(out, start, parts) /\ Canonicalize(t, path) = out[Len(parts)]
    BY <2>1, CanonicalizeIsLast
  <2>4. PICK at : Walks(at, Start(t, path), parts) /\ Walk(t, path) = at[Len(parts)]
    BY <2>2, WalkIsLast
  <2>5. Start(t, path) = IF start \in dirs THEN start ELSE Nowhere
    BY DEF Start
  <2>6. DOMAIN parts = 1..Len(parts)
    BY <2>2, LenProperties
  <2> HIDE DEF parts, start
  <2>7. /\ at[Len(parts)] # Nowhere => at[Len(parts)] = out[Len(parts)] /\ out[Len(parts)] \in dirs
        /\ out[Len(parts)] \in dirs /\ (\A i \in 1..Len(parts) : parts[i] # "..")
             => at[Len(parts)] = out[Len(parts)]
    BY <2>2, <2>3, <2>4, <2>5, WalkAgrees
  <2> QED
    BY <2>3, <2>4, <2>6, <2>7 DEF Resolves, parts
<1> QED
  BY <1>1, SessionInvHolds, PTL

-----------------------------------------------------------------------------
\* The three together.

\* A behaviour is one of the three parts and leaves the others where they begin.
LEMMA EachByItself == Spec => TraceSpec /\ SessionSpec /\ EditorSpec
<1>1. Init => TraceInit /\ SessionInit /\ EditorInit
  BY DEF Init
<1>2. [Next]_vars => [TraceNext]_traceVars /\ [SessionNext]_sessionVars /\ [EditorNext]_editorVars
  BY DEF Next, vars
<1> QED
  BY <1>1, <1>2, PTL DEF Spec, TraceSpec, SessionSpec, EditorSpec

\* The terminal's type invariant: the ring's events are numbered without a gap,
\* working directories are canonical, and the cursor is within the line.
THEOREM TypeHolds == Spec => []TypeOK
<1>1. TraceTypeOK /\ SessionTypeOK /\ EditorTypeOK => TypeOK
  BY DEF TypeOK
<1> QED
  BY <1>1, EachByItself, TraceTypeHolds, SessionTypeHolds, EditorTypeHolds, PTL
=============================================================================
