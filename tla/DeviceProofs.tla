---------------------------- MODULE DeviceProofs ----------------------------
(***************************************************************************)
(* Proofs about the device's own tasks: the frames of the voice that a     *)
(* phone sends (Talk), the task and the calls of the SPI camera (SpiCam),  *)
(* what a playback session sends (PlayOut), and the screen and its keys    *)
(* (Screen).                                                               *)
(***************************************************************************)
EXTENDS Talk, SpiCam, PlayOut, Screen, CardProofs, SequenceTheorems

-----------------------------------------------------------------------------
(* The frames of the voice (Talk). *)

Assemblies == [seq : Int, total : Nat, buf : [TalkSlots -> Int], done : BOOLEAN]

\* No slice of frame s of n slices looks like a blank slot.
Clear(s, n) == \A p \in 1..n : <<s, p>> \notin Quiet

Own(buf, s) == {p \in TalkSlots : buf[p] = s}

\* The slices of frame s that are in the buffer were counted once each.
Counted(buf, t, s, n) ==
    s > 0 /\ Clear(s, n) => Own(buf, s) \subseteq 1..n /\ t = Cardinality(Own(buf, s))

\* What becomes of the assembly a while a datagram with frame s of n slices is
\* looked at.
Assembled(x, a, s, n) ==
    /\ x \in Assemblies
    /\ x.seq = a.seq \/ (x.seq = s /\ a.seq < s)
    /\ \A p \in TalkSlots : x.buf[p] <= x.seq
    /\ x.seq = s => Counted(x.buf, x.total, s, n)
    /\ x.seq = a.seq => x.total >= a.total
    /\ s < a.seq => x = a
    /\ x.done => x.seq = s /\ x.total = n /\ (a.seq = s => a.total < n)

LEMMA TakeSliceAssembles ==
  ASSUME NEW x, NEW a \in Assemblies, NEW s \in Nat, NEW n \in TalkSlots,
         Assembled(x, a, s, n), NEW p \in 1..n
  PROVE  /\ Assembled(TakeSlice(x, s, p, n), a, s, n)
         /\ TakeSlice(x, s, p, n).seq = s \/ s < a.seq
  <1> DEFINE b == NewFrame(x, s)
             y == [b EXCEPT !.buf[p] = s, !.total = @ + 1, !.done = b.total + 1 = n]
  <1>1. x \in Assemblies /\ p \in TalkSlots /\ n \in Nat
    BY TalkSlotsAssumption DEF Assembled
  <1>2. Assembled(b, a, s, n) /\ (b.seq = s \/ s < b.seq)
    <2>1. CASE s > x.seq
      <3>1. b = [seq |-> s, total |-> 0,
                 buf |-> [q \in TalkSlots |-> IF q \in Blanked THEN BlankSlot ELSE x.buf[q]],
                 done |-> FALSE]
        BY <2>1 DEF NewFrame, Assembly
      <3> HIDE DEF b
      <3>0. x.seq \in Int /\ \A q \in TalkSlots : x.buf[q] \in Int /\ x.buf[q] <= x.seq
        BY <1>1 DEF Assembled, Assemblies
      <3>2. \A q \in TalkSlots : b.buf[q] \in Int /\ b.buf[q] < s
        <4> SUFFICES ASSUME NEW q \in TalkSlots PROVE b.buf[q] \in Int /\ b.buf[q] < s
          OBVIOUS
        <4>1. b.buf[q] = IF q \in Blanked THEN -1 ELSE x.buf[q]
          BY <3>1 DEF BlankSlot
        <4>2. -1 < s /\ x.buf[q] < s
          BY <2>1, <3>0
        <4> QED BY <3>0, <4>1, <4>2
      <3>3. b \in Assemblies
        BY <1>1, <3>1 DEF BlankSlot, Assemblies
      <3>4. Own(b.buf, s) = {}
        BY <3>2 DEF Own
      <3>5. Counted(b.buf, 0, s, n)
        BY <3>4, FS_EmptySet DEF Counted
      <3>6. b.seq = s /\ b.total = 0 /\ b.done = FALSE /\ a.seq < s
        BY <1>1, <2>1, <3>1 DEF Assembled, Assemblies
      <3>7. \A q \in TalkSlots : b.buf[q] <= b.seq
        <4>1. \A q \in TalkSlots : b.buf[q] <= s
          <5> SUFFICES ASSUME NEW q \in TalkSlots PROVE b.buf[q] <= s
            OBVIOUS
          <5>1. b.buf[q] \in Int /\ b.buf[q] < s
            BY <3>2
          <5> QED BY <5>1
        <4> QED BY <3>6, <4>1
      <3> QED BY <3>3, <3>5, <3>6, <3>7 DEF Assembled, Assemblies
    <2>2. CASE ~(s > x.seq)
      <3>1. b = x
        BY <2>2 DEF NewFrame
      <3> HIDE DEF b
      <3> QED BY <1>1, <2>2, <3>1 DEF Assemblies
    <2> QED BY <2>1, <2>2
  <1>3. TakeSlice(x, s, p, n) = IF x.done \/ s < x.seq \/ ~LooksBlank(b.buf, p) THEN b ELSE y
    BY DEF TakeSlice
  <1>4. x.seq <= b.seq
    BY <1>1 DEF NewFrame, Assembly, Assemblies
  <1> HIDE DEF b
  <1>5. b \in Assemblies
    BY <1>2 DEF Assembled
  <1>6. CASE x.done \/ s < x.seq \/ ~LooksBlank(b.buf, p)
    <2>1. b.seq = s \/ s < a.seq
      BY <1>2, <1>5 DEF Assembled, Assemblies
    <2>2. TakeSlice(x, s, p, n) = b
      BY <1>3, <1>6
    <2> QED BY <1>2, <2>1, <2>2
  <1>7. CASE ~(x.done \/ s < x.seq \/ ~LooksBlank(b.buf, p))
    <2>1. TakeSlice(x, s, p, n) = y
      BY <1>3, <1>7
    <2>2. /\ y.seq = b.seq /\ y.total = b.total + 1 /\ (y.done => b.total + 1 = n)
          /\ y.buf = [b.buf EXCEPT ![p] = s] /\ y \in Assemblies
      <3> DEFINE z == (b.total + 1 = n)
                 t == b.total + 1
                 w == [b.buf EXCEPT ![p] = s]
      <3>1. b = [seq |-> b.seq, total |-> b.total, buf |-> b.buf, done |-> b.done]
            /\ b.seq \in Int /\ b.total \in Nat /\ b.buf \in [TalkSlots -> Int]
        BY <1>5 DEF Assemblies
      <3>2. z \in BOOLEAN /\ t \in Nat /\ w \in [TalkSlots -> Int]
        BY <1>1, <3>1
      <3> HIDE DEF z, t, w
      <3>3. [b EXCEPT !.buf[p] = s, !.total = t, !.done = z]
            = [seq |-> b.seq, total |-> t, buf |-> w, done |-> z]
        <4>1. b.buf = [q \in TalkSlots |-> b.buf[q]]
          BY <3>1
        <4>2. DOMAIN b = {"seq", "total", "buf", "done"}
          BY <3>1
        <4> DEFINE r == [b EXCEPT !.buf[p] = s, !.total = t, !.done = z]
        <4>3. r.seq = b.seq
          BY <4>2
        <4>4. r.total = t
          BY <4>2
        <4>5. r.done = z
          BY <4>2
        <4>6. r.buf = [b.buf EXCEPT ![p] = s]
          BY <4>2
        <4>7. r = [field \in {"seq", "total", "buf", "done"} |-> r[field]]
          BY <4>2
        <4> HIDE DEF r
        <4>8. r = [seq |-> r.seq, total |-> r.total, buf |-> r.buf, done |-> r.done]
          BY <4>7
        <4> USE DEF r
        <4> QED BY <4>3, <4>4, <4>5, <4>6, <4>8 DEF w
      <3>4. y = [seq |-> b.seq, total |-> t, buf |-> w, done |-> z]
        BY <3>3 DEF t, z
      <3> HIDE DEF y
      <3>5. y \in Assemblies /\ y.seq = b.seq /\ y.total = t /\ y.buf = w /\ y.done = z
        BY <3>1, <3>2, <3>4 DEF Assemblies
      <3> QED BY <3>5 DEF t, w, z
    <2> HIDE DEF y
    <2>3. b.seq = s
      BY <1>1, <1>2, <1>7 DEF NewFrame, Assembly, Assemblies, b
    <2>4. LooksBlank(b.buf, p)
      BY <1>7
    <2>5. Counted(y.buf, y.total, s, n)
      <3> SUFFICES ASSUME s > 0, Clear(s, n)
                   PROVE Own(y.buf, s) \subseteq 1..n /\ y.total = Cardinality(Own(y.buf, s))
        BY DEF Counted
      <3>1. Own(b.buf, s) \subseteq 1..n /\ b.total = Cardinality(Own(b.buf, s))
        BY <1>2, <2>3 DEF Assembled, Counted
      <3>2. b.buf[p] # s
        BY <2>4 DEF LooksBlank, BlankSlot, Clear
      <3>3. p \notin Own(b.buf, s) /\ Own(y.buf, s) = Own(b.buf, s) \cup {p}
        BY <1>1, <1>5, <2>2, <3>2 DEF Own, Assemblies
      <3>4. IsFiniteSet(Own(b.buf, s))
        <4>1. IsFiniteSet(1..n)
          BY <1>1, FS_Interval
        <4> QED BY <3>1, <4>1, FS_Subset
      <3>5. Cardinality(Own(y.buf, s)) = Cardinality(Own(b.buf, s)) + 1
        BY <3>3, <3>4, FS_AddElement
      <3> QED BY <2>2, <3>1, <3>3, <3>5
    <2>6. \A q \in TalkSlots : y.buf[q] <= y.seq
      BY <1>1, <1>2, <1>5, <2>2, <2>3 DEF Assembled, Assemblies
    <2>7. b.total \in Nat /\ a.total \in Nat
      BY <1>5 DEF Assemblies
    <2>8. s < a.seq => FALSE
      BY <1>1, <1>2, <1>5, <2>3 DEF Assembled, Assemblies
    <2>9. y.seq = a.seq => y.total >= a.total + 1
      BY <1>2, <2>2, <2>7 DEF Assembled
    <2>10. y.done => y.seq = s /\ y.total = n /\ (a.seq = s => a.total < n)
      <3> SUFFICES ASSUME y.done PROVE y.seq = s /\ y.total = n /\ (a.seq = s => a.total < n)
        OBVIOUS
      <3>1. y.total = n /\ y.seq = s
        BY <2>2, <2>3
      <3> QED BY <1>1, <2>7, <2>9, <3>1
    <2>11. y.seq = a.seq \/ (y.seq = s /\ a.seq < s)
      BY <1>2, <2>2 DEF Assembled
    <2>12. y.seq = a.seq => y.total >= a.total
      BY <2>2, <2>7, <2>9
    <2>13. Assembled(y, a, s, n)
      BY <2>2, <2>5, <2>6, <2>8, <2>10, <2>11, <2>12 DEF Assembled
    <2> QED BY <2>1, <2>2, <2>3, <2>13
  <1> QED BY <1>6, <1>7

\* The whole datagram.
LEMMA PacketAssembles ==
  ASSUME NEW a, NEW s \in Nat, NEW n \in TalkSlots, Assembled(a, a, s, n),
         NEW first \in 1..n, NEW last \in 1..n, first <= last
  PROVE  /\ Assembled(Packet(a, s, first, last, n), a, s, n)
         /\ Packet(a, s, first, last, n).seq = s \/ s < a.seq
  <1> DEFINE m == first - 1
             S == {x \in Assemblies : Assembled(x, a, s, n)}
             g == [p \in (m + 1)..last |-> [x \in S |-> TakeSlice(x, s, p, n)]]
             Unfolds(f) == f = [p \in m..last |-> IF p < first THEN a ELSE TakeSlice(f[p - 1], s, p, n)]
  <1>1. m \in Int /\ last \in Int /\ n \in Nat /\ first \in Int /\ m < last /\ a \in Assemblies
        /\ a \in S /\ m + 1 = first /\ \A p \in (m + 1)..last : p \in 1..n
    BY TalkSlotsAssumption DEF Assembled
  <1>2. \A x \in S : \A p \in (m + 1)..last :
            TakeSlice(x, s, p, n) \in S /\ (TakeSlice(x, s, p, n).seq = s \/ s < a.seq)
            /\ g[p][x] = TakeSlice(x, s, p, n)
    <2> SUFFICES ASSUME NEW x \in S, NEW p \in (m + 1)..last
                 PROVE  /\ TakeSlice(x, s, p, n) \in S
                        /\ TakeSlice(x, s, p, n).seq = s \/ s < a.seq
                        /\ g[p][x] = TakeSlice(x, s, p, n)
      OBVIOUS
    <2>1. Assembled(x, a, s, n) /\ p \in 1..n
      BY <1>1
    <2>2. /\ Assembled(TakeSlice(x, s, p, n), a, s, n)
          /\ TakeSlice(x, s, p, n).seq = s \/ s < a.seq
      BY <1>1, <2>1, TakeSliceAssembles
    <2>3. TakeSlice(x, s, p, n) \in Assemblies
      BY <2>2 DEF Assembled
    <2> QED BY <2>2, <2>3
  <1> HIDE DEF m, g, S
  <1>3. PICK f : Runs(f, m, last, S, a, g)
    <2>1. Steps(m, last, S, g)
      BY <1>2 DEF Steps
    <2> QED BY <1>1, <2>1, Recursion
  <1>4. f \in [m..last -> S] /\ f[m] = a /\ \A p \in (m + 1)..last : f[p] = g[p][f[p - 1]]
    BY <1>3 DEF Runs
  <1>5. \A p \in (m + 1)..last : p - 1 \in m..last /\ f[p] = TakeSlice(f[p - 1], s, p, n)
    <2>1. \A p \in (m + 1)..last : p - 1 \in m..last
      BY <1>1
    <2> QED BY <1>2, <1>4, <2>1
  <1>6. \A p \in m..last : p = m \/ p \in (m + 1)..last
    BY <1>1
  <1>7. \E v : Unfolds(v)
    <2>1. \A p \in m..last : f[p] = IF p < first THEN a ELSE TakeSlice(f[p - 1], s, p, n)
      BY <1>1, <1>4, <1>5, <1>6
    <2>2. f = [p \in m..last |-> f[p]]
      BY <1>4
    <2>3. Unfolds(f)
      BY <2>1, <2>2
    <2> QED BY <2>3
  <1> DEFINE u == CHOOSE v : Unfolds(v)
  <1>8. Unfolds(u)
    BY <1>7
  <1>9. Packet(a, s, first, last, n) = u[last]
    BY DEF Packet, m
  <1> HIDE DEF u
  <1>10. \A p \in m..last : u[p] = IF p < first THEN a ELSE TakeSlice(u[p - 1], s, p, n)
    BY <1>8
  <1> HIDE DEF Unfolds
  <1>11. u[m] = a /\ \A p \in (m + 1)..last : p \in m..last /\ u[p] = TakeSlice(u[p - 1], s, p, n)
    BY <1>1, <1>10
  <1> DEFINE T == {p \in m..last : u[p] \in S}
  <1>12. Upward(m, last, T)
    <2>1. m \in T
      BY <1>1, <1>11
    <2>2. \A p \in (m + 1)..last : p - 1 \in T => p \in T
      BY <1>2, <1>11
    <2> HIDE DEF T
    <2> QED BY <2>1, <2>2 DEF Upward
  <1>13. m..last \subseteq T
    <2> HIDE DEF T
    <2> QED BY <1>1, <1>12, Induction
  <1>14. last \in (m + 1)..last /\ last - 1 \in m..last /\ last \in m..last
    BY <1>1
  <1>15. u[last - 1] \in S /\ u[last] \in S /\ u[last] = TakeSlice(u[last - 1], s, last, n)
    BY <1>11, <1>13, <1>14
  <1>16. u[last].seq = s \/ s < a.seq
    BY <1>2, <1>14, <1>15
  <1> QED BY <1>9, <1>15, <1>16 DEF S

Frames == [seq : Nat, data : [TalkSlots -> Int], n : Nat]

TalkType ==
    /\ size \in Seq(TalkSlots) /\ played \in Seq(Frames)
    /\ old_seq \in Nat /\ total \in Nat /\ pcm \in [TalkSlots -> Int]

\* The buffer holds nothing newer than old_seq, and what is there of that frame was
\* counted.
Buffered ==
    /\ \A p \in TalkSlots : pcm[p] <= old_seq
    /\ old_seq > 0 =>
           /\ old_seq + 1 \in DOMAIN size
           /\ Counted(pcm, total, old_seq, size[old_seq + 1])

\* The frames that were played are older, but for the last; that one's slices are
\* counted up to its size, so that it is not done again.
InOrder ==
    \A k \in DOMAIN played :
        /\ played[k].seq + 1 \in DOMAIN size /\ played[k].n = size[played[k].seq + 1]
        /\ played[k].seq <= old_seq
        /\ played[k].seq = old_seq => total >= played[k].n

TalkInv == TalkType /\ Buffered /\ InOrder /\ FrameWhole

\* A frame that is done is whole.
LEMMA DoneIsWhole ==
  ASSUME NEW n \in TalkSlots, NEW s, NEW buf, Counted(buf, n, s, n), s > 0, Clear(s, n)
  PROVE  \A p \in 1..n : buf[p] = s
  <1>1. n \in Nat /\ IsFiniteSet(1..n) /\ Cardinality(1..n) = n
    <2>1. n \in Nat
      BY TalkSlotsAssumption
    <2>2. 1 \in Int /\ n \in Int /\ (IF 1 > n THEN 0 ELSE n - 1 + 1) = n
      BY <2>1
    <2> QED BY <2>1, <2>2, FS_Interval
  <1>2. Own(buf, s) \in SUBSET (1..n) /\ Cardinality(Own(buf, s)) = n
    BY DEF Counted
  <1>3. Own(buf, s) = 1..n
    BY <1>1, <1>2, FS_Subset
  <1> QED BY <1>3 DEF Own

LEMMA ReceiveKeeps ==
  ASSUME TalkInv, Receive
  PROVE  TalkInv'
  <1>1. PICK seq \in DOMAIN size : \E first, last \in 1..size[seq] :
            /\ first <= last
            /\ LET n == size[seq]
                   a == Packet(Assembly(old_seq, total, pcm), seq - 1, first, last, n)
               IN  /\ old_seq' = a.seq /\ total' = a.total /\ pcm' = a.buf
                   /\ IF a.done
                      THEN played' = Append(played, [seq |-> seq - 1, data |-> a.buf, n |-> n])
                      ELSE UNCHANGED played
    BY DEF Receive
  <1>2. PICK first, last \in 1..size[seq] :
            /\ first <= last
            /\ LET n == size[seq]
                   a == Packet(Assembly(old_seq, total, pcm), seq - 1, first, last, n)
               IN  /\ old_seq' = a.seq /\ total' = a.total /\ pcm' = a.buf
                   /\ IF a.done
                      THEN played' = Append(played, [seq |-> seq - 1, data |-> a.buf, n |-> n])
                      ELSE UNCHANGED played
    BY <1>1
  <1> DEFINE n == size[seq]
             s == seq - 1
             o == Assembly(old_seq, total, pcm)
             a == Packet(o, s, first, last, n)
  <1>3. /\ n \in TalkSlots /\ n \in Nat /\ s \in Nat /\ s + 1 = seq /\ seq \in DOMAIN size
        /\ size' = size /\ first \in 1..n /\ last \in 1..n /\ first <= last
    <2>1. size \in Seq(TalkSlots) /\ size' = size /\ first <= last
      BY <1>2 DEF TalkInv, TalkType, Receive
    <2>2. seq \in 1..Len(size) /\ Len(size) \in Nat /\ n \in TalkSlots
      BY <2>1
    <2>3. seq \in Nat /\ seq - 1 \in Nat /\ seq - 1 + 1 = seq
      BY <2>2
    <2>4. n \in Nat
      BY <2>2, TalkSlotsAssumption
    <2> HIDE DEF n
    <2> QED BY <2>1, <2>2, <2>3, <2>4 DEF n
  <1>4. /\ old_seq' = a.seq /\ total' = a.total /\ pcm' = a.buf
        /\ a.done => played' = Append(played, [seq |-> s, data |-> a.buf, n |-> n])
        /\ ~a.done => played' = played
    BY <1>2
  <1>5. o = [seq |-> old_seq, total |-> total, buf |-> pcm, done |-> FALSE] /\ o \in Assemblies
    BY DEF Assembly, Assemblies, TalkInv, TalkType
  <1>6. seq = s + 1 /\ n = size[s + 1]
    BY <1>3
  <1> HIDE DEF n, s, o
  <1>7. Assembled(o, o, s, n)
    <2>1. s = old_seq => Counted(pcm, total, s, n)
      <3>1. CASE s > 0
        BY <1>6, <3>1 DEF TalkInv, Buffered
      <3>2. CASE ~(s > 0)
        BY <3>2 DEF Counted
      <3> QED BY <3>1, <3>2
    <2>2. \A p \in TalkSlots : o.buf[p] <= o.seq
      BY <1>5 DEF TalkInv, Buffered
    <2>3. o.total >= o.total
      BY <1>5 DEF Assemblies
    <2> QED BY <1>5, <2>1, <2>2, <2>3 DEF Assembled
  <1>8. Assembled(a, o, s, n) /\ (a.seq = s \/ s < o.seq)
    BY <1>3, <1>7, PacketAssembles
  <1> HIDE DEF a
  <1>9. CASE s < old_seq
    <2>1. a = o
      BY <1>5, <1>8, <1>9 DEF Assembled
    <2>2. UNCHANGED <<old_seq, total, pcm, played, size>>
      BY <1>3, <1>4, <1>5, <2>1
    <2> QED BY <2>2 DEF TalkInv, TalkType, Buffered, InOrder, FrameWhole
  <1>10. CASE ~(s < old_seq)
    <2>1. /\ a.seq = s /\ a \in Assemblies /\ (old_seq = s \/ old_seq < s)
          /\ Counted(a.buf, a.total, s, n)
          /\ \A p \in TalkSlots : a.buf[p] <= s
          /\ s = old_seq => a.total >= total
          /\ a.done => a.total = n /\ (old_seq = s => total < n)
      BY <1>5, <1>8, <1>10 DEF Assembled
    <2>2. TalkType'
      <3>1. [seq |-> s, data |-> a.buf, n |-> n] \in Frames
        BY <1>3, <2>1 DEF Frames, Assemblies
      <3>2. played' \in Seq(Frames)
        <4> DEFINE frame == [seq |-> s, data |-> a.buf, n |-> n]
        <4>1. frame \in Frames /\ played \in Seq(Frames)
              /\ (played' = played \/ played' = Append(played, frame))
          BY <1>4, <3>1 DEF TalkInv, TalkType
        <4> HIDE DEF frame
        <4> QED BY <4>1
      <3> QED BY <1>3, <1>4, <2>1, <3>2 DEF TalkInv, TalkType, Assemblies
    <2>3. Buffered'
      BY <1>3, <1>4, <1>6, <2>1 DEF Buffered
    <2>4. /\ total \in Nat /\ a.total \in Nat /\ old_seq \in Nat /\ total' = a.total
          /\ old_seq' = s /\ size' = size
          /\ \A k \in DOMAIN played :
                 /\ played[k].seq + 1 \in DOMAIN size
                 /\ played[k].n = size[played[k].seq + 1] /\ played[k].n \in Nat
                 /\ played[k].seq \in Nat /\ played[k].seq <= old_seq
                 /\ played[k].seq = old_seq => total >= played[k].n
      <3>1. \A k \in DOMAIN played : played[k] \in Frames
        BY DEF TalkInv, TalkType
      <3> QED BY <1>3, <1>4, <2>1, <3>1 DEF TalkInv, TalkType, InOrder, Assemblies, Frames
    <2>5. \A k \in DOMAIN played :
              /\ played[k].seq <= s
              /\ played[k].seq = s => a.total >= played[k].n
      BY <1>3, <2>1, <2>4
    <2>6. CASE ~a.done
      <3>1. played' = played
        BY <1>4, <2>6
      <3> QED BY <2>2, <2>3, <2>4, <2>5, <3>1 DEF TalkInv, InOrder, FrameWhole
    <2>7. CASE a.done
      <3> DEFINE frame == [seq |-> s, data |-> a.buf, n |-> n]
                 L == Len(played)
      <3>1. /\ L \in Nat /\ DOMAIN played = 1..L /\ DOMAIN played' = 1..(L + 1)
            /\ played'[L + 1] = frame /\ \A k \in 1..L : played'[k] = played[k]
        <4>1. played' = Append(played, frame)
          BY <1>4, <2>7
        <4> HIDE DEF frame
        <4> QED BY <4>1 DEF TalkInv, TalkType
      <3>2. frame.seq = s /\ frame.n = n /\ frame.data = a.buf
        OBVIOUS
      <3> HIDE DEF frame, L
      <3>3. \A k \in 1..L : played[k].seq < s
        <4> SUFFICES ASSUME NEW k \in 1..L PROVE played[k].seq < s
          OBVIOUS
        <4>1. played[k].seq = s => old_seq = s /\ total >= n /\ total < n
          BY <1>3, <1>6, <2>1, <2>4, <2>7, <3>1
        <4>2. played[k].seq <= s /\ played[k].seq \in Nat
          BY <2>4, <2>5, <3>1
        <4> QED BY <1>3, <2>4, <4>1, <4>2
      <3>4. InOrder'
        <4> SUFFICES ASSUME NEW k \in 1..(L + 1)
                     PROVE  /\ played'[k].seq + 1 \in DOMAIN size
                            /\ played'[k].n = size[played'[k].seq + 1]
                            /\ played'[k].seq <= s
                            /\ played'[k].seq = s => a.total >= played'[k].n
          BY <2>4, <3>1 DEF InOrder
        <4>1. CASE k = L + 1
          BY <1>3, <1>6, <2>1, <2>7, <3>1, <3>2, <4>1
        <4>2. CASE k \in 1..L
          BY <2>4, <2>5, <3>1, <4>2
        <4> QED BY <3>1, <4>1, <4>2
      <3>5. s > 0 /\ Clear(s, n) => \A p \in 1..n : a.buf[p] = s
        <4>1. Counted(a.buf, n, s, n)
          BY <2>1, <2>7
        <4> QED BY <1>3, <4>1, DoneIsWhole
      <3>6. FrameWhole'
        <4> SUFFICES ASSUME NEW k \in 1..(L + 1)
                     PROVE  /\ k > 1 => played'[k - 1].seq < played'[k].seq
                            /\ played'[k].seq > 0 /\ Clear(played'[k].seq, played'[k].n)
                                   => \A p \in 1..played'[k].n : played'[k].data[p] = played'[k].seq
          BY <3>1 DEF FrameWhole, Clear
        <4>1. CASE k = L + 1
          <5>1. k > 1 => k - 1 \in 1..L
            BY <3>1, <4>1
          <5>2. k > 1 => played'[k - 1].seq < played'[k].seq
            BY <3>1, <3>2, <3>3, <4>1, <5>1
          <5> QED BY <3>1, <3>2, <3>5, <4>1, <5>2
        <4>2. CASE k \in 1..L
          <5>1. played'[k] = played[k] /\ k \in DOMAIN played
                /\ (k > 1 => played'[k - 1] = played[k - 1])
            BY <3>1, <4>2
          <5> QED BY <5>1 DEF TalkInv, FrameWhole, Clear
        <4> QED BY <3>1, <4>1, <4>2
      <3> QED BY <2>2, <2>3, <3>4, <3>6 DEF TalkInv
    <2> QED BY <2>6, <2>7
  <1> QED BY <1>9, <1>10

\* Every step keeps the invariant.
LEMMA TalkStep ==
  ASSUME TalkInv, [TalkNext]_talkVars
  PROVE  TalkInv'
  <1>1. CASE RecvEnds \/ DacIrq \/ TalkClose \/ TalkClosed \/ UNCHANGED talkVars
    <2>1. UNCHANGED <<old_seq, total, pcm, size, played>>
      BY <1>1 DEF RecvEnds, DacIrq, TalkClose, TalkClosed, talkVars
    <2> QED BY <2>1 DEF TalkInv, TalkType, Buffered, InOrder, FrameWhole
  <1>2. CASE TalkOpen
    <2>1. CASE UNCHANGED <<old_seq, total, pcm, size, played>>
      BY <2>1 DEF TalkInv, TalkType, Buffered, InOrder, FrameWhole
    <2>2. CASE /\ old_seq' = 0 /\ played' = <<>> /\ total' = total /\ size' = size
               /\ pcm' \in {[p \in TalkSlots |-> x] : x \in {BlankSlot, JunkSlot}}
      <3>1. pcm' \in [TalkSlots -> Int] /\ \A p \in TalkSlots : pcm'[p] <= 0
        BY <2>2 DEF BlankSlot, JunkSlot
      <3> QED BY <2>2, <3>1 DEF TalkInv, TalkType, Buffered, InOrder, FrameWhole
    <2> QED BY <1>2, <2>1, <2>2 DEF TalkOpen
  <1>3. CASE Speak
    <2>1. PICK n \in TalkSlots : size' = Append(size, n)
      BY <1>3 DEF Speak
    <2>2. /\ size' \in Seq(TalkSlots)
          /\ \A k \in DOMAIN size : k \in DOMAIN size' /\ size'[k] = size[k]
      BY <2>1 DEF TalkInv, TalkType
    <2>3. UNCHANGED <<old_seq, total, pcm, played>>
      BY <1>3 DEF Speak
    <2> QED BY <2>2, <2>3 DEF TalkInv, TalkType, Buffered, InOrder, FrameWhole
  <1> QED BY <1>1, <1>2, <1>3, ReceiveKeeps DEF TalkNext, cmd_put_rt_talk_ctl

\* Whatever datagrams are lost, doubled or late, of however many slices and for
\* however many talks: the frames played come in the phone's order, each once
\* and, when the buffer was blanked before it and none of its slices looks blank,
\* made of all its own slices and no other's (get_pcm_packet).
THEOREM FrameTheorem == TalkSpec => []FrameWhole
  <1>1. TalkInit => TalkInv
    <2>1. \A p \in TalkSlots : JunkSlot \in Int /\ JunkSlot <= 0
      BY DEF JunkSlot
    <2> QED BY <2>1 DEF TalkInit, TalkInv, TalkType, Buffered, InOrder, FrameWhole
  <1>2. TalkInv => FrameWhole
    BY DEF TalkInv
  <1> QED BY <1>1, <1>2, TalkStep, PTL DEF TalkSpec

-----------------------------------------------------------------------------
(* The task and the calls of the SPI camera (SpiCam). *)

TaskStages == {"boot", "opening", "resetting", "up", "run", "exit", "dead"}
CallStages == {"none", "wait", "wait to kill", "close", "closing", "closing for the server",
               "end", "fork", "up", "kill", "restart", "last", "gone"}

SpiType ==
    /\ spiInit \in BOOLEAN /\ camera_hdl \in BOOLEAN /\ net_video_rec \in BOOLEAN
    /\ reinit \in BOOLEAN /\ net_priv \in Users
    /\ task \in [Tasks -> [for : Users, at : TaskStages]]
    /\ spiCall \in [at : CallStages, user : Users, killing : BOOLEAN]
    /\ spiAnswer \in [user : Users, ok : BOOLEAN]

Owned == IF task[pid].for = "phone" THEN net_video_rec ELSE camera_hdl
Alive == pid # 0 /\ task[pid].at # "dead"

\* There is no task.
Off == /\ ~Alive /\ ~spiInit /\ ~reinit
       /\ state \in {"IDEL", "CLOSE"}

\* The task comes up for the first time.
Starts == /\ Alive /\ ~spiInit /\ ~reinit
          /\ \/ task[pid].at = "boot" /\ state \in {"IDEL", "CLOSE"}
             \/ task[pid].at = "opening" /\ state = "OPENING"
             \/ task[pid].at = "up" /\ state = "OPEN" /\ Owned

\* It has the camera, and reads or is about to.
Reads(s) == /\ Alive /\ spiInit /\ ~reinit /\ Owned
            /\ task[pid].at \in {"up", "run"} /\ state = s

\* It has met a damaged frame.
Resets == /\ Alive /\ spiInit /\ Owned
          /\ \/ task[pid].at \in {"exit", "boot"} /\ reinit /\ state = "RESEST"
             \/ task[pid].at = "resetting" /\ ~reinit /\ state = "OPENING"

\* It was told to end, before the camera was closed or after.
Ends == /\ Alive /\ spiInit /\ ~reinit
        /\ task[pid].at \in {"up", "run", "exit"}
        /\ state = "OPEN" => Owned

\* Where the task is while a call is there.
Stages ==
    /\ spiCall.at \in {"none", "wait to kill"} => (Off /\ wants = {}) \/ Reads("OPEN") \/ Resets
    /\ spiCall.at = "wait" => Off \/ Reads("OPEN") \/ Resets
    /\ spiCall.at = "close" => Off \/ Reads("OPEN")
    /\ spiCall.at = "closing" => Reads("CLOSEING")
    /\ spiCall.at = "end" => Off \/ (Ends /\ state = "CLOSE")
    /\ spiCall.at = "fork" => Off
    /\ spiCall.at = "up" => Starts \/ Reads("OPEN")
    /\ spiCall.at \in {"kill", "last"} => (Off /\ wants = {}) \/ Reads("OPEN")
    /\ spiCall.at \in {"restart", "gone"} => Off \/ (Ends /\ state = "OPEN")
    /\ spiCall.at = "gone" => wants = {}
    /\ spiCall.at # "closing for the server"

BeforeFork == {"wait", "wait to kill", "close", "closing", "end", "fork", "kill", "restart"}

\* Until something goes wrong.
Orderly ==
    /\ spiCalls \in 0..MaxSpiCalls /\ pid \in 0..spiCalls /\ killed \subseteq 0..pid
    /\ spiCall.at \in BeforeFork => pid < spiCalls
    /\ \A t \in Tasks : t # pid => task[t].at = "dead"
    /\ pid \in killed => spiCall.at \in {"end", "restart", "gone"} \/ ~Alive
    /\ Alive /\ task[pid].at = "exit" /\ ~reinit => pid \in killed
    /\ Stages
    /\ spiCall.at = "up" => task[pid].for = spiCall.user
    /\ spiCall.at = "none" /\ spiAnswer.ok => spiInit /\ task[pid].for = spiAnswer.user

SpiInv == SpiType /\ (bad = {} => Orderly)

Records == [for : Users, at : TaskStages]

LEMMA GoesTo ==
  ASSUME SpiType, NEW t \in Tasks, NEW at \in TaskStages, Goes(t, at)
  PROVE  /\ task' \in [Tasks -> Records]
         /\ task'[t].at = at /\ task'[t].for = task[t].for
         /\ \A s \in Tasks : s # t => task'[s] = task[s]
  <1>1. task \in [Tasks -> Records]
    BY DEF SpiType, Records
  <1>2. task' = [task EXCEPT ![t] = [task[t] EXCEPT !.at = at]]
    BY DEF Goes
  <1>3. task[t] \in Records
    BY <1>1
  <1> DEFINE r == [task[t] EXCEPT !.at = at]
  <1>4. r \in Records /\ r.at = at /\ r.for = task[t].for
    BY <1>3 DEF Records
  <1> HIDE DEF r
  <1>5. task' = [task EXCEPT ![t] = r]
    BY <1>2 DEF r
  <1> QED BY <1>1, <1>4, <1>5

SpiCallType == [at : CallStages, user : Users, killing : BOOLEAN]

LEMMA CallAt ==
  ASSUME SpiType, NEW p \in CallStages, At(p)
  PROVE  /\ spiCall' \in SpiCallType
         /\ spiCall'.at = p /\ spiCall'.user = spiCall.user
  <1>1. spiCall \in SpiCallType
    BY DEF SpiType, SpiCallType
  <1> QED BY <1>1 DEF At, SpiCallType

LEMMA SpiTaskType ==
  ASSUME SpiType, NEW t \in Tasks,
         \/ SpiBoot(t) \/ SpiBootFails(t) \/ SpiOpened(t) \/ SpiReset(t)
         \/ SpiUp(t) \/ SpiDamaged(t) \/ SpiKilled(t) \/ SpiExit(t)
  PROVE  SpiType'
  <1>1. task[t].for \in Users
    BY DEF SpiType
  <1>2. \E at \in TaskStages : Goes(t, at)
    BY DEF SpiBoot, SpiBootFails, SpiOpened, SpiReset, SpiUp, SpiDamaged, SpiKilled, SpiExit,
           TaskStages
  <1>3. task' \in [Tasks -> Records]
    BY <1>2, GoesTo
  <1>4. spiCall' = spiCall /\ spiAnswer' = spiAnswer
    BY DEF SpiBoot, SpiBootFails, SpiOpened, SpiReset, SpiUp, SpiDamaged, SpiKilled, SpiExit
  <1>5. spiInit' \in BOOLEAN
    BY DEF SpiType, SpiBoot, SpiBootFails, SpiOpened, SpiReset, SpiUp, SpiDamaged, SpiKilled, SpiExit
  <1>6. camera_hdl' \in BOOLEAN
    BY DEF SpiType, SpiBoot, SpiBootFails, SpiOpened, SpiReset, SpiUp, SpiDamaged, SpiKilled, SpiExit
  <1>7. net_video_rec' \in BOOLEAN
    BY DEF SpiType, SpiBoot, SpiBootFails, SpiOpened, SpiReset, SpiUp, SpiDamaged, SpiKilled, SpiExit
  <1>8. reinit' \in BOOLEAN
    BY DEF SpiType, SpiBoot, SpiBootFails, SpiOpened, SpiReset, SpiUp, SpiDamaged, SpiKilled, SpiExit
  <1>9. net_priv' \in Users
    BY <1>1 DEF SpiType, SpiBoot, SpiBootFails, SpiOpened, SpiReset, SpiUp, SpiDamaged, SpiKilled, SpiExit
  <1> QED BY <1>3, <1>4, <1>5, <1>6, <1>7, <1>8, <1>9 DEF SpiType, Records

LEMMA SpiCallsType ==
  ASSUME SpiType,
         \/ \E u \in Users : SpiCreate(u) \/ SpiKill(u)
         \/ SpiWaited \/ CloseBegins \/ CloseEnds \/ SpiEnd \/ SpiFork \/ SpiAnswer
         \/ SpiKillFlag \/ SpiRestart \/ SpiLast \/ SpiGone \/ SpiPkgErr
  PROVE  SpiType'
  <1>1. spiCall \in SpiCallType /\ spiCall.user \in Users /\ spiCall.killing \in BOOLEAN
    BY DEF SpiType, SpiCallType
  <1>2. /\ \A p \in CallStages : At(p) => spiCall' \in SpiCallType
        /\ SpiReturn => spiCall' \in SpiCallType
    <2>1. SpiReturn => spiCall' \in SpiCallType
      BY DEF SpiReturn, NoSpiCall, SpiCallType, CallStages, Users
    <2> QED BY CallAt, <2>1
  <1>3. spiCall' \in SpiCallType
    <2>1. CASE \E u \in Users : SpiCreate(u) \/ SpiKill(u)
      <3>1. PICK u \in Users : SpiCreate(u) \/ SpiKill(u)
        BY <2>1
      <3>2. PICK at \in CallStages, b \in BOOLEAN :
                spiCall' = [at |-> at, user |-> u, killing |-> b]
        BY <3>1 DEF SpiCreate, SpiKill, CallStages
      <3> QED BY <3>2 DEF SpiCallType
    <2>2. CASE SpiWaited
      BY <1>2, <2>2 DEF SpiWaited, CallStages
    <2>3. CASE CloseBegins
      BY <1>2, <2>3 DEF CloseBegins, CallStages
    <2>4. CASE CloseEnds
      BY <1>2, <2>4 DEF CloseEnds, CallStages
    <2>5. CASE SpiEnd
      BY <1>1, <2>5 DEF SpiEnd
    <2>6. CASE SpiFork
      BY <1>2, <2>6 DEF SpiFork, CallStages
    <2>7. CASE SpiAnswer
      BY <1>2, <2>7 DEF SpiAnswer, CallStages
    <2>8. CASE SpiKillFlag
      BY <1>2, <2>8 DEF SpiKillFlag, CallStages
    <2>9. CASE SpiRestart
      <3>1. net_priv \in Users
        BY DEF SpiType
      <3>2. PICK u \in Users : spiCall' = [at |-> "wait", killing |-> TRUE, user |-> u]
        BY <2>9, <3>1 DEF SpiRestart, Users
      <3> QED BY <3>2 DEF SpiCallType, CallStages
    <2>10. CASE SpiLast
      BY <1>2, <2>10 DEF SpiLast, CallStages
    <2>11. CASE SpiGone
      BY <1>2, <2>11 DEF SpiGone
    <2>12. CASE SpiPkgErr
      BY <2>12 DEF SpiPkgErr, NoSpiCall, SpiCallType, CallStages, Users
    <2> QED BY <2>1, <2>2, <2>3, <2>4, <2>5, <2>6, <2>7, <2>8, <2>9, <2>10, <2>11, <2>12
  <1>4. spiAnswer' \in [user : Users, ok : BOOLEAN]
    <2>1. CASE SpiAnswer
      <3>1. PICK b \in BOOLEAN : b = (spiInit /\ ~spiCall.killing)
        OBVIOUS
      <3>2. spiAnswer' = [user |-> spiCall.user, ok |-> b]
        BY <2>1, <3>1 DEF SpiAnswer
      <3> QED BY <1>1, <3>2
    <2>2. CASE SpiReturn
      BY <1>1, <2>2 DEF SpiReturn
    <2>3. CASE UNCHANGED spiAnswer
      BY <2>3 DEF SpiType
    <2> QED BY <2>1, <2>2, <2>3 DEF SpiCreate, SpiKill, SpiWaited, CloseBegins, CloseEnds, SpiEnd,
              SpiFork, SpiAnswer, SpiKillFlag, SpiRestart, SpiLast, SpiGone, SpiPkgErr
  <1>5. task' \in [Tasks -> Records]
    <2>1. CASE SpiFork
      <3>1. [for |-> spiCall.user, at |-> "boot"] \in Records
        BY <1>1 DEF Records, TaskStages
      <3> DEFINE r == [for |-> spiCall.user, at |-> "boot"]
      <3>2. task' = [task EXCEPT ![pid + 1] = r] /\ task \in [Tasks -> Records]
        BY <2>1 DEF SpiFork, SpiType, Records
      <3> HIDE DEF r
      <3> QED BY <3>1, <3>2 DEF r
    <2>2. CASE UNCHANGED task
      BY <2>2 DEF SpiType, Records
    <2> QED BY <2>1, <2>2 DEF SpiCreate, SpiKill, SpiWaited, CloseBegins, CloseEnds, SpiEnd,
              SpiFork, SpiAnswer, SpiKillFlag, SpiRestart, SpiLast, SpiGone, SpiPkgErr, CallOnly
  <1>6. /\ spiInit' = spiInit /\ reinit' = reinit /\ net_priv' = net_priv
        /\ camera_hdl' \in BOOLEAN /\ net_video_rec' \in BOOLEAN
    <2>1. CASE CloseEnds
      BY <2>1 DEF CloseEnds, Closes, SpiType
    <2>2. CASE ~CloseEnds
      BY <2>2 DEF SpiCreate, SpiKill, SpiWaited, CloseBegins, SpiEnd, SpiType,
              SpiFork, SpiAnswer, SpiKillFlag, SpiRestart, SpiLast, SpiGone, SpiPkgErr, CallOnly
    <2> QED BY <2>1, <2>2
  <1> QED BY <1>3, <1>4, <1>5, <1>6 DEF SpiType, Records, SpiCallType

\* A step of the task while all is well: that of the last one forked.
LEMMA TaskOrderly ==
  ASSUME SpiType, Orderly, bad' = {}, NEW t \in Tasks,
         \/ SpiBoot(t) \/ SpiBootFails(t) \/ SpiOpened(t) \/ SpiReset(t)
         \/ SpiUp(t) \/ SpiDamaged(t) \/ SpiKilled(t) \/ SpiExit(t)
  PROVE  Orderly'
  <1>1. t = pid /\ Alive
    <2>1. task[t].at # "dead"
      BY DEF SpiBoot, SpiBootFails, SpiOpened, SpiReset, SpiUp, SpiDamaged, SpiKilled, SpiExit
    <2>2. t = pid
      BY <2>1 DEF Orderly
    <2> QED BY <2>1, <2>2 DEF Alive, Tasks
  <1>2. PICK at \in TaskStages : Goes(t, at)
    BY DEF SpiBoot, SpiBootFails, SpiOpened, SpiReset, SpiUp, SpiDamaged, SpiKilled, SpiExit,
           TaskStages
  <1>3. /\ task'[pid].at = at /\ task'[pid].for = task[pid].for
        /\ \A s \in Tasks : s # pid => task'[s].at = "dead"
    BY <1>1, <1>2, GoesTo DEF Orderly
  <1>4. UNCHANGED <<pid, killed, spiCall, spiAnswer, spiCalls, wants>>
    BY DEF SpiBoot, SpiBootFails, SpiOpened, SpiReset, SpiUp, SpiDamaged, SpiKilled, SpiExit
  <1>5. \A a \in TaskStages : Goes(t, a) => at = a
    BY <1>1, <1>3, GoesTo
  <1>6. task[pid].for \in Users /\ spiCall.at \in CallStages
    BY <1>1 DEF SpiType
  <1>7. SUFFICES ASSUME TRUE
                 PROVE  /\ pid \in killed => spiCall.at \in {"end", "restart", "gone"} \/ ~Alive'
                        /\ Alive' /\ at = "exit" /\ ~reinit' => pid \in killed
                        /\ Stages'
                        /\ spiCall.at = "none" /\ spiAnswer.ok => spiInit'
    BY <1>3, <1>4 DEF Orderly
  <1>8. Alive' <=> at # "dead"
    BY <1>1, <1>3, <1>4 DEF Alive
  <1>9. Owned' <=> IF task[pid].for = "phone" THEN net_video_rec' ELSE camera_hdl'
    BY <1>3, <1>4 DEF Owned
  <1>10. /\ pid \in killed => spiCall.at \in {"end", "restart", "gone"}
         /\ Alive /\ task[pid].at = "exit" /\ ~reinit => pid \in killed
         /\ Stages /\ Alive
         /\ spiCall.at = "none" /\ spiAnswer.ok => spiInit
    BY <1>1 DEF Orderly
  <1>11. CASE SpiBoot(t)
    <2>1. /\ task[pid].at = "boot" /\ ~reinit'
          /\ \/ state \in {"OPEN", "OPENING"}
             \/ state = "RESEST" /\ at = "resetting" /\ state' = "OPENING"
             \/ state \notin {"OPEN", "OPENING", "RESEST"} /\ at = "opening" /\ state' = "OPENING"
          /\ UNCHANGED <<spiInit, camera_hdl, net_video_rec>>
      BY <1>1, <1>5, <1>11 DEF SpiBoot, TaskStages
    <2>2. Owned' <=> Owned
      BY <1>9, <2>1 DEF Owned
    <2>3. Starts \/ Resets
      BY <1>6, <1>10, <2>1 DEF Stages, CallStages, Off, Reads, Ends
    <2>4. CASE Starts
      <3>1. spiCall.at = "up" /\ ~spiInit /\ at = "opening" /\ state' = "OPENING"
        BY <1>6, <1>10, <2>1, <2>4 DEF Stages, CallStages, Off, Starts, Reads, Resets, Ends
      <3>2. Starts'
        BY <1>3, <1>4, <1>8, <2>1, <3>1 DEF Starts
      <3> QED BY <1>4, <1>10, <3>1, <3>2 DEF Stages
    <2>5. CASE Resets
      <3>1. spiCall.at \in {"none", "wait", "wait to kill"} /\ spiInit /\ Owned
            /\ at = "resetting" /\ state' = "OPENING"
        BY <1>6, <1>10, <2>1, <2>5 DEF Stages, CallStages, Off, Starts, Reads, Resets, Ends
      <3>2. Resets'
        BY <1>3, <1>4, <1>8, <2>1, <2>2, <3>1 DEF Resets
      <3> QED BY <1>4, <1>10, <2>1, <3>1, <3>2 DEF Stages
    <2> QED BY <2>3, <2>4, <2>5
  <1>12. CASE SpiBootFails(t)
    BY <1>12 DEF SpiBootFails, Fault
  <1>13. CASE SpiOpened(t)
    <2>1. /\ task[pid].at = "opening" /\ at = "up" /\ state' = "OPEN"
          /\ IF task[pid].for = "yuv" THEN camera_hdl' ELSE net_video_rec'
          /\ UNCHANGED <<spiInit, reinit>>
      BY <1>1, <1>5, <1>13 DEF SpiOpened, TaskStages, Fault
    <2>2. Owned'
      BY <1>6, <1>9, <2>1 DEF Users
    <2> QED BY <1>3, <1>4, <1>8, <1>10, <2>1, <2>2 DEF Stages, Off, Starts, Reads, Resets, Ends
  <1>14. CASE SpiReset(t)
    <2>1. /\ task[pid].at = "resetting" /\ at = "up"
          /\ state' = IF camera_hdl \/ net_video_rec THEN "OPEN" ELSE state
          /\ UNCHANGED <<spiInit, reinit, camera_hdl, net_video_rec>>
      BY <1>1, <1>5, <1>14 DEF SpiReset, TaskStages, Fault
    <2>2. Owned' <=> Owned
      BY <1>9, <2>1 DEF Owned
    <2>3. Owned => state' = "OPEN"
      BY <2>1 DEF Owned
    <2> QED BY <1>3, <1>4, <1>8, <1>10, <2>1, <2>2, <2>3 DEF Stages, Off, Starts, Reads, Resets, Ends
  <1>15. CASE SpiUp(t)
    <2>1. /\ task[pid].at = "up" /\ at = "run" /\ spiInit'
          /\ UNCHANGED <<state, reinit, camera_hdl, net_video_rec>>
      BY <1>1, <1>5, <1>15 DEF SpiUp, TaskStages
    <2>2. Owned' <=> Owned
      BY <1>9, <2>1 DEF Owned
    <2> QED BY <1>3, <1>4, <1>8, <1>10, <2>1, <2>2 DEF Stages, Off, Starts, Reads, Resets, Ends
  <1>16. CASE SpiDamaged(t)
    <2>1. /\ task[pid].at = "run" /\ at = "exit" /\ reinit' /\ state' = "RESEST"
          /\ spiCall.at = "none"
          /\ UNCHANGED <<spiInit, camera_hdl, net_video_rec>>
      BY <1>1, <1>5, <1>16 DEF SpiDamaged, TaskStages
    <2>2. Owned' <=> Owned
      BY <1>9, <2>1 DEF Owned
    <2> QED BY <1>3, <1>4, <1>8, <1>10, <2>1, <2>2 DEF Stages, Off, Starts, Reads, Resets, Ends
  <1>17. CASE SpiKilled(t)
    <2>1. /\ task[pid].at = "run" /\ at = "exit" /\ pid \in killed
          /\ UNCHANGED <<state, spiInit, reinit, camera_hdl, net_video_rec>>
      BY <1>1, <1>5, <1>17 DEF SpiKilled, TaskStages
    <2>2. Owned' <=> Owned
      BY <1>9, <2>1 DEF Owned
    <2> QED BY <1>3, <1>4, <1>8, <1>10, <2>1, <2>2 DEF Stages, Off, Starts, Reads, Resets, Ends
  <1>18. CASE SpiExit(t)
    <2>1. task[pid].at = "exit" /\ reinit' = reinit
      BY <1>1, <1>18 DEF SpiExit
    <2>2. CASE reinit
      <3>1. /\ at = "boot"
            /\ UNCHANGED <<state, spiInit, camera_hdl, net_video_rec>>
        BY <1>1, <1>5, <1>18, <2>2 DEF SpiExit, TaskStages
      <3>2. Owned' <=> Owned
        BY <1>9, <3>1 DEF Owned
      <3> QED BY <1>3, <1>4, <1>8, <1>10, <2>1, <2>2, <3>1, <3>2
              DEF Stages, Off, Starts, Reads, Resets, Ends
    <2>3. CASE ~reinit
      <3>1. /\ at = "dead" /\ ~spiInit'
            /\ \/ state' = "CLOSE"
               \/ /\ ~(net_video_rec /\ spiInit /\ ~Shut) /\ ~camera_hdl
                  /\ UNCHANGED state
        BY <1>1, <1>5, <1>18, <2>3 DEF SpiExit, TaskStages
      <3>2. spiInit /\ (state = "CLOSE" \/ (state = "OPEN" /\ Owned))
            /\ spiCall.at \in {"end", "restart", "gone"}
        BY <1>10, <2>1, <2>3 DEF Stages, Off, Starts, Reads, Resets, Ends
      <3>3. state' = "CLOSE"
        BY <3>1, <3>2 DEF Owned, Shut
      <3> QED BY <1>3, <1>4, <1>8, <1>10, <2>1, <2>3, <3>1, <3>2, <3>3
              DEF Stages, Off, Starts, Reads, Resets, Ends
    <2> QED BY <2>2, <2>3
  <1> QED BY <1>11, <1>12, <1>13, <1>14, <1>15, <1>16, <1>17, <1>18

\* A step of a call while all is well.
LEMMA CallsOrderly ==
  ASSUME SpiType, Orderly, bad' = {},
         \/ \E u \in Users : SpiCreate(u) \/ SpiKill(u)
         \/ SpiWaited \/ CloseBegins \/ CloseEnds \/ SpiEnd \/ SpiFork \/ SpiAnswer
         \/ SpiKillFlag \/ SpiRestart \/ SpiLast \/ SpiGone \/ SpiPkgErr
  PROVE  Orderly'
  <1> USE DEF CallOnly
  <1>1. \A p \in CallStages : At(p) => spiCall'.at = p /\ spiCall'.user = spiCall.user
    BY CallAt
  <1>2. spiCall.at \in CallStages /\ spiCall.user \in Users
    BY DEF SpiType
  <1>3. spiCall.at # "closing for the server" /\ Stages
    BY DEF Orderly, Stages
  <1>3a. spiCalls \in Nat /\ pid \in Nat /\ pid \in 0..pid
    BY CallsAssumption DEF Orderly
  <1>3b. PICK no \in BOOLEAN : no = FALSE
    OBVIOUS
  <1>3c. SpiReturn => spiCall'.at = "none" /\ ~spiAnswer'.ok
    <2> SUFFICES ASSUME SpiReturn PROVE spiCall'.at = "none" /\ ~spiAnswer'.ok
      OBVIOUS
    <2>1. /\ spiCall' = [at |-> "none", user |-> "phone", killing |-> no]
          /\ spiAnswer' = [user |-> spiCall.user, ok |-> no]
      BY <1>3b DEF SpiReturn, NoSpiCall
    <2>2. spiCall'.at = "none" /\ spiAnswer'.ok = no
      BY <2>1
    <2> QED BY <1>3b, <2>2
  <1>4. CASE \E u \in Users : SpiCreate(u) \/ SpiKill(u)
    <2>1. /\ spiCall.at = "none" /\ spiCall'.at \in {"wait", "wait to kill"}
          /\ spiCalls' = spiCalls + 1 /\ spiCalls < MaxSpiCalls
          /\ UNCHANGED <<state, spiInit, camera_hdl, net_video_rec, reinit, wants, task, pid,
                         killed>>
      <3>1. PICK u \in Users : SpiCreate(u) \/ SpiKill(u)
        BY <1>4
      <3>2. spiCall'.at \in {"wait", "wait to kill"}
        <4>1. CASE SpiCreate(u)
          <5>1. spiCall' = [at |-> "wait", user |-> u, killing |-> no]
            BY <1>3b, <4>1 DEF SpiCreate
          <5> QED BY <5>1
        <4>2. CASE SpiKill(u)
          <5>1. PICK yes \in BOOLEAN : yes = TRUE
            OBVIOUS
          <5>2. spiCall' = [at |-> "wait to kill", user |-> u, killing |-> yes]
            BY <4>2, <5>1 DEF SpiKill
          <5> QED BY <5>2
        <4> QED BY <3>1, <4>1, <4>2
      <3> QED BY <3>1, <3>2 DEF SpiCreate, SpiKill, MayCall
    <2>2. spiCalls' \in 0..MaxSpiCalls /\ pid \in 0..spiCalls' /\ pid < spiCalls'
      <3>1. pid \in 0..spiCalls /\ MaxSpiCalls \in Nat
        BY CallsAssumption DEF Orderly
      <3>2. spiCalls' = spiCalls + 1 /\ spiCalls < MaxSpiCalls
        BY <2>1
      <3> QED BY <1>3a, <3>1, <3>2
    <2>3. Stages'
      BY <1>3, <2>1 DEF Stages, Off, Reads, Resets, Alive, Owned
    <2> QED BY <2>1, <2>2, <2>3 DEF Orderly, Alive
  <1>5. CASE SpiWaited
    <2>1. /\ ~Waiting
          /\ \/ spiCall.at = "wait" /\ spiCall'.at = "close"
             \/ spiCall.at = "wait to kill" /\ spiCall'.at = "kill"
          /\ UNCHANGED <<state, spiInit, camera_hdl, net_video_rec, reinit, wants, task, pid,
                         killed, spiCalls>>
      BY <1>1, <1>5 DEF SpiWaited, Fault, CallStages
    <2>2. Stages'
      BY <1>3, <2>1 DEF Stages, Off, Reads, Resets, Alive, Owned, Waiting
    <2> QED BY <2>1, <2>2 DEF Orderly, Alive, BeforeFork
  <1>6. CASE CloseBegins
    <2>1. /\ spiCall.at = "close"
          /\ \/ ~spiInit /\ spiCall'.at = "fork" /\ state' = state
             \/ spiInit /\ Shut
             \/ spiInit /\ spiCall'.at = "closing" /\ state' = "CLOSEING"
          /\ UNCHANGED <<spiInit, camera_hdl, net_video_rec, reinit, wants, task, pid,
                         killed, spiCalls>>
      BY <1>1, <1>6 DEF CloseBegins, CallStages
    <2>2. Off \/ Reads("OPEN")
      BY <1>3, <2>1 DEF Stages
    <2>3. spiCall'.at \in {"fork", "closing"} /\ Stages'
      <3>1. CASE Off
        <4>1. spiCall'.at = "fork" /\ state' = state
          BY <2>1, <3>1 DEF Off
        <4>2. Off'
          BY <2>1, <3>1, <4>1 DEF Off, Alive
        <4> QED BY <4>1, <4>2 DEF Stages
      <3>2. CASE Reads("OPEN")
        <4>1. spiCall'.at = "closing" /\ state' = "CLOSEING"
          BY <2>1, <3>2 DEF Reads, Shut
        <4>2. Reads("CLOSEING")'
          BY <2>1, <3>2, <4>1 DEF Reads, Alive, Owned
        <4> QED BY <4>1, <4>2 DEF Stages
      <3> QED BY <2>2, <3>1, <3>2
    <2> QED BY <2>1, <2>3 DEF Orderly, Alive, BeforeFork
  <1>7. CASE CloseEnds
    <2>1. /\ spiCall.at = "closing" /\ spiCall'.at = "end" /\ state' = "CLOSE"
          /\ UNCHANGED <<spiInit, reinit, wants, task, pid, killed, spiCalls>>
      BY <1>1, <1>3, <1>7 DEF CloseEnds, Closes, Fault, CallStages
    <2>2. Ends'
      BY <1>3, <2>1 DEF Stages, Reads, Ends, Alive
    <2>3. Stages'
      BY <2>1, <2>2 DEF Stages
    <2> QED BY <2>1, <2>3 DEF Orderly, Alive, BeforeFork
  <1>8. CASE SpiEnd
    <2>1. /\ spiCall.at = "end" /\ spiCall' = spiCall /\ pid \notin killed
          /\ killed' = killed \cup {pid}
          /\ UNCHANGED <<state, spiInit, camera_hdl, net_video_rec, reinit, wants, task, pid,
                         spiCalls>>
      BY <1>8 DEF SpiEnd
    <2>2. Stages'
      BY <1>3, <2>1 DEF Stages, Off, Ends, Alive, Owned
    <2>3. killed' \subseteq 0..pid
      BY <1>3a, <2>1 DEF Orderly
    <2> QED BY <2>1, <2>2, <2>3 DEF Orderly, Alive, BeforeFork
  <1>9. CASE SpiFork
    <2>1. /\ spiCall.at = "fork" \/ (spiCall.at = "end" /\ Ended)
          /\ pid' = pid + 1 /\ spiCall'.at = "up" /\ spiCall'.user = spiCall.user
          /\ task' = [task EXCEPT ![pid + 1] = [for |-> spiCall.user, at |-> "boot"]]
          /\ UNCHANGED <<state, spiInit, camera_hdl, net_video_rec, reinit, killed, spiCalls>>
      BY <1>1, <1>9 DEF SpiFork, CallStages
    <2>2. Off
      BY <1>3, <2>1 DEF Stages, Ended, Ends, Alive
    <2>3. pid + 1 \in Tasks /\ pid + 1 \in 1..spiCalls
      <3>1. pid \in 0..spiCalls /\ pid < spiCalls /\ spiCalls \in 0..MaxSpiCalls
        BY <2>1 DEF Orderly, BeforeFork
      <3> QED BY <3>1, CallsAssumption DEF Tasks
    <2>4. /\ task'[pid'].at = "boot" /\ task'[pid'].for = spiCall.user
          /\ \A s \in Tasks : s # pid' => task'[s] = task[s]
      BY <2>1, <2>3 DEF SpiType
    <2>5. \A s \in Tasks : s # pid' => task'[s].at = "dead"
      <3>1. \A s \in Tasks : task[s].at = "dead"
        BY <2>2 DEF Orderly, Off, Alive, Tasks
      <3> QED BY <2>4, <3>1
    <2>6. killed' \subseteq 0..pid' /\ pid' \notin killed'
      BY <2>1, <2>3 DEF Orderly
    <2>7. Starts'
      BY <2>1, <2>2, <2>3, <2>4 DEF Off, Starts, Alive
    <2>8. Stages'
      BY <2>1, <2>7 DEF Stages
    <2>9. pid' \in 0..spiCalls' /\ spiCalls' \in 0..MaxSpiCalls
      BY <2>1, <2>3 DEF Orderly
    <2> QED BY <2>1, <2>4, <2>5, <2>6, <2>8, <2>9 DEF Orderly, BeforeFork
  <1>10. CASE SpiAnswer
    <2>1. /\ spiCall.at = "up" /\ spiInit /\ spiCall'.at \in {"none", "last"}
          /\ spiAnswer'.user = spiCall.user
          /\ UNCHANGED <<state, spiInit, camera_hdl, net_video_rec, reinit, wants, task, pid,
                         killed, spiCalls>>
      BY <1>1, <1>10 DEF SpiAnswer, Fault, CallStages
    <2>2. Stages'
      BY <1>3, <2>1 DEF Stages, Off, Starts, Reads, Alive, Owned
    <2> QED BY <2>1, <2>2 DEF Orderly, Alive, BeforeFork
  <1>11. CASE SpiKillFlag
    <2>1. /\ spiCall.at = "kill" /\ wants' = wants \ {spiCall.user}
          /\ \/ /\ OtherUser(spiCall.user) \in wants
                /\ killed' = killed \cup {pid} /\ spiCall'.at = "restart"
             \/ killed' = killed /\ spiCall'.at = "last"
          /\ UNCHANGED <<state, spiInit, camera_hdl, net_video_rec, reinit, task, pid,
                         spiCalls>>
      BY <1>1, <1>11 DEF SpiKillFlag, CallStages
    <2>2. (Off /\ wants = {}) \/ Reads("OPEN")
      BY <1>3, <2>1 DEF Stages
    <2>3. CASE Off /\ wants = {}
      <3>1. spiCall'.at = "last" /\ wants' = {} /\ killed' = killed
        BY <2>1, <2>3
      <3>2. Off'
        BY <2>1, <2>3 DEF Off, Alive
      <3>3. Stages'
        BY <3>1, <3>2 DEF Stages
      <3> QED BY <2>1, <3>1, <3>3 DEF Orderly, Alive, BeforeFork
    <2>4. CASE Reads("OPEN")
      <3>1. Reads("OPEN")' /\ Ends' /\ state' = "OPEN"
        BY <2>1, <2>4 DEF Reads, Ends, Alive, Owned
      <3>2. Stages'
        BY <2>1, <3>1 DEF Stages
      <3>3. killed' \subseteq 0..pid
        BY <1>3a, <2>1, <2>4 DEF Orderly, Reads, Alive
      <3> QED BY <2>1, <3>2, <3>3 DEF Orderly, Alive, BeforeFork
    <2> QED BY <2>2, <2>3, <2>4
  <1>12. CASE SpiRestart
    <2>1. /\ spiCall.at = "restart" /\ Ended /\ spiCall'.at = "wait"
          /\ UNCHANGED <<state, spiInit, camera_hdl, net_video_rec, reinit, wants, task, pid,
                         killed, spiCalls>>
      BY <1>12 DEF SpiRestart
    <2>2. Off
      BY <1>3, <2>1 DEF Stages, Ended, Ends, Alive
    <2>3. Off'
      BY <2>1, <2>2 DEF Off, Alive
    <2>4. Stages'
      BY <2>1, <2>3 DEF Stages
    <2> QED BY <2>1, <2>2, <2>4 DEF Orderly, Off, Alive, BeforeFork
  <1>13. CASE SpiLast
    <2>1. /\ spiCall.at = "last"
          /\ \/ /\ spiInit /\ wants = {} /\ killed' = killed \cup {pid} /\ spiCall'.at = "gone"
             \/ killed' = killed /\ spiCall'.at = "none" /\ ~spiAnswer'.ok
          /\ UNCHANGED <<state, spiInit, camera_hdl, net_video_rec, reinit, wants, task, pid,
                         spiCalls>>
      <3>1. SpiReturn => spiCall'.at = "none" /\ ~spiAnswer'.ok
        BY <1>3c
      <3> QED BY <1>1, <1>13, <3>1 DEF SpiLast, CallStages
    <2>2. (Off /\ wants = {}) \/ Reads("OPEN")
      BY <1>3, <2>1 DEF Stages
    <2>3. CASE Off /\ wants = {}
      <3>1. spiCall'.at = "none" /\ killed' = killed /\ ~spiAnswer'.ok
        BY <2>1, <2>3 DEF Off
      <3>2. Off' /\ wants' = {}
        BY <2>1, <2>3 DEF Off, Alive
      <3>3. Stages'
        BY <3>1, <3>2 DEF Stages
      <3> QED BY <2>1, <3>1, <3>3 DEF Orderly, Alive, BeforeFork
    <2>4. CASE Reads("OPEN")
      <3>1. Reads("OPEN")' /\ Ends' /\ state' = "OPEN"
        BY <2>1, <2>4 DEF Reads, Ends, Alive, Owned
      <3>2. Stages'
        BY <2>1, <3>1 DEF Stages
      <3>3. killed' \subseteq 0..pid
        BY <1>3a, <2>1, <2>4 DEF Orderly, Reads, Alive
      <3> QED BY <2>1, <3>2, <3>3 DEF Orderly, Alive, BeforeFork
    <2> QED BY <2>2, <2>3, <2>4
  <1>14. CASE SpiGone
    <2>1. /\ spiCall.at = "gone" /\ Ended /\ spiCall'.at = "none" /\ ~spiAnswer'.ok
          /\ UNCHANGED <<state, spiInit, camera_hdl, net_video_rec, reinit, wants, task, pid,
                         killed, spiCalls>>
      BY <1>3c, <1>14 DEF SpiGone
    <2>2. Off /\ wants = {}
      BY <1>3, <2>1 DEF Stages, Ended, Ends, Alive
    <2>3. Off'
      BY <2>1, <2>2 DEF Off, Alive
    <2>4. Stages'
      BY <2>1, <2>2, <2>3 DEF Stages
    <2> QED BY <2>1, <2>2, <2>4 DEF Orderly, Off, Alive, BeforeFork
  <1>15. CASE SpiPkgErr
    BY <1>15 DEF SpiPkgErr, Fault
  <1> QED BY <1>4, <1>5, <1>6, <1>7, <1>8, <1>9, <1>10, <1>11, <1>12, <1>13, <1>14, <1>15

LEMMA SpiStep == SpiInv /\ [SpiNext]_spiVars => SpiInv'
  <1> SUFFICES ASSUME SpiInv, [SpiNext]_spiVars PROVE SpiInv'
    OBVIOUS
  <1>1. CASE UNCHANGED spiVars
    <2>1. SpiType'
      BY <1>1 DEF spiVars, SpiInv, SpiType
    <2>2. Stages => Stages'
      BY <1>1 DEF spiVars, Stages, Off, Starts, Reads, Resets, Ends, Alive, Owned
    <2>3. Orderly => Orderly'
      BY <1>1, <2>2 DEF spiVars, Orderly, Alive
    <2> QED BY <1>1, <2>1, <2>3 DEF spiVars, SpiInv
  <1>2. ASSUME NEW t \in Tasks,
               \/ SpiBoot(t) \/ SpiBootFails(t) \/ SpiOpened(t) \/ SpiReset(t)
               \/ SpiUp(t) \/ SpiDamaged(t) \/ SpiKilled(t) \/ SpiExit(t)
        PROVE  SpiInv'
    <2>1. bad' = {} => bad = {}
      BY <1>2 DEF SpiBoot, SpiBootFails, SpiOpened, SpiReset, SpiUp, SpiDamaged, SpiKilled, SpiExit, Fault
    <2>2. SpiType'
      BY <1>2, SpiTaskType DEF SpiInv
    <2>3. bad' = {} => Orderly'
      BY <1>2, <2>1, TaskOrderly DEF SpiInv
    <2> QED BY <2>2, <2>3 DEF SpiInv
  <1>3. ASSUME \/ \E u \in Users : SpiCreate(u) \/ SpiKill(u)
               \/ SpiWaited \/ CloseBegins \/ CloseEnds \/ SpiEnd \/ SpiFork \/ SpiAnswer
               \/ SpiKillFlag \/ SpiRestart \/ SpiLast \/ SpiGone \/ SpiPkgErr
        PROVE  SpiInv'
    <2>1. bad' = {} => bad = {}
      BY <1>3 DEF SpiCreate, SpiKill, SpiWaited, CloseBegins, CloseEnds, Closes, SpiEnd, SpiFork,
                  SpiAnswer, SpiKillFlag, SpiRestart, SpiLast, SpiGone, SpiPkgErr, Fault
    <2>2. SpiType'
      BY <1>3, SpiCallsType DEF SpiInv
    <2>3. bad' = {} => Orderly'
      BY <1>3, <2>1, CallsOrderly DEF SpiInv
    <2> QED BY <2>2, <2>3 DEF SpiInv
  <1> QED BY <1>1, <1>2, <1>3 DEF SpiNext

\* Until something goes wrong, a user that was told so has a task that reads for
\* it alone, whatever damaged frames it met between the calls: the calls wait
\* for it to be up again, and end it before they fork another
\* (spi_video_task_create, spi_video_task_kill).
THEOREM ServedTheorem == SpiSpec => []SpiServed
  <1>1. SpiInit => SpiInv
    <2> SUFFICES ASSUME SpiInit PROVE SpiInv
      OBVIOUS
    <2>1. SpiType
      <3>1. task \in [Tasks -> Records]
        BY DEF SpiInit, Records, TaskStages, Users
      <3>2. PICK b \in BOOLEAN : b = FALSE
        OBVIOUS
      <3>3. spiCall = [at |-> "none", user |-> "phone", killing |-> b]
            /\ spiAnswer = [user |-> "yuv", ok |-> b]
        BY <3>2 DEF SpiInit, NoSpiCall
      <3>4. spiCall \in SpiCallType /\ spiAnswer \in [user : Users, ok : BOOLEAN]
        BY <3>3 DEF SpiCallType, CallStages, Users
      <3> QED BY <3>1, <3>4 DEF SpiInit, SpiType, Records, SpiCallType, Users
    <2>2. /\ spiCall.at = "none" /\ ~spiAnswer.ok /\ pid = 0 /\ killed = {}
          /\ \A t \in Tasks : task[t].at = "dead"
      BY DEF SpiInit, NoSpiCall
    <2>3. Off
      BY <2>2 DEF SpiInit, Off, Alive
    <2>4. Stages
      BY <2>2, <2>3 DEF Stages, SpiInit
    <2> QED BY <2>1, <2>2, <2>4, CallsAssumption DEF SpiInv, Orderly, SpiInit, BeforeFork, Alive
  <1>2. SpiInv => SpiServed
    <2> SUFFICES ASSUME SpiInv, spiAnswer.ok, spiCall.at = "none", bad = {}
                 PROVE  /\ OneReader
                        /\ task[pid].at # "dead" /\ task[pid].for = spiAnswer.user
                        /\ IF spiAnswer.user = "phone" THEN net_video_rec ELSE camera_hdl
      BY DEF SpiServed
    <2>1. Orderly
      BY DEF SpiInv
    <2>2. OneReader
      BY <2>1 DEF Orderly, OneReader
    <2>3. spiInit /\ task[pid].for = spiAnswer.user
      BY <2>1 DEF Orderly
    <2>4. Reads("OPEN") \/ Resets
      BY <2>1, <2>3 DEF Orderly, Stages, Off
    <2>5. Alive /\ Owned
      BY <2>4 DEF Reads, Resets
    <2> QED BY <2>2, <2>3, <2>5 DEF Alive, Owned
  <1> QED BY <1>1, <1>2, SpiStep, PTL DEF SpiSpec

-----------------------------------------------------------------------------
(* What a playback session sends (PlayOut). *)

SoundAt(f) == avi_video_base_to_get_audio_frame(f)
PictureOf(c) == avi_audio_base_to_get_video_frame(c)

PlayType ==
    /\ i \in Nat /\ j \in Nat /\ last_video_num \in Int /\ fast_num \in Nat
    /\ fast_ctrl \in Nat /\ (fast_ctrl = 0 \/ fast_ctrl \div 16 >= 1)
    /\ tmp_is_30fps \in Nat /\ clock \in Int /\ told \in Int /\ begun \in Nat /\ sent \in Int
    /\ heard \in [chunk : Nat, at : Nat] /\ silent \in Nat

\* The date held is that of the picture it was counted to, and the phone has it from
\* the first whole second on.
DateInv ==
    /\ tmp_is_30fps <= i
    /\ file # NoFile /\ sent >= 0 => tmp_is_30fps <= sent /\ sent - tmp_is_30fps < Fps
    /\ \/ tmp_is_30fps = begun /\ told = 0
       \/ tmp_is_30fps - begun >= Fps /\ told = clock
    /\ Second % Fps = 0 =>
           /\ clock = tmp_is_30fps \div Fps
           /\ file # NoFile /\ sent >= 0 => sent \div Fps - clock \in 0..1

\* Unless fast play has counted pictures, the next chunk is not far behind the next
\* picture, and the picture to wait for is that of the chunk before.
SoundInv ==
    Chunks <= PlayFrames =>
        /\ SoundAt(heard.at) - heard.chunk \in 0..(1 + silent)
        /\ fast_num = 0 /\ j < Chunks => SoundAt(i) <= j + 1 + silent
        /\ fast_num = 0 => \/ last_video_num = PictureOf(j - 1)
                           \/ last_video_num = 0 /\ SoundAt(i) >= j

PlayInv == PlayType /\ DateInv /\ SoundInv

LEMMA AtMost ==
  ASSUME NEW n \in Nat \ {0}, NEW x \in Int, NEW k \in Int, x < n * (k + 1)
  PROVE  x \div n <= k
  <1> DEFINE d == x \div n
             r == x % n
  <1>1. d \in Int /\ r \in Int /\ 0 <= r /\ r < n /\ x = n * d + r
    BY Division
  <1> HIDE DEF d, r
  <1>2. SUFFICES ASSUME d >= k + 1 PROVE FALSE
    BY <1>1 DEF d
  <1>3. n * (d - (k + 1)) >= 0
    BY <1>1, <1>2
  <1> QED BY <1>1, <1>3

LEMMA AtLeast ==
  ASSUME NEW n \in Nat \ {0}, NEW x \in Int, NEW k \in Int, x >= n * k
  PROVE  x \div n >= k
  <1> DEFINE d == x \div n
             r == x % n
  <1>1. d \in Int /\ r \in Int /\ 0 <= r /\ r < n /\ x = n * d + r
    BY Division
  <1> HIDE DEF d, r
  <1>2. SUFFICES ASSUME d + 1 <= k PROVE FALSE
    BY <1>1 DEF d
  <1>3. n * (k - (d + 1)) >= 0
    BY <1>1, <1>2
  <1> QED BY <1>1, <1>3

\* The conversions between pictures and sound.
LEMMA Bounds ==
  ASSUME NEW f \in Int
  PROVE  /\ SoundAt(f) \in Int /\ PictureOf(f) \in Int
         /\ (f + 1) * Chunks >= PlayFrames * SoundAt(f)
         /\ (f + 1) * Chunks < PlayFrames * (SoundAt(f) + 1)
         /\ (f + 1) * PlayFrames >= Chunks * PictureOf(f)
         /\ (f + 1) * PlayFrames < Chunks * (PictureOf(f) + 1)
         /\ f >= -1 => SoundAt(f) >= 0 /\ PictureOf(f) >= 0
  <1>1. PlayFrames \in Nat \ {0} /\ Chunks \in Nat \ {0}
    BY PlayAssumption
  <1>2. ASSUME NEW n \in Nat \ {0}, NEW m \in Nat \ {0}, NEW q, q = ((f + 1) * m) \div n
        PROVE  /\ q \in Int /\ (f + 1) * m >= n * q /\ (f + 1) * m < n * (q + 1)
               /\ f >= -1 => q >= 0
    <2> DEFINE x == (f + 1) * m
               r == x % n
    <2>1. x \in Int
      OBVIOUS
    <2> HIDE DEF x
    <2>2. q \in Int /\ r \in Int /\ 0 <= r /\ r < n /\ x = n * q + r
      BY <1>2, <2>1, Division DEF x
    <2> HIDE DEF r
    <2>3. n * (q + 1) = n * q + n
      BY <2>2
    <2>4. x >= n * q /\ x < n * (q + 1)
      BY <2>1, <2>2, <2>3
    <2>5. ASSUME f >= -1 PROVE q >= 0
      <3>1. x >= n * 0
        BY <2>5 DEF x
      <3>2. x \div n >= 0
        BY <2>1, <3>1, AtLeast
      <3> QED BY <1>2, <3>2 DEF x
    <2> QED BY <2>2, <2>4, <2>5 DEF x
  <1> QED BY <1>1, <1>2
          DEF SoundAt, PictureOf, avi_video_base_to_get_audio_frame,
              avi_audio_base_to_get_video_frame

\* The sound of one picture and the next.
LEMMA SoundNext ==
  ASSUME Chunks <= PlayFrames, NEW f \in Nat
  PROVE  SoundAt(f) <= SoundAt(f + 1) /\ SoundAt(f + 1) <= SoundAt(f) + 1
  <1>1. PlayFrames \in Nat \ {0} /\ Chunks \in Nat \ {0}
    BY PlayAssumption
  <1> DEFINE s == SoundAt(f)
             x == ((f + 1) + 1) * Chunks
  <1>2. s \in Int /\ (f + 1) * Chunks >= PlayFrames * s /\ (f + 1) * Chunks < PlayFrames * (s + 1)
    BY Bounds
  <1>3. SoundAt(f + 1) = x \div PlayFrames
    BY DEF SoundAt, avi_video_base_to_get_audio_frame
  <1>4. x \in Int /\ x = (f + 1) * Chunks + Chunks
    BY <1>1
  <1> HIDE DEF s, x
  <1>5. x >= PlayFrames * s
    BY <1>1, <1>2, <1>4
  <1>6. x < PlayFrames * ((s + 1) + 1)
    BY <1>1, <1>2, <1>4
  <1>7. x \div PlayFrames >= s /\ x \div PlayFrames <= s + 1
    BY <1>1, <1>2, <1>4, <1>5, <1>6, AtLeast, AtMost
  <1> QED BY <1>3, <1>7 DEF s

\* The chunk after c has begun with the picture of c, and not long before.
LEMMA SoundOfPicture ==
  ASSUME Chunks <= PlayFrames, NEW c \in Nat, NEW f \in Nat
  PROVE  /\ f >= PictureOf(c - 1) => SoundAt(f) >= c
         /\ f < PictureOf(c - 1) => SoundAt(f) <= c
         /\ f = PictureOf(c - 1) => SoundAt(f) <= c + 1
  <1>1. PlayFrames \in Nat \ {0} /\ Chunks \in Nat \ {0}
    BY PlayAssumption
  <1> DEFINE e == PictureOf(c - 1)
             x == (f + 1) * Chunks
  <1>2. /\ e \in Int
        /\ c * PlayFrames >= Chunks * e /\ c * PlayFrames < Chunks * (e + 1)
    BY Bounds
  <1>3. SoundAt(f) = x \div PlayFrames /\ x \in Int
    BY <1>1 DEF SoundAt, avi_video_base_to_get_audio_frame
  <1> HIDE DEF e
  <1>4. ASSUME f >= e PROVE SoundAt(f) >= c
    <2>1. (f + 1) * Chunks >= Chunks * (e + 1)
      BY <1>1, <1>2, <1>4
    <2>2. x >= PlayFrames * c
      BY <1>1, <1>2, <2>1
    <2> HIDE DEF x
    <2> QED BY <1>1, <1>3, <2>2, AtLeast
  <1>5. ASSUME f < e PROVE SoundAt(f) <= c
    <2>1. (f + 1) * Chunks <= Chunks * e
      BY <1>1, <1>2, <1>5
    <2>2. PlayFrames * (c + 1) = c * PlayFrames + PlayFrames
      BY <1>1
    <2>3. x < PlayFrames * (c + 1)
      BY <1>1, <1>2, <2>1, <2>2
    <2> HIDE DEF x
    <2> QED BY <1>1, <1>3, <2>3, AtMost
  <1>6. ASSUME f = e PROVE SoundAt(f) <= c + 1
    <2>1. (f + 1) * Chunks = Chunks * e + Chunks
      BY <1>1, <1>2, <1>6
    <2>2. PlayFrames * ((c + 1) + 1) = c * PlayFrames + PlayFrames + PlayFrames
      BY <1>1
    <2>3. x < PlayFrames * ((c + 1) + 1)
      BY <1>1, <1>2, <2>1, <2>2
    <2> HIDE DEF x
    <2> QED BY <1>1, <1>3, <2>3, AtMost
  <1> QED BY <1>4, <1>5, <1>6 DEF e

LEMMA SecondAssumption == Second \in Nat \ {0} /\ Fps \in Nat \ {0} /\ Second \div Fps \in Nat \ {0}
  <1>1. Fps \in Nat \ {0} /\ Second \in Nat /\ Second \div Fps \in Nat \ {0}
    BY PlayAssumption
  <1>2. Second # 0
    <2>1. 0 = Fps * 0 + 0
      BY <1>1
    <2>2. 0 \div Fps = 0
      BY <1>1, <2>1, Quotient
    <2> QED BY <1>1, <2>2
  <1> QED BY <1>1, <1>2

\* The date of the picture at an offset is that of the offset.
LEMMA StartDate ==
  ASSUME NEW offset \in Nat, Second % Fps = 0
  PROVE  offset \div Second = avi_get_video_num(offset) \div Fps
  <1> DEFINE q == Second \div Fps
             x == offset \div q
             r == offset % q
             y == x \div Fps
             s == x % Fps
  <1>1. Second \in Nat \ {0} /\ Fps \in Nat \ {0} /\ q \in Nat \ {0}
    BY SecondAssumption
  <1>2. Second = Fps * q
    BY <1>1, Division
  <1> HIDE DEF q
  <1>3. x \in Int /\ r \in Int /\ 0 <= r /\ r < q /\ offset = q * x + r
    BY <1>1, Division
  <1> HIDE DEF x, r
  <1>4. y \in Int /\ s \in Int /\ 0 <= s /\ s < Fps /\ x = Fps * y + s
    BY <1>1, <1>3, Division
  <1> HIDE DEF y, s
  <1> DEFINE rest == q * s + r
  <1>5. rest \in Int /\ 0 <= rest /\ rest < Second
    <2>1. q * s >= 0
      BY <1>1, <1>4
    <2>2. q * (s + 1) <= q * Fps
      BY <1>1, <1>4
    <2>3. q * (s + 1) = q * s + q /\ q * s \in Int
      BY <1>1, <1>4
    <2>4. q * Fps = Second
      BY <1>1, <1>2
    <2> QED BY <1>1, <1>3, <2>1, <2>2, <2>3, <2>4
  <1>6. offset = Second * y + rest
    <2>1. q * x = q * (Fps * y) + q * s
      BY <1>1, <1>4
    <2>2. q * (Fps * y) = Second * y
      BY <1>1, <1>2, <1>4
    <2> QED BY <1>1, <1>3, <1>4, <2>1, <2>2
  <1> HIDE DEF rest
  <1>7. offset \div Second = y
    BY <1>1, <1>4, <1>5, <1>6, Quotient
  <1> QED BY <1>7 DEF avi_get_video_num, q, x, y

LEMMA Zero == ASSUME NEW n \in Nat \ {0} PROVE 0 \div n = 0
  <1>1. 0 = n * 0 + 0
    OBVIOUS
  <1> QED BY <1>1, Quotient

LEMMA Further ==
  ASSUME NEW a \in Nat, NEW b \in Nat, NEW c \in Nat, NEW n \in Nat,
         a <= b, c - b >= n
  PROVE  c - a >= n
  OBVIOUS

\* A date that is told brings the clock up to the picture's second.
LEMMA DateMoves ==
  ASSUME NEW at \in Nat, tmp_is_30fps \in Nat, tmp_is_30fps <= at, clock \in Int,
         send_date_per_fps(at)
  PROVE  /\ tmp_is_30fps' \in Nat /\ tmp_is_30fps' <= at /\ clock' \in Int
         /\ at - tmp_is_30fps' < Fps
         /\ \/ tmp_is_30fps' = tmp_is_30fps /\ told' = told /\ clock' = clock
            \/ tmp_is_30fps' - tmp_is_30fps >= Fps /\ told' = clock'
         /\ clock = tmp_is_30fps \div Fps =>
                /\ clock' = tmp_is_30fps' \div Fps
                /\ at \div Fps - clock' \in 0..1
  <1> DEFINE t == tmp_is_30fps
             sec == (at - t) \div Fps
             r == (at - t) % Fps
             c == t \div Fps
             s == t % Fps
  <1>1. Fps \in Nat \ {0}
    BY SecondAssumption
  <1>2. clock' = clock + sec /\ tmp_is_30fps' = IF sec > 0 THEN at - r ELSE t
    BY DEF send_date_per_fps, send_date_packet
  <1>3. at - t \in Int /\ t \in Nat /\ at - t >= Fps * 0
    BY <1>1
  <1>4. sec >= 0
    BY <1>1, <1>3, AtLeast
  <1>5. sec \in Int /\ r \in Int /\ 0 <= r /\ r < Fps /\ at - t = Fps * sec + r
    BY <1>1, <1>3, Division
  <1> HIDE DEF sec, r
  <1>6. c \in Int /\ s \in Int /\ 0 <= s /\ s < Fps /\ t = Fps * c + s
    BY <1>1, <1>3, Division
  <1> HIDE DEF c, s, t
  <1>7. Fps * sec >= 0 /\ Fps * sec \in Int
    BY <1>1, <1>4, <1>5
  <1>8. tmp_is_30fps' = t + Fps * sec
    <2> DEFINE w == Fps * sec
    <2>1. w \in Int /\ at - t = w + r /\ (sec = 0 => w = 0)
      BY <1>1, <1>5, <1>7
    <2> HIDE DEF w
    <2>2. at - r = t + w
      BY <1>3, <1>5, <2>1
    <2>3. CASE sec > 0
      BY <1>2, <2>2, <2>3 DEF w
    <2>4. CASE sec = 0
      BY <1>2, <1>3, <2>1, <2>4 DEF w
    <2> QED BY <1>4, <1>5, <2>3, <2>4
  <1>9. tmp_is_30fps' \in Nat /\ tmp_is_30fps' <= at /\ at - tmp_is_30fps' < Fps
    <2> DEFINE w == Fps * sec
    <2>1. w \in Int /\ w >= 0 /\ at - t = w + r /\ tmp_is_30fps' = t + w
      BY <1>5, <1>7, <1>8
    <2> HIDE DEF w
    <2> QED BY <1>1, <1>3, <1>5, <2>1
  <1>14. \/ tmp_is_30fps' = t /\ told' = told /\ clock' = clock
         \/ tmp_is_30fps' - t >= Fps /\ told' = clock'
    <2>1. told' = IF sec # 0 THEN clock' ELSE told
      BY DEF send_date_per_fps, send_date_packet, sec, t
    <2>2. CASE sec = 0
      BY <1>2, <2>1, <2>2
    <2>3. CASE sec # 0
      <3>1. sec - 1 >= 0 /\ Fps * (sec - 1) >= 0
        BY <1>1, <1>4, <1>5, <2>3
      <3>2. Fps * sec = Fps * (sec - 1) + Fps
        BY <1>1, <1>5
      <3> DEFINE w == Fps * sec
                 v == Fps * (sec - 1)
      <3>3. w \in Int /\ v \in Int /\ w = v + Fps /\ v >= 0 /\ tmp_is_30fps' = t + w
        BY <1>1, <1>5, <1>7, <1>8, <3>1, <3>2
      <3> HIDE DEF w, v
      <3>4. tmp_is_30fps' - t >= Fps
        BY <1>1, <1>3, <3>3
      <3> QED BY <2>1, <2>3, <3>4
    <2> QED BY <2>2, <2>3
  <1>10. tmp_is_30fps' = Fps * (c + sec) + s
    BY <1>1, <1>5, <1>6, <1>8
  <1> DEFINE m == tmp_is_30fps'
  <1>11. m \in Int /\ m = Fps * (c + sec) + s /\ c + sec \in Int
    BY <1>5, <1>6, <1>9, <1>10
  <1> HIDE DEF m
  <1>12. m \div Fps = c + sec
    BY <1>1, <1>6, <1>11, Quotient
  <1>13. ASSUME clock = t \div Fps PROVE clock' = m \div Fps /\ at \div Fps - clock' \in 0..1
    <2>1. clock' = c + sec
      BY <1>2, <1>13 DEF c
    <2>2. at = m + r
      <3> DEFINE w == Fps * sec
      <3>1. w \in Int /\ at - t = w + r /\ tmp_is_30fps' = t + w
        BY <1>5, <1>7, <1>8
      <3> HIDE DEF w
      <3>2. at = tmp_is_30fps' + r
        BY <1>3, <1>5, <3>1
      <3> QED BY <3>2 DEF m
    <2>3. at >= Fps * (c + sec)
      <3> DEFINE w == Fps * (c + sec)
      <3>1. w \in Int /\ m = w + s
        BY <1>1, <1>11
      <3> HIDE DEF w
      <3>2. at >= w
        BY <1>5, <1>6, <1>11, <2>2, <3>1
      <3> QED BY <3>2 DEF w
    <2>4. at < Fps * (((c + sec) + 1) + 1)
      <3>1. Fps * (((c + sec) + 1) + 1) = Fps * (c + sec) + Fps + Fps
        BY <1>1, <1>11
      <3> QED BY <1>1, <1>5, <1>6, <1>11, <2>2, <3>1
    <2>5. at \div Fps >= c + sec /\ at \div Fps <= (c + sec) + 1
      BY <1>1, <1>11, <2>3, <2>4, AtLeast, AtMost
    <2>6. at \div Fps \in Int
      BY <1>1, Division
    <2> QED BY <1>11, <1>12, <2>1, <2>5, <2>6
  <1> QED BY <1>2, <1>5, <1>9, <1>13, <1>14 DEF m, t

LEMMA SpeedSteps ==
  ASSUME NEW level \in Nat
  PROVE  SpeedOf(level) \in Nat /\ (SpeedOf(level) = 0 \/ SpeedOf(level) \div 16 >= 1)
  <1>1. CASE level = 0
    BY <1>1 DEF SpeedOf
  <1>2. CASE level # 0
    <2>1. PICK x \in Int : x = 2^(level - 1)
      BY <1>2
    <2>2. SpeedOf(level) = (x * 32) % 65536
      <3>1. 2^16 = 65536
        OBVIOUS
      <3> QED BY <1>2, <2>1, <3>1 DEF SpeedOf
    <2> DEFINE v == (x * 32) % 65536
    <2>3. v \in Nat /\ (v = 0 \/ v \div 16 >= 1)
      OBVIOUS
    <2> QED BY <2>2, <2>3
  <1> QED BY <1>1, <1>2

\* Where fast play ends.
LEMMA ResumedAt ==
  ASSUME PlayType, fast_num # 0
  PROVE  /\ Resumed.j = SoundAt(i) /\ Resumed.j \in Nat
         /\ Resumed.last = PictureOf(Resumed.j - 1) /\ Resumed.last \in Int
         /\ Resumed.i \in Nat /\ Resumed.i >= i
         /\ Chunks <= PlayFrames =>
                SoundAt(Resumed.i) >= Resumed.j /\ SoundAt(Resumed.i) <= Resumed.j + 1
  <1> DEFINE c == SoundAt(i)
             e == PictureOf(c - 1)
  <1>1. i \in Nat
    BY DEF PlayType
  <1>2. c \in Nat
    <2>1. i \in Int /\ i >= -1
      BY <1>1
    <2>2. c \in Int /\ c >= 0
      BY <2>1, Bounds
    <2> QED BY <2>2
  <1>3. e \in Int /\ e >= 0
    <2>1. c - 1 \in Int /\ c - 1 >= -1
      BY <1>2
    <2> HIDE DEF c
    <2> QED BY <2>1, Bounds
  <1>4. Resumed = [j |-> c, last |-> e, i |-> IF i < e THEN e ELSE i]
    BY DEF Resumed, SoundAt, PictureOf
  <1>5. /\ Resumed.j = c /\ Resumed.last = e
        /\ Resumed.i = IF i < e THEN e ELSE i
    BY <1>4
  <1> HIDE DEF e
  <1>6. ASSUME Chunks <= PlayFrames
        PROVE  SoundAt(Resumed.i) >= c /\ SoundAt(Resumed.i) <= c + 1
    <2>1. CASE i < e
      <3>1. e \in Nat /\ Resumed.i = e
        BY <1>3, <1>5, <2>1
      <3>2. SoundAt(e) >= c /\ SoundAt(e) <= c + 1
        <4> HIDE DEF c
        <4> QED BY <1>2, <1>6, <3>1, SoundOfPicture DEF e
      <3> QED BY <3>1, <3>2
    <2>2. CASE ~(i < e)
      <3>1. Resumed.i = i
        BY <1>5, <2>2
      <3> QED BY <1>2, <3>1
    <2> QED BY <2>1, <2>2
  <1> HIDE DEF c
  <1>7. Resumed.i \in Nat /\ Resumed.i >= i
    BY <1>1, <1>3, <1>5
  <1> QED BY <1>2, <1>3, <1>5, <1>6, <1>7 DEF c, e

\* What a round looks at: picture, chunk and the picture waited for.
Look == IF SoundDue THEN Resumed ELSE [i |-> i, j |-> j, last |-> last_video_num]

LEMMA LooksAt ==
  ASSUME PlayInv
  PROVE  /\ Look.i \in Nat /\ Look.i >= i /\ Look.j \in Nat /\ Look.last \in Int
         /\ fast_num = 0 => Look.i = i /\ Look.j = j /\ Look.last = last_video_num
         /\ ~SoundDue => Look.i = i /\ Look.j = j /\ Look.last = last_video_num
         /\ Chunks <= PlayFrames /\ SoundDue =>
                /\ Look.j < Chunks => SoundAt(Look.i) - Look.j \in 0..(1 + silent)
                /\ \/ Look.last = PictureOf(Look.j - 1)
                   \/ Look.last = 0 /\ SoundAt(Look.i) >= Look.j
  <1>1. PlayType /\ SoundInv
    BY DEF PlayInv
  <1>2. CASE SoundDue /\ fast_num # 0
    <2>1. Look = Resumed
      BY <1>2 DEF Look
    <2>2. silent \in Nat
      BY <1>1 DEF PlayType
    <2>3. Look.j \in Nat /\ Look.i \in Nat /\ SoundAt(Look.i) \in Int
      BY <1>1, <1>2, <2>1, ResumedAt, Bounds
    <2> QED BY <1>1, <1>2, <2>1, <2>2, <2>3, ResumedAt
  <1>3. CASE ~SoundDue \/ fast_num = 0
    <2>1. Look = [i |-> i, j |-> j, last |-> last_video_num]
      BY <1>3 DEF Look, Resumed
    <2>2. Look.i = i /\ Look.j = j /\ Look.last = last_video_num
      BY <2>1
    <2>3. i \in Nat /\ j \in Nat /\ last_video_num \in Int /\ silent \in Nat /\ fast_num \in Nat
      BY <1>1 DEF PlayType
    <2>4. ASSUME Chunks <= PlayFrames, SoundDue
          PROVE  /\ j < Chunks => SoundAt(i) - j \in 0..(1 + silent)
                 /\ \/ last_video_num = PictureOf(j - 1)
                    \/ last_video_num = 0 /\ SoundAt(i) >= j
      <3>1. fast_num = 0 /\ i >= last_video_num /\ j < Chunks
        BY <1>3, <2>3, <2>4 DEF SoundDue
      <3>2. /\ SoundAt(i) <= j + 1 + silent
            /\ \/ last_video_num = PictureOf(j - 1)
               \/ last_video_num = 0 /\ SoundAt(i) >= j
        BY <1>1, <2>4, <3>1 DEF SoundInv
      <3>3. SoundAt(i) >= j
        BY <2>3, <2>4, <3>1, <3>2, SoundOfPicture
      <3>4. SoundAt(i) \in Int
        BY <2>3, Bounds
      <3> QED BY <2>3, <3>2, <3>3, <3>4
    <2> QED BY <2>2, <2>3, <2>4
  <1> QED BY <1>2, <1>3

LEMMA RoundSays ==
  ASSUME Round
  PROVE  /\ \/ /\ SoundDue /\ Look.j < Chunks
               /\ heard' = [chunk |-> Look.j, at |-> Look.i] /\ j' = Look.j + 1
               /\ silent' = silent /\ last_video_num' = PictureOf(Look.j)
            \/ /\ SoundDue /\ j' = Look.j /\ heard' = heard /\ last_video_num' = Look.last
               /\ silent' = IF Look.j < Chunks THEN silent + 1 ELSE silent
            \/ ~SoundDue /\ UNCHANGED <<heard, j, last_video_num, silent>>
         /\ fast_num' = (IF SoundDue THEN 0 ELSE fast_num) + fast_ctrl \div 16
         /\ sent' = Look.i /\ send_date_per_fps(Look.i)
         /\ i' = Look.i + (IF fast_ctrl = 0 THEN 1 ELSE fast_ctrl \div 16)
         /\ file # NoFile /\ UNCHANGED <<file, begun, fast_ctrl>>
  BY DEF Round, Look, SoundSent, SoundFails, Picture, PictureOf

LEMMA RoundStep ==
  ASSUME PlayInv, Round
  PROVE  PlayInv'
  <1>1. PlayType /\ DateInv /\ SoundInv
    BY DEF PlayInv
  <1>2. Look.i \in Nat /\ Look.i >= i /\ Look.j \in Nat /\ Look.last \in Int
    BY LooksAt
  <1>3. /\ i \in Nat /\ j \in Nat /\ last_video_num \in Int /\ fast_num \in Nat
        /\ fast_ctrl \in Nat /\ (fast_ctrl = 0 \/ fast_ctrl \div 16 >= 1)
        /\ tmp_is_30fps \in Nat /\ clock \in Int /\ told \in Int /\ begun \in Nat
        /\ heard \in [chunk : Nat, at : Nat]
        /\ silent \in Nat /\ Chunks \in Nat
    BY <1>1, PlayAssumption DEF PlayType
  <1>4. fast_ctrl \div 16 \in Nat /\ (fast_ctrl = 0 => fast_ctrl \div 16 = 0)
    BY <1>3
  <1>5. PictureOf(Look.j) \in Int
    BY <1>2, Bounds
  <1> DEFINE at == Look.i
             step == IF fast_ctrl = 0 THEN 1 ELSE fast_ctrl \div 16
  <1>6. i' = at + step /\ step \in Nat /\ (fast_ctrl = 0 => step = 1)
    BY <1>3, <1>4, RoundSays
  <1>7. /\ tmp_is_30fps' \in Nat /\ tmp_is_30fps' <= at /\ clock' \in Int
        /\ at - tmp_is_30fps' < Fps
        /\ \/ tmp_is_30fps' = tmp_is_30fps /\ told' = told /\ clock' = clock
           \/ tmp_is_30fps' - tmp_is_30fps >= Fps /\ told' = clock'
        /\ clock = tmp_is_30fps \div Fps =>
               clock' = tmp_is_30fps' \div Fps /\ at \div Fps - clock' \in 0..1
    <2>1. tmp_is_30fps <= at /\ send_date_per_fps(at) /\ at \in Nat
      BY <1>1, <1>2, <1>3, RoundSays DEF DateInv
    <2> HIDE DEF at
    <2> QED BY <1>3, <2>1, DateMoves
  <1>8. PlayType'
    <2>1. i' \in Nat
      BY <1>2, <1>6
    <2>2. fast_num' \in Nat
      BY <1>3, <1>4, RoundSays
    <2>3. j' \in Nat /\ last_video_num' \in Int /\ silent' \in Nat
      BY <1>2, <1>3, <1>5, RoundSays
    <2>4. heard' \in [chunk : Nat, at : Nat]
      BY <1>2, <1>3, RoundSays
    <2>5. fast_ctrl' = fast_ctrl /\ sent' \in Int /\ begun' \in Nat
      BY <1>2, <1>3, RoundSays
    <2>6. told' \in Int
      BY <1>3, <1>7
    <2> QED BY <1>3, <1>7, <2>1, <2>2, <2>3, <2>4, <2>5, <2>6 DEF PlayType
  <1>9. DateInv'
    <2>1. tmp_is_30fps' <= i'
      BY <1>2, <1>6, <1>7
    <2>2. sent' = at
      BY RoundSays
    <2>3. Second % Fps = 0 => clock = tmp_is_30fps \div Fps
      BY <1>1 DEF DateInv
    <2>4. \/ tmp_is_30fps' = begun' /\ told' = 0
          \/ tmp_is_30fps' - begun' >= Fps /\ told' = clock'
      <3>1. \/ tmp_is_30fps = begun /\ told = 0
            \/ tmp_is_30fps - begun >= Fps /\ told = clock
        BY <1>1 DEF DateInv
      <3>2. begun' = begun /\ Fps \in Nat
        BY RoundSays, SecondAssumption
      <3>3. /\ tmp_is_30fps \in Nat /\ tmp_is_30fps' \in Nat /\ begun \in Nat
            /\ \/ tmp_is_30fps' = tmp_is_30fps /\ told' = told /\ clock' = clock
               \/ tmp_is_30fps' - tmp_is_30fps >= Fps /\ told' = clock'
        BY <1>3, <1>7
      <3>4. CASE tmp_is_30fps' = tmp_is_30fps /\ told' = told /\ clock' = clock
        BY <3>1, <3>2, <3>4
      <3>5. CASE tmp_is_30fps' - tmp_is_30fps >= Fps /\ told' = clock'
        <4>1. /\ Fps \in Nat /\ begun \in Nat
              /\ tmp_is_30fps \in Nat /\ tmp_is_30fps' \in Nat
          BY <3>2, <3>3
        <4>2. begun <= tmp_is_30fps
          <5>1. CASE tmp_is_30fps = begun
            BY <4>1, <5>1
          <5>2. CASE tmp_is_30fps - begun >= Fps
            BY <4>1, <5>2
          <5> QED BY <3>1, <5>1, <5>2
        <4>3. tmp_is_30fps' - begun >= Fps
          BY <3>5, <4>1, <4>2, Further
        <4> QED BY <3>2, <3>5, <4>3
      <3> QED BY <3>3, <3>4, <3>5
    <2>5. tmp_is_30fps' <= sent' /\ sent' - tmp_is_30fps' < Fps
      BY <1>7, <2>2
    <2>6. Second % Fps = 0 => clock' = tmp_is_30fps' \div Fps /\ sent' \div Fps - clock' \in 0..1
      BY <1>7, <2>2, <2>3
    <2> QED BY <2>1, <2>4, <2>5, <2>6 DEF DateInv
  <1>10. SoundInv'
    <2> SUFFICES ASSUME Chunks <= PlayFrames
                 PROVE  /\ SoundAt(heard'.at) - heard'.chunk \in 0..(1 + silent')
                        /\ fast_num' = 0 /\ j' < Chunks => SoundAt(i') <= j' + 1 + silent'
                        /\ fast_num' = 0 => \/ last_video_num' = PictureOf(j' - 1)
                                            \/ last_video_num' = 0 /\ SoundAt(i') >= j'
      BY DEF SoundInv, SoundAt, PictureOf, avi_video_base_to_get_audio_frame,
             avi_audio_base_to_get_video_frame
    <2>1. /\ SoundAt(heard.at) - heard.chunk \in 0..(1 + silent)
          /\ fast_num = 0 /\ j < Chunks => SoundAt(i) <= j + 1 + silent
          /\ fast_num = 0 => \/ last_video_num = PictureOf(j - 1)
                             \/ last_video_num = 0 /\ SoundAt(i) >= j
      BY <1>1 DEF SoundInv
    <2>2. SoundDue => /\ Look.j < Chunks => SoundAt(at) - Look.j \in 0..(1 + silent)
                      /\ \/ Look.last = PictureOf(Look.j - 1)
                         \/ Look.last = 0 /\ SoundAt(at) >= Look.j
      BY LooksAt
    <2>3. fast_num' = 0 => fast_ctrl = 0 /\ i' = at + 1
      BY <1>3, <1>4, <1>6, RoundSays
    <2>4. /\ SoundAt(at) \in Int /\ SoundAt(at + 1) \in Int /\ SoundAt(heard.at) \in Int
          /\ SoundAt(at) <= SoundAt(at + 1) /\ SoundAt(at + 1) <= SoundAt(at) + 1
      <3>1. at \in Nat /\ at + 1 \in Int /\ heard.at \in Int
        BY <1>2, <1>3
      <3> HIDE DEF at
      <3>2. SoundAt(at) \in Int /\ SoundAt(at + 1) \in Int /\ SoundAt(heard.at) \in Int
        BY <3>1, Bounds
      <3> QED BY <3>1, <3>2, SoundNext
    <2>5. CASE /\ SoundDue /\ Look.j < Chunks
               /\ heard' = [chunk |-> Look.j, at |-> at] /\ j' = Look.j + 1
               /\ silent' = silent /\ last_video_num' = PictureOf(Look.j)
      <3>1. heard'.chunk = Look.j /\ heard'.at = at /\ Look.j = j' - 1
        BY <1>2, <2>5
      <3>2. SoundAt(at) - Look.j \in 0..(1 + silent)
        BY <2>2, <2>5
      <3> HIDE DEF at
      <3>3. SoundAt(at) - Look.j <= 1 + silent
        BY <1>3, <3>2
      <3>4. SoundAt(at + 1) <= j' + 1 + silent
        BY <1>2, <1>3, <2>4, <2>5, <3>3
      <3> QED BY <2>3, <2>5, <3>1, <3>2, <3>4
    <2>6. CASE /\ SoundDue /\ j' = Look.j /\ heard' = heard /\ last_video_num' = Look.last
               /\ silent' = IF Look.j < Chunks THEN silent + 1 ELSE silent
      <3>1. SoundAt(heard.at) - heard.chunk \in 0..(1 + silent')
        BY <1>3, <2>1, <2>4, <2>6
      <3> HIDE DEF at
      <3>2. ASSUME Look.j < Chunks PROVE SoundAt(at + 1) <= Look.j + 1 + (silent + 1)
        <4>1. SoundAt(at) - Look.j <= 1 + silent
          BY <1>3, <2>2, <2>6, <3>2
        <4> QED BY <1>2, <1>3, <2>4, <4>1
      <3>3. \/ Look.last = PictureOf(Look.j - 1)
            \/ Look.last = 0 /\ SoundAt(at + 1) >= Look.j
        BY <1>2, <2>2, <2>4, <2>6
      <3> QED BY <2>3, <2>6, <3>1, <3>2, <3>3
    <2>7. CASE ~SoundDue /\ UNCHANGED <<heard, j, last_video_num, silent>>
      <3>1. at = i
        BY <2>7, LooksAt
      <3>2. fast_num' = 0 => fast_num = 0 /\ fast_ctrl = 0
        BY <1>3, <1>4, <2>7, RoundSays
      <3>3. ASSUME fast_num' = 0, j < Chunks PROVE SoundAt(i + 1) <= j + 1 + silent
        <4>1. i < last_video_num
          BY <1>3, <2>7, <3>2, <3>3 DEF SoundDue
        <4>2. last_video_num = PictureOf(j - 1)
          BY <1>3, <2>1, <3>2, <3>3, <4>1
        <4>3. SoundAt(i) <= j
          BY <1>3, <4>1, <4>2, SoundOfPicture
        <4> HIDE DEF at
        <4> QED BY <1>3, <2>4, <3>1, <4>3
      <3>4. fast_num' = 0 => \/ last_video_num = PictureOf(j - 1)
                             \/ last_video_num = 0 /\ SoundAt(i + 1) >= j
        <4> HIDE DEF at
        <4> QED BY <1>3, <2>1, <2>4, <3>1, <3>2
      <3> QED BY <2>1, <2>3, <2>7, <3>1, <3>3, <3>4
    <2> QED BY <2>5, <2>6, <2>7, RoundSays
  <1> QED BY <1>8, <1>9, <1>10 DEF PlayInv

\* From the beginning of a file.
LEMMA FileStart ==
  ASSUME Chunks <= PlayFrames
  PROVE  SoundAt(0) \in 0..1 /\ PictureOf(0 - 1) = 0
  <1>1. PlayFrames \in Nat \ {0} /\ Chunks \in Nat \ {0}
    BY PlayAssumption
  <1> DEFINE x == (0 + 1) * Chunks
  <1>2. x \in Nat /\ x >= PlayFrames * 0 /\ x < PlayFrames * (1 + 1)
    BY <1>1
  <1> HIDE DEF x
  <1>3. x \div PlayFrames >= 0 /\ x \div PlayFrames <= 1 /\ x \div PlayFrames \in Int
    BY <1>1, <1>2, AtLeast, AtMost, Division
  <1>4. SoundAt(0) = x \div PlayFrames
    BY DEF SoundAt, avi_video_base_to_get_audio_frame, x
  <1>5. PictureOf(0 - 1) = 0
    <2>1. ((0 - 1) + 1) * PlayFrames = 0
      BY <1>1
    <2> QED BY <1>1, <2>1, Zero DEF PictureOf, avi_audio_base_to_get_video_frame
  <1> QED BY <1>3, <1>4, <1>5

\* For every file, every start and every series of speeds and failed packets: the
\* date the phone has is the file's own until a second of pictures has been sent, and
\* from then on lags by less than two seconds where a picture takes whole
\* milliseconds; a chunk of sound comes with its picture or the next, but for those that failed,
\* where there are no more chunks than pictures: what video_playback_cli_thread
\* counts from is moved with every jump.
THEOREM InStepTheorem == PlaySpec => []InStep
  <1>1. PlayInit => PlayInv
    <2> SUFFICES ASSUME PlayInit PROVE PlayInv
      OBVIOUS
    <2>1. /\ i = 0 /\ j = 0 /\ last_video_num = 0 /\ fast_num = 0 /\ fast_ctrl = 0
          /\ tmp_is_30fps = 0 /\ clock = 0 /\ told = 0 /\ begun = 0 /\ sent = -1 /\ silent = 0
          /\ heard = [chunk |-> 0, at |-> 0] /\ file = NoFile
      BY DEF PlayInit, Unheard
    <2>2. PlayType
      BY <2>1 DEF PlayType
    <2>3. DateInv
      BY <2>1, Zero, SecondAssumption DEF DateInv
    <2>4. SoundInv
      BY <2>1, FileStart DEF SoundInv
    <2> QED BY <2>2, <2>3, <2>4 DEF PlayInv
  <1>2. PlayInv /\ [PlayNext]_playVars => PlayInv'
    <2> SUFFICES ASSUME PlayInv, [PlayNext]_playVars PROVE PlayInv'
      OBVIOUS
    <2>1. PlayType /\ DateInv /\ SoundInv
      BY DEF PlayInv
    <2>2. CASE PlayStart
      <3>1. PICK f \in Videos, offset \in 0..MaxOffset :
                Opens(f) /\ i' = avi_get_video_num(offset) /\ clock' = offset \div Second
        BY <2>2 DEF PlayStart
      <3>2. /\ sent = -1 /\ last_video_num' = 0 /\ fast_num' = 0 /\ tmp_is_30fps' = i'
            /\ begun' = i' /\ told' = 0 /\ j' = SoundAt(i')
            /\ UNCHANGED <<fast_ctrl, sent, heard, silent>>
        BY <2>2 DEF PlayStart, Opens, SoundAt
      <3>3. clock' = offset \div Second /\ clock' \in Int /\ offset \in Nat
        BY <3>1, SecondAssumption, Division
      <3>4. i' \in Nat
        <4> DEFINE q == Second \div Fps
        <4>1. q \in Nat \ {0} /\ offset \in Int /\ offset >= q * 0
          BY <3>3, SecondAssumption
        <4> HIDE DEF q
        <4>2. offset \div q \in Int /\ offset \div q >= 0
          BY <4>1, Division, AtLeast
        <4> QED BY <3>1, <4>2 DEF avi_get_video_num, q
      <3>5. j' \in Nat
        <4> DEFINE n == i'
        <4>1. n \in Int /\ n >= -1 /\ j' = SoundAt(n)
          BY <3>2, <3>4
        <4> HIDE DEF n
        <4> QED BY <4>1, Bounds
      <3>6. PlayType'
        BY <2>1, <3>2, <3>3, <3>4, <3>5 DEF PlayType
      <3>7. DateInv'
        BY <3>1, <3>2, <3>3, <3>4, StartDate DEF DateInv
      <3>8. SoundInv'
        <4> SUFFICES ASSUME Chunks <= PlayFrames
                     PROVE  /\ SoundAt(heard.at) - heard.chunk \in 0..(1 + silent)
                            /\ SoundAt(i') <= j' + 1 + silent /\ SoundAt(i') >= j'
          BY <3>2 DEF SoundInv, SoundAt, avi_video_base_to_get_audio_frame
        <4>1. SoundAt(heard.at) - heard.chunk \in 0..(1 + silent) /\ silent \in Nat
          BY <2>1 DEF SoundInv, PlayType
        <4> QED BY <3>2, <3>5, <4>1
      <3> QED BY <3>6, <3>7, <3>8 DEF PlayInv
    <2>3. CASE Round
      BY <2>3, RoundStep
    <2>4. CASE NextFile
      <3>1. /\ i' = 0 /\ j' = 0 /\ last_video_num' = 0 /\ tmp_is_30fps' = 0 /\ silent' = 0
            /\ heard' = [chunk |-> 0, at |-> 0] /\ clock' = 0 /\ told' = 0 /\ begun' = 0
            /\ sent' = (IF file' = NoFile THEN sent ELSE -1)
            /\ UNCHANGED <<fast_num, fast_ctrl>>
        BY <2>4 DEF NextFile, Opens, Unheard
      <3>2. 0 \div Fps = 0 /\ Fps \in Nat \ {0}
        BY <3>1, SecondAssumption, Zero
      <3>3. PlayType'
        BY <2>1, <3>1, <3>2 DEF PlayType
      <3>4. DateInv'
        <4>1. ~(file' # NoFile /\ sent' >= 0)
          BY <3>1
        <4> QED BY <3>1, <3>2, <4>1 DEF DateInv
      <3>5. SoundInv'
        <4> SUFFICES ASSUME Chunks <= PlayFrames
                     PROVE  /\ SoundAt(heard'.at) - heard'.chunk \in 0..(1 + silent')
                            /\ SoundAt(i') <= j' + 1 + silent'
                            /\ last_video_num' = PictureOf(j' - 1)
          BY DEF SoundInv, SoundAt, PictureOf, avi_video_base_to_get_audio_frame,
                 avi_audio_base_to_get_video_frame
        <4>1. SoundAt(0) \in 0..1 /\ PictureOf(0 - 1) = 0
          BY FileStart
        <4> QED BY <3>1, <4>1
      <3> QED BY <3>3, <3>4, <3>5 DEF PlayInv
    <2>5. ASSUME NEW level \in Levels \cup {0}, SetSpeed(level) PROVE PlayInv'
      <3>1. level \in Nat
        BY PlayAssumption
      <3>2. /\ fast_ctrl' = SpeedOf(level)
            /\ UNCHANGED <<file, i, j, last_video_num, fast_num, tmp_is_30fps, clock, told,
                           begun, sent, heard, silent>>
        BY <2>5 DEF SetSpeed
      <3>3. PlayType'
        BY <2>1, <3>1, <3>2, SpeedSteps DEF PlayType
      <3>4. DateInv' /\ SoundInv'
        BY <2>1, <3>2 DEF DateInv, SoundInv, SoundAt, PictureOf,
              avi_video_base_to_get_audio_frame, avi_audio_base_to_get_video_frame
      <3> QED BY <3>3, <3>4 DEF PlayInv
    <2>6. CASE (\E f \in PlayFiles : Unlist(f)) \/ UNCHANGED playVars
      <3>1. UNCHANGED <<file, i, j, last_video_num, fast_num, fast_ctrl, tmp_is_30fps, clock,
                        told, begun, sent, heard, silent>>
        BY <2>6 DEF Unlist, playVars
      <3>2. PlayType'
        BY <2>1, <3>1 DEF PlayType
      <3>3. DateInv' /\ SoundInv'
        BY <2>1, <3>1 DEF DateInv, SoundInv, SoundAt, PictureOf,
              avi_video_base_to_get_audio_frame, avi_audio_base_to_get_video_frame
      <3> QED BY <3>2, <3>3 DEF PlayInv
    <2> QED BY <2>2, <2>3, <2>4, <2>5, <2>6 DEF PlayNext
  <1>3. PlayInv => InStep
    <2> SUFFICES ASSUME PlayInv, file # NoFile, sent >= 0 PROVE DateInStep
      BY DEF PlayInv, SoundInv, InStep, SoundAt
    <2>1. /\ sent \in Int /\ tmp_is_30fps \in Nat /\ begun \in Nat /\ Fps \in Nat
          /\ tmp_is_30fps <= sent /\ sent - tmp_is_30fps < Fps
          /\ \/ tmp_is_30fps = begun /\ told = 0
             \/ tmp_is_30fps - begun >= Fps /\ told = clock
          /\ Second % Fps = 0 => sent \div Fps - clock \in 0..1
      BY SecondAssumption DEF PlayInv, PlayType, DateInv
    <2> QED BY <2>1 DEF DateInStep
  <1> QED BY <1>1, <1>2, <1>3, PTL DEF PlaySpec

-----------------------------------------------------------------------------
(* The screen and its keys (Screen). *)

MenuPages == {"PAGE_1", "PAGE_3", "PAGE_4", "PAGE_5", "PAGE_6"}

Shown == MenuPages \cup {"PAGE_0", "BASEFORM_1", "BASEFORM_64", "BASEFORM_135",
                         "BASEFORM_138", "BASEFORM_142", "BASEFORM_148", "none"}

\* The forms that a selection may have left on.
ShownAt(sel) ==
    IF sel \in Kaleidoscopes THEN {"BASEFORM_64", "BASEFORM_135"} ELSE {FormOf(sel)}

ScreenType ==
    /\ forms \in Seq(Shown) /\ forms # <<>>
    /\ photo_selection \in 0..15 /\ choice_piece \in Nat /\ get_photo_mode \in 0..6
    /\ page_x \in 0..5 /\ page_y \in 0..1 /\ page2_y \in 0..1 /\ init_flog \in 0..1
    /\ page2_x \in 0..5

PageShown == \E k \in DOMAIN forms : forms[k] \in MenuPages

\* Up to the menu's first page: the camera's form and one on top of it.
CameraShown ==
    /\ Len(forms) = 2 /\ forms[1] = "PAGE_0" /\ forms[2] \in ShownAt(photo_selection)
    /\ lcd = IF photo_selection \in Kaleidoscopes THEN "CAMERA" ELSE "UI_CAMERA"

FormInv == PageShown \/ CameraShown

\* The last two fields of the cursor belong to the time page.
MenuInv ==
    /\ MenuInStep
    /\ leaving => page_y = 0
    /\ page2_x > 3 => page_x = 2 /\ page_y = 1

\* A reading of the clock that is under way while a time is set began before.
TimeInv == TimeKept /\ (Setting /\ ticking => late)

ScreenInv == ScreenType /\ EffectInStep /\ FormInv /\ MenuInv /\ TimeInv

LEMMA FormsOfSelections ==
  ASSUME NEW sel \in 0..15
  PROVE  /\ FormOf(sel) \in Shown
         /\ FormOf(sel) \notin MenuPages /\ FormOf(sel) # "PAGE_0"
  <1>1. sel \in {0, 1, 2, 3, 12, 13, 14, 15} \/ sel \in 4..11
    OBVIOUS
  <1>2. CASE sel \in {0, 1, 2, 3, 12, 13, 14, 15}
    BY <1>2 DEF FormOf, MenuPages, Shown
  <1>3. CASE sel \in 4..11
    <2>1. FormOf(sel) = "none"
      BY <1>3 DEF FormOf
    <2> QED BY <2>1 DEF MenuPages, Shown
  <1> QED BY <1>1, <1>2, <1>3

\* Hiding a form keeps the others.
LEMMA RemovedOthers ==
  ASSUME NEW fs \in Seq(Shown), NEW id \in Shown
  PROVE  /\ Removed(fs, id) \in Seq(Shown)
         /\ \A k \in DOMAIN fs : fs[k] # id =>
                \E n \in DOMAIN Removed(fs, id) : Removed(fs, id)[n] = fs[k]
  <1> DEFINE c == CHOOSE k \in DOMAIN fs : fs[k] = id
             b == SubSeq(fs, 1, c - 1)
             e == SubSeq(fs, c + 1, Len(fs))
  <1>1. DOMAIN fs = 1..Len(fs) /\ Len(fs) \in Nat
    BY LenProperties
  <1>2. CASE ~\E k \in DOMAIN fs : fs[k] = id
    BY <1>2 DEF Removed
  <1>3. CASE \E k \in DOMAIN fs : fs[k] = id
    <2>1. c \in DOMAIN fs /\ fs[c] = id
      BY <1>3
    <2>2. Removed(fs, id) = b \o e
      BY <1>3 DEF Removed, RemoveAt
    <2> HIDE DEF c
    <2>3. \A m \in 1..Len(fs) : fs[m] \in Shown
      BY ElementOfSeq
    <2>4. b \in Seq(Shown) /\ Len(b) = c - 1 /\ \A m \in 1..(c - 1) : b[m] = fs[m]
      <3>1. \A m \in 1..(c - 1) : fs[m] \in Shown
        BY <1>1, <2>1, <2>3
      <3>2. /\ b \in Seq(Shown) /\ Len(b) = IF 1 <= c - 1 THEN c - 1 - 1 + 1 ELSE 0
            /\ \A m \in 1..(c - 1 - 1 + 1) : b[m] = fs[1 + m - 1]
        BY <1>1, <2>1, <3>1, SubSeqProperties
      <3> QED BY <1>1, <2>1, <3>2
    <2>5. /\ e \in Seq(Shown) /\ Len(e) = Len(fs) - c
          /\ \A m \in 1..(Len(fs) - c) : e[m] = fs[c + m]
      <3>1. \A m \in (c + 1)..Len(fs) : fs[m] \in Shown
        BY <1>1, <2>1, <2>3
      <3>2. /\ e \in Seq(Shown)
            /\ Len(e) = IF c + 1 <= Len(fs) THEN Len(fs) - (c + 1) + 1 ELSE 0
            /\ \A m \in 1..(Len(fs) - (c + 1) + 1) : e[m] = fs[c + 1 + m - 1]
        BY <1>1, <2>1, <3>1, SubSeqProperties
      <3> QED BY <1>1, <2>1, <3>2
    <2> DEFINE w == b \o e
    <2> HIDE DEF b, e
    <2>6. /\ w \in Seq(Shown) /\ Len(w) = Len(b) + Len(e)
          /\ \A m \in 1..(Len(b) + Len(e)) :
                 w[m] = IF m <= Len(b) THEN b[m] ELSE e[m - Len(b)]
      BY <2>4, <2>5, ConcatProperties
    <2> HIDE DEF w
    <2>7. DOMAIN w = 1..Len(w) /\ w = Removed(fs, id)
      BY <2>2, <2>6, LenProperties DEF w
    <2>8. ASSUME NEW k \in DOMAIN fs, fs[k] # id
          PROVE  \E n \in DOMAIN w : w[n] = fs[k]
      <3>1. CASE k < c
        <4>1. k \in 1..(c - 1) /\ Len(b) = c - 1 /\ Len(e) = Len(fs) - c /\ k <= Len(b)
          BY <1>1, <2>1, <2>4, <2>5, <3>1
        <4>2. k \in 1..(Len(b) + Len(e)) /\ k \in DOMAIN w
          BY <1>1, <2>1, <2>6, <2>7, <4>1
        <4>3. w[k] = b[k] /\ b[k] = fs[k]
          BY <2>4, <2>6, <4>1, <4>2
        <4> QED BY <4>2, <4>3
      <3>2. CASE k > c
        <4> DEFINE n == k - 1
        <4>1. n \in DOMAIN w /\ n \in 1..(Len(b) + Len(e)) /\ ~(n <= Len(b))
          BY <1>1, <2>1, <2>4, <2>5, <2>6, <2>7, <3>2
        <4>2. w[n] = e[n - Len(b)]
          BY <2>6, <4>1
        <4>3. n - Len(b) = k - c /\ k - c \in 1..(Len(fs) - c) /\ c + (k - c) = k
          BY <1>1, <2>1, <2>4, <3>2
        <4>4. e[k - c] = fs[c + (k - c)]
          BY <2>5, <4>3
        <4> QED BY <4>1, <4>2, <4>3, <4>4
      <3>3. k < c \/ k > c
        <4>1. k # c
          BY <2>1, <2>8
        <4> QED BY <1>1, <2>1, <4>1
      <3> QED BY <3>1, <3>2, <3>3
    <2> QED BY <2>6, <2>7, <2>8
  <1> QED BY <1>2, <1>3

LEMMA WithOthers ==
  ASSUME NEW fs \in Seq(Shown), NEW id \in Shown
  PROVE  /\ With(fs, id) \in Seq(Shown)
         /\ \E n \in DOMAIN With(fs, id) : With(fs, id)[n] = id
         /\ \A k \in DOMAIN fs : \E n \in DOMAIN With(fs, id) : With(fs, id)[n] = fs[k]
  <1> DEFINE o == Removed(fs, id)
             w == Append(o, id)
  <1>1. /\ o \in Seq(Shown)
        /\ \A k \in DOMAIN fs : fs[k] # id => \E n \in DOMAIN o : o[n] = fs[k]
    BY RemovedOthers
  <1>2. With(fs, id) = w
    BY DEF With
  <1> HIDE DEF o
  <1>3. /\ w \in Seq(Shown) /\ Len(w) = Len(o) + 1
        /\ \A k \in 1..Len(o) : w[k] = o[k]
        /\ w[Len(o) + 1] = id
    <2>1. o \in Seq(Shown)
      BY <1>1
    <2> QED BY <2>1, AppendProperties
  <1> HIDE DEF w
  <1>4. DOMAIN w = 1..Len(w) /\ DOMAIN o = 1..Len(o) /\ Len(o) \in Nat
    BY <1>1, <1>3, LenProperties
  <1>5. Len(o) + 1 \in DOMAIN w /\ \A n \in DOMAIN o : n \in DOMAIN w /\ w[n] = o[n]
    BY <1>3, <1>4
  <1>6. \A k \in DOMAIN fs : \E n \in DOMAIN w : w[n] = fs[k]
    BY <1>1, <1>3, <1>5
  <1> QED BY <1>2, <1>3, <1>5, <1>6


\* What is shown last is on top.
LEMMA TopIs ==
  ASSUME NEW fs \in Seq(Shown), NEW id \in Shown, forms' = With(fs, id)
  PROVE  forms' # <<>> /\ \A other : OnTop(other)' <=> other = id
  <1> DEFINE o == Removed(fs, id)
             w == Append(o, id)
  <1>1. o \in Seq(Shown)
    BY RemovedOthers
  <1>2. forms' = w
    BY DEF With
  <1> HIDE DEF o
  <1>3. w \in Seq(Shown) /\ Len(w) = Len(o) + 1 /\ w[Len(o) + 1] = id /\ Len(o) \in Nat
    BY <1>1, AppendProperties, LenProperties
  <1> HIDE DEF w
  <1>4. w # <<>> /\ Last(w) = id
    BY <1>3 DEF Last
  <1> QED BY <1>2, <1>4 DEF OnTop

LEMMA PagesAre ==
  /\ \A x \in HasPage : PageOf(x) \in MenuPages \ {"PAGE_1"}
  /\ \A x, y \in HasPage : PageOf(x) = PageOf(y) => x = y
  <1>1. PageOf(0) = "PAGE_4" /\ PageOf(2) = "PAGE_3" /\ PageOf(4) = "PAGE_5" /\ PageOf(5) = "PAGE_6"
    BY DEF PageOf
  <1>2. HasPage = {0, 2, 4, 5}
    BY DEF HasPage
  <1> QED BY <1>1, <1>2 DEF MenuPages

LEMMA AloneRemoved ==
  ASSUME NEW fs \in Seq(Shown), NEW id \in Shown, id # "PAGE_0",
         Len(fs) \in {1, 2}, fs[1] = "PAGE_0", Len(fs) = 2 => fs[2] = id
  PROVE  /\ Removed(fs, id) \in Seq(Shown)
         /\ Len(Removed(fs, id)) = 1 /\ Removed(fs, id)[1] = "PAGE_0"
  <1>1. Removed(fs, id) \in Seq(Shown)
    BY RemovedOthers
  <1>2. DOMAIN fs = 1..Len(fs)
    BY LenProperties
  <1>3. CASE Len(fs) = 1
    <2>1. ~\E k \in DOMAIN fs : fs[k] = id
      BY <1>2, <1>3
    <2>2. Removed(fs, id) = fs
      BY <2>1 DEF Removed
    <2> QED BY <1>1, <1>3, <2>2
  <1>4. CASE Len(fs) = 2
    <2> DEFINE c == CHOOSE k \in DOMAIN fs : fs[k] = id
               b == SubSeq(fs, 1, c - 1)
               e == SubSeq(fs, c + 1, Len(fs))
    <2>1. 2 \in DOMAIN fs /\ fs[2] = id
      BY <1>2, <1>4
    <2>2. c \in DOMAIN fs /\ fs[c] = id
      BY <2>1
    <2>3. Removed(fs, id) = b \o e
      BY <2>1 DEF Removed, RemoveAt
    <2> HIDE DEF c
    <2>4. c = 2
      BY <1>2, <1>4, <2>2
    <2>5. b \in Seq(Shown) /\ Len(b) = 1 /\ b[1] = fs[1]
      <3>1. \A m \in 1..(c - 1) : fs[m] \in Shown
        BY <1>2, <1>4, <2>4, ElementOfSeq
      <3>2. /\ b \in Seq(Shown) /\ Len(b) = IF 1 <= c - 1 THEN c - 1 - 1 + 1 ELSE 0
            /\ \A m \in 1..(c - 1 - 1 + 1) : b[m] = fs[1 + m - 1]
        BY <2>4, <3>1, SubSeqProperties
      <3>3. b[1] = fs[1 + 1 - 1]
        BY <2>4, <3>2
      <3> QED BY <2>4, <3>2, <3>3
    <2>6. e \in Seq(Shown) /\ Len(e) = 0
      <3>1. \A m \in (c + 1)..Len(fs) : fs[m] \in Shown
        BY <1>2, <1>4, <2>4, ElementOfSeq
      <3>2. /\ e \in Seq(Shown)
            /\ Len(e) = IF c + 1 <= Len(fs) THEN Len(fs) - (c + 1) + 1 ELSE 0
        BY <1>4, <2>4, <3>1, SubSeqProperties
      <3> QED BY <1>4, <2>4, <3>2
    <2> DEFINE w == b \o e
    <2> HIDE DEF b, e
    <2>7. /\ Len(w) = Len(b) + Len(e)
          /\ \A m \in 1..(Len(b) + Len(e)) :
                 w[m] = IF m <= Len(b) THEN b[m] ELSE e[m - Len(b)]
      BY <2>5, <2>6, ConcatProperties
    <2> HIDE DEF w
    <2>8. Len(w) = 1 /\ w[1] = b[1]
      BY <2>5, <2>6, <2>7
    <2>9. w = Removed(fs, id)
      BY <2>3 DEF w
    <2> QED BY <1>1, <2>5, <2>8, <2>9
  <1> QED BY <1>3, <1>4

\* A form that is not shown is hidden in vain.
LEMMA NotShown ==
  ASSUME NEW fs \in Seq(Shown), NEW id, id # "PAGE_0",
         Len(fs) = 2, fs[1] = "PAGE_0", fs[2] # id
  PROVE  Removed(fs, id) = fs
  <1>1. DOMAIN fs = 1..Len(fs)
    BY LenProperties
  <1>2. ~\E k \in DOMAIN fs : fs[k] = id
    BY <1>1
  <1> QED BY <1>2 DEF Removed

\* A form put on PAGE_0 alone, or on PAGE_0 and itself.
LEMMA CoversAlone ==
  ASSUME NEW fs \in Seq(Shown), NEW id \in Shown, id # "PAGE_0",
         Len(fs) \in {1, 2}, fs[1] = "PAGE_0", Len(fs) = 2 => fs[2] = id
  PROVE  /\ Len(With(fs, id)) = 2
         /\ With(fs, id)[1] = "PAGE_0" /\ With(fs, id)[2] = id
  <1> DEFINE o == Removed(fs, id)
             w == Append(o, id)
  <1>1. o \in Seq(Shown) /\ Len(o) = 1 /\ o[1] = "PAGE_0"
    BY AloneRemoved
  <1>2. With(fs, id) = w
    BY DEF With
  <1> HIDE DEF o
  <1>3. Len(w) = Len(o) + 1 /\ (\A k \in 1..Len(o) : w[k] = o[k]) /\ w[Len(o) + 1] = id
    <2>1. o \in Seq(Shown)
      BY <1>1
    <2> QED BY ONLY <2>1, id \in Shown, AppendProperties
  <1> HIDE DEF w
  <1> QED BY <1>1, <1>2, <1>3

LEMMA Replaced ==
  ASSUME forms \in Seq(Shown), NEW old \in Shown, NEW id \in Shown,
         old # "PAGE_0", id # "PAGE_0",
         Len(forms) = 2, forms[1] = "PAGE_0", forms[2] \in {old, id}
  PROVE  /\ Len(With(Hidden(old), id)) = 2
         /\ With(Hidden(old), id)[1] = "PAGE_0" /\ With(Hidden(old), id)[2] = id
  <1> DEFINE fs == Hidden(old)
  <1>1. fs \in Seq(Shown)
    BY RemovedOthers DEF Hidden
  <1>2. Len(fs) \in {1, 2} /\ fs[1] = "PAGE_0" /\ (Len(fs) = 2 => fs[2] = id)
    <2>1. CASE forms[2] = old
      <3>1. Len(Removed(forms, old)) = 1 /\ Removed(forms, old)[1] = "PAGE_0"
        BY <2>1, AloneRemoved
      <3> QED BY <3>1 DEF Hidden
    <2>2. CASE forms[2] # old
      <3>1. Removed(forms, old) = forms
        BY <2>2, NotShown
      <3> QED BY <2>2, <3>1 DEF Hidden
    <2> QED BY <2>1, <2>2
  <1> HIDE DEF fs
  <1>3. Len(With(fs, id)) = 2 /\ With(fs, id)[1] = "PAGE_0" /\ With(fs, id)[2] = id
    BY <1>1, <1>2, CoversAlone
  <1> QED BY <1>3 DEF fs

\* A page of the menu stays while a form of the camera is replaced.
LEMMA PageStays ==
  ASSUME forms \in Seq(Shown), PageShown, NEW old \in Shown \ MenuPages, NEW id \in Shown
  PROVE  /\ \E k \in DOMAIN With(Hidden(old), id) : With(Hidden(old), id)[k] \in MenuPages
         /\ \E k \in DOMAIN With(forms, id) : With(forms, id)[k] \in MenuPages
  <1> DEFINE fs == Hidden(old)
  <1>1. PICK k \in DOMAIN forms : forms[k] \in MenuPages
    BY DEF PageShown
  <1>2. fs \in Seq(Shown) /\ \E n \in DOMAIN fs : fs[n] = forms[k]
    <2>1. forms[k] # old
      BY <1>1
    <2> QED BY <1>1, <2>1, RemovedOthers DEF Hidden
  <1> HIDE DEF fs
  <1>3. PICK n \in DOMAIN fs : fs[n] = forms[k]
    BY <1>2
  <1>4. \E m \in DOMAIN With(fs, id) : With(fs, id)[m] = fs[n]
    BY <1>2, <1>3, WithOthers
  <1>5. \E m \in DOMAIN With(forms, id) : With(forms, id)[m] = forms[k]
    BY <1>1, WithOthers
  <1>6. \E m \in DOMAIN With(fs, id) : With(fs, id)[m] \in MenuPages
    BY <1>1, <1>3, <1>4
  <1>7. \E m \in DOMAIN With(forms, id) : With(forms, id)[m] \in MenuPages
    BY <1>1, <1>5
  <1> QED BY <1>6, <1>7 DEF fs

\* What show_page shows is a page of the menu, and on top.
LEMMA PageComes ==
  ASSUME ScreenType, NEW id \in MenuPages, show_page(id)
  PROVE  /\ forms' \in Seq(Shown) /\ forms' # <<>> /\ PageShown'
         /\ \A other : OnTop(other)' <=> other = id
  <1> DEFINE fs == IF forms = <<>> THEN forms ELSE Front(forms)
  <1>1. forms \in Seq(Shown) /\ id \in Shown
    BY DEF ScreenType, Shown
  <1>2. fs \in Seq(Shown)
    <2>1. Len(forms) \in Nat /\ \A m \in 1..Len(forms) : forms[m] \in Shown
      BY <1>1, LenProperties, ElementOfSeq
    <2>2. SubSeq(forms, 1, Len(forms) - 1) \in Seq(Shown)
      <3>1. \A m \in 1..(Len(forms) - 1) : forms[m] \in Shown
        BY <2>1
      <3> QED BY <2>1, <3>1, SubSeqProperties
    <2>3. Front(forms) = SubSeq(forms, 1, Len(forms) - 1)
      BY DEF Front
    <2> QED BY <1>1, <2>2, <2>3
  <1>3. forms' = With(fs, id)
    BY DEF show_page
  <1> HIDE DEF fs
  <1>7. forms' # <<>> /\ \A other : OnTop(other)' <=> other = id
    BY <1>1, <1>2, <1>3, TopIs
  <1>4. With(fs, id) \in Seq(Shown) /\ \E n \in DOMAIN With(fs, id) : With(fs, id)[n] = id
    BY <1>1, <1>2, WithOthers
  <1> DEFINE w == With(fs, id)
  <1>5. forms' = w /\ w \in Seq(Shown) /\ \E n \in DOMAIN w : w[n] = id
    BY <1>3, <1>4
  <1> HIDE DEF w
  <1>6. \E n \in DOMAIN forms' : forms'[n] = id
    BY <1>5
  <1> QED BY <1>5, <1>6, <1>7 DEF PageShown


From(way) == IF way > 0 THEN Up ELSE Down

\* The form of every selection.
LEMMA FormsAre ==
  /\ FormOf(0) = "BASEFORM_1" /\ FormOf(1) = "BASEFORM_64"
  /\ FormOf(2) = "BASEFORM_64" /\ FormOf(3) = "BASEFORM_64"
  /\ FormOf(12) = "BASEFORM_135" /\ FormOf(13) = "BASEFORM_138"
  /\ FormOf(14) = "BASEFORM_142" /\ FormOf(15) = "BASEFORM_148"
  BY DEF FormOf

LEMMA UpIs ==
  /\ Up[0] = 15 /\ Up[1] = 0 /\ Up[12] = 3 /\ Up[13] = 12 /\ Up[14] = 13 /\ Up[15] = 14
  /\ DOMAIN Up = {0, 1, 12, 13, 14, 15}
  BY DEF Up

LEMMA DownIs ==
  /\ Down[0] = 1 /\ Down[3] = 12 /\ Down[12] = 13 /\ Down[13] = 14 /\ Down[14] = 15
  /\ Down[15] = 0
  /\ DOMAIN Down = {0, 3, 12, 13, 14, 15}
  BY DEF Down

\* Where a form is changed, the one that is hidden or the new one is on.
FormsFollow(from, way, sel) ==
    /\ sel \in 0..15
    /\ sel \in DOMAIN From(way) =>
           /\ From(way)[sel] \in 0..15
           /\ ShownAt(from) \subseteq {FormOf(From(way)[sel]), FormOf(sel)}
           /\ FormOf(sel) \in ShownAt(sel)
    /\ sel \notin DOMAIN From(way) => ShownAt(from) \subseteq ShownAt(sel)

LEMMA StepForms ==
  ASSUME NEW from \in 0..15, NEW way \in {1, -1}, NEW sel, sel = (from + way) % 16
  PROVE  FormsFollow(from, way, sel)
  <1> USE DEF FormsFollow
  <1>1. CASE way = 1
    <2>1. From(way) = Up
      BY <1>1 DEF From
    <2>2. CASE from = 15
      <3>1. sel = 0
        BY <1>1, <2>2
      <3> QED BY <2>1, <2>2, <3>1, FormsAre, UpIs DEF ShownAt, Kaleidoscopes
    <2>3. CASE from \in 0..14
      <3>1. sel = from + 1
        BY <1>1, <2>3
      <3>2. CASE from \in {0, 11, 12, 13, 14}
        BY <2>1, <3>1, <3>2, FormsAre, UpIs DEF ShownAt, Kaleidoscopes
      <3>3. CASE from \in 1..10
        <4>1. sel \notin DOMAIN From(way) /\ sel \in 0..15
          BY <2>1, <3>1, <3>3, UpIs
        <4>2. CASE from \in 1..2
          BY <3>1, <4>1, <4>2, FormsAre DEF ShownAt, Kaleidoscopes
        <4>3. CASE from \in 3..10
          <5>1. sel \in Kaleidoscopes /\ (from \in Kaleidoscopes \/ from = 3)
            BY <3>1, <4>3 DEF Kaleidoscopes
          <5> QED BY <4>1, <5>1, FormsAre DEF ShownAt
        <4> QED BY <3>3, <4>2, <4>3
      <3> QED BY <2>3, <3>2, <3>3
    <2> QED BY <2>2, <2>3
  <1>2. CASE way = -1
    <2>1. From(way) = Down
      BY <1>2 DEF From
    <2>2. CASE from = 0
      <3>1. sel = 15
        <4>1. way \in Int /\ way < 0 /\ way > -16 /\ 0 + way = way
          BY <1>2
        <4>2. sel = way % 16
          BY <2>2, <4>1
        <4>3. way % 16 = 16 + way
          BY <4>1
        <4> QED BY <1>2, <4>2, <4>3
      <3> QED BY <2>1, <2>2, <3>1, FormsAre, DownIs DEF ShownAt, Kaleidoscopes
    <2>3. CASE from \in 1..15
      <3>1. sel = from - 1
        BY <1>2, <2>3
      <3>2. CASE from \in {1, 4, 13, 14, 15}
        BY <2>1, <3>1, <3>2, FormsAre, DownIs DEF ShownAt, Kaleidoscopes
      <3>3. CASE from \in {2, 3} \cup 5..12
        <4>1. sel \notin DOMAIN From(way) /\ sel \in 0..15
          BY <2>1, <3>1, <3>3, DownIs
        <4>2. CASE from \in 2..3
          BY <3>1, <4>1, <4>2, FormsAre DEF ShownAt, Kaleidoscopes
        <4>3. CASE from \in 5..12
          <5>1. sel \in Kaleidoscopes /\ (from \in Kaleidoscopes \/ from = 12)
            BY <3>1, <4>3 DEF Kaleidoscopes
          <5> QED BY <4>1, <5>1, FormsAre DEF ShownAt
        <4> QED BY <3>3, <4>2, <4>3
      <3> QED BY <2>3, <3>2, <3>3
    <2> QED BY <2>2, <2>3
  <1> QED BY <1>1, <1>2


EffectVars == <<get_photo_mode, photo_selection, kaleidoscope, compose, choice_piece>>
CursorKept == <<init_flog, page_x, page_y, page2_x, page2_y, leaving>>
TimeKeeps == <<init_flog, page_x, leaving, ticking, late, wanted, test_rtc_time, rtc>>

LEMMA EffectStays ==
  ASSUME EffectInStep, UNCHANGED EffectVars
  PROVE  EffectInStep'
  BY DEF EffectInStep, EffectVars, PhotoMode, Pieces, Kaleidoscopes

LEMMA MenuStays ==
  ASSUME MenuInv, UNCHANGED CursorKept, UNCHANGED <<forms, home>>
  PROVE  MenuInv'
  BY DEF MenuInv, MenuInStep, CursorKept, OnTop

LEMMA TimeStays ==
  ASSUME TimeInv, UNCHANGED TimeKeeps
  PROVE  TimeInv'
  BY DEF TimeInv, TimeKept, Setting, TimeKeeps

\* A form of the camera comes on top.
LEMMA MenuCovered ==
  ASSUME MenuInv, UNCHANGED CursorKept, NEW fs \in Seq(Shown), NEW sel \in 0..15,
         forms' = With(fs, FormOf(sel))
  PROVE  MenuInv'
  <1>1. FormOf(sel) \in Shown /\ FormOf(sel) \notin MenuPages
    BY FormsOfSelections
  <1>2. \A other : OnTop(other)' <=> other = FormOf(sel)
    BY <1>1, TopIs
  <1>3. OnTop(FormOf(sel))' /\ \A x \in HasPage : ~OnTop(PageOf(x))'
    BY <1>1, <1>2, PagesAre
  <1>4. /\ init_flog' = 1 <=> page_y' = 1 /\ page_x' \in {2, 3}
        /\ page2_y' = 1 => page_x' = 2 /\ page_y' = 1
        /\ leaving' => page_y' = 0
        /\ page2_x' > 3 => page_x' = 2 /\ page_y' = 1
    BY DEF MenuInv, MenuInStep, CursorKept
  <1> QED BY <1>3, <1>4 DEF MenuInv, MenuInStep

\* The first page of the menu comes on top.
LEMMA MenuFirst ==
  ASSUME show_page("PAGE_1"), ScreenType,
         page_y' = 1 /\ page_x' \in HasPage => home',
         init_flog' = 1 <=> page_y' = 1 /\ page_x' \in {2, 3},
         page2_y' = 1 => page_x' = 2 /\ page_y' = 1,
         leaving' => page_y' = 0,
         page2_x' > 3 => page_x' = 2 /\ page_y' = 1
  PROVE  MenuInv'
  <1>1. \A x \in HasPage : ~OnTop(PageOf(x))'
    BY PageComes, PagesAre DEF MenuPages
  <1> QED BY <1>1 DEF MenuInv, MenuInStep

LEMMA FormStays ==
  ASSUME FormInv, UNCHANGED <<forms, photo_selection, lcd>>
  PROVE  FormInv'
  BY DEF FormInv, PageShown, CameraShown, ShownAt, Kaleidoscopes, FormOf

LEMMA ModeOf ==
  ASSUME NEW sel \in 0..15
  PROVE  /\ PhotoMode(sel) \in 1..6
         /\ PhotoMode(sel) > KALEIDOSCOPE <=> sel \in 12..15
         /\ sel \in 12..15 => PhotoMode(sel) = sel - 9
  <1>1. sel \in 0..3 \/ sel \in 4..11 \/ sel \in 12..15
    OBVIOUS
  <1>2. CASE sel \in 0..3
    BY <1>2 DEF PhotoMode, Kaleidoscopes, BOOTH, KALEIDOSCOPE
  <1>3. CASE sel \in 4..11
    BY <1>3 DEF PhotoMode, Kaleidoscopes, BOOTH, KALEIDOSCOPE
  <1>4. CASE sel \in 12..15
    BY <1>4 DEF PhotoMode, Kaleidoscopes, BOOTH, KALEIDOSCOPE
  <1> QED BY <1>1, <1>2, <1>3, <1>4

LEMMA SelectionStep ==
  ASSUME ScreenInv, NEW way \in {1, -1}, StepSelection(way)
  PROVE  ScreenInv'
  <1> DEFINE sel == (photo_selection + way) % 16
             old == FormOf(From(way)[sel])
  <1>1. ScreenType /\ EffectInStep /\ FormInv /\ MenuInv /\ TimeInv
    BY DEF ScreenInv
  <1>2. /\ photo_selection' = sel /\ choice_piece' = 0 /\ get_photo_mode' = PhotoMode(sel)
        /\ kaleidoscope' = IF sel \in Kaleidoscopes THEN sel ELSE EM_END
        /\ compose' = CASE sel \in 0..3 -> <<0, 0>>
                        [] sel \in 12..15 -> <<sel - 8, 0>>
                        [] OTHER -> compose
        /\ lcd' = CASE sel \in {0, 3, 12} -> "UI_CAMERA"
                    [] sel \in {4, 11} -> "CAMERA"
                    [] OTHER -> lcd
        /\ UNCHANGED CursorKept /\ UNCHANGED TimeKeeps /\ UNCHANGED home
    BY DEF StepSelection, SetsEffect, cursorVars, valueVars, timeVars, CursorKept, TimeKeeps
  <1>3. forms' = IF sel \in DOMAIN From(way) THEN With(Hidden(old), FormOf(sel)) ELSE forms
    BY DEF StepSelection, MovesForm, From
  <1>4. /\ photo_selection \in 0..15 /\ forms \in Seq(Shown) /\ sel \in 0..15
        /\ sel \in DOMAIN From(way) =>
                /\ From(way)[sel] \in 0..15
                /\ ShownAt(photo_selection) \subseteq {old, FormOf(sel)}
                /\ FormOf(sel) \in ShownAt(sel)
        /\ sel \notin DOMAIN From(way) => ShownAt(photo_selection) \subseteq ShownAt(sel)
    <2>1. photo_selection \in 0..15 /\ forms \in Seq(Shown)
      BY <1>1 DEF ScreenType
    <2>2. sel = (photo_selection + way) % 16
      OBVIOUS
    <2> HIDE DEF sel
    <2>3. FormsFollow(photo_selection, way, sel)
      BY <2>1, <2>2, StepForms
    <2>4. old = FormOf(From(way)[sel])
      OBVIOUS
    <2> HIDE DEF old
    <2> QED BY <2>1, <2>3, <2>4 DEF FormsFollow
  <1>5. sel = photo_selection + way \/ (photo_selection = 15 /\ sel = 0)
            \/ (photo_selection = 0 /\ sel = 15)
    <2>1. way = 1 => sel = photo_selection + way \/ (photo_selection = 15 /\ sel = 0)
      BY <1>4
    <2>2. CASE way = -1 /\ photo_selection = 0
      <3>1. way \in Int /\ way < 0 /\ way > -16 /\ 0 + way = way
        BY <2>2
      <3>2. sel = way % 16
        BY <2>2, <3>1
      <3>3. way % 16 = 16 + way
        BY <3>1
      <3> QED BY <2>2, <3>2, <3>3
    <2>3. CASE way = -1 /\ photo_selection # 0
      BY <1>4, <2>3
    <2> QED BY <2>1, <2>2, <2>3
  <1> HIDE DEF sel
  <1>6. sel \in DOMAIN From(way) => old \in Shown \ MenuPages /\ old # "PAGE_0"
    BY <1>4, FormsOfSelections
  <1>7. FormOf(sel) \in Shown \ MenuPages /\ FormOf(sel) # "PAGE_0"
    BY <1>4, FormsOfSelections
  <1> HIDE DEF old
  <1>12. MenuInv' /\ forms' # <<>>
    <2>1. CASE sel \in DOMAIN From(way)
      <3>1. Hidden(old) \in Seq(Shown)
        BY <1>4, <1>6, <2>1, RemovedOthers DEF Hidden
      <3>2. forms' = With(Hidden(old), FormOf(sel))
        BY <1>3, <2>1
      <3> QED BY <1>1, <1>2, <1>4, <1>7, <3>1, <3>2, MenuCovered, TopIs
    <2>2. CASE sel \notin DOMAIN From(way)
      <3>1. forms' = forms
        BY <1>3, <2>2
      <3> QED BY <1>1, <1>2, <3>1, MenuStays DEF ScreenType
    <2> QED BY <2>1, <2>2
  <1>8. FormInv' /\ forms' \in Seq(Shown)
    <2>1. CASE PageShown
      <3>1. CASE sel \in DOMAIN From(way)
        <4>1. forms' = With(Hidden(old), FormOf(sel)) /\ old \in Shown \ MenuPages
          BY <1>3, <1>6, <3>1
        <4>2. \E k \in DOMAIN With(Hidden(old), FormOf(sel)) :
                  With(Hidden(old), FormOf(sel))[k] \in MenuPages
          BY <1>4, <1>7, <2>1, <4>1, PageStays
        <4>3. Hidden(old) \in Seq(Shown)
          BY <1>4, <4>1, RemovedOthers DEF Hidden
        <4>4. With(Hidden(old), FormOf(sel)) \in Seq(Shown)
          BY <1>7, <4>3, WithOthers
        <4>5. \E k \in DOMAIN forms' : forms'[k] \in MenuPages
          BY <4>1, <4>2
        <4> QED BY <4>1, <4>4, <4>5 DEF FormInv, PageShown
      <3>2. CASE sel \notin DOMAIN From(way)
        <4>1. forms' = forms
          BY <1>3, <3>2
        <4> QED BY <1>4, <2>1, <4>1 DEF FormInv, PageShown
      <3> QED BY <3>1, <3>2
    <2>2. CASE CameraShown
      <3>1. /\ Len(forms) = 2 /\ forms[1] = "PAGE_0" /\ forms[2] \in ShownAt(photo_selection)
            /\ lcd = IF photo_selection \in Kaleidoscopes THEN "CAMERA" ELSE "UI_CAMERA"
        BY <2>2 DEF CameraShown
      <3>2. lcd' = IF sel \in Kaleidoscopes THEN "CAMERA" ELSE "UI_CAMERA"
        <4>1. CASE sel \in {0, 3, 12, 4, 11}
          BY <1>2, <4>1 DEF Kaleidoscopes
        <4>2. CASE sel \notin {0, 3, 12, 4, 11}
          <5>1. lcd' = lcd
            BY <1>2, <4>2
          <5>2. sel \in Kaleidoscopes <=> photo_selection \in Kaleidoscopes
            BY <1>4, <1>5, <4>2 DEF Kaleidoscopes
          <5> QED BY <3>1, <5>1, <5>2
        <4> QED BY <4>1, <4>2
      <3>3. forms' \in Seq(Shown) /\ Len(forms') = 2 /\ forms'[1] = "PAGE_0"
            /\ forms'[2] \in ShownAt(sel)
        <4>1. CASE sel \in DOMAIN From(way)
          <5>1. /\ forms' = With(Hidden(old), FormOf(sel)) /\ old \in Shown /\ old # "PAGE_0"
                /\ forms[2] \in {old, FormOf(sel)} /\ FormOf(sel) \in ShownAt(sel)
            BY <1>3, <1>4, <1>6, <3>1, <4>1
          <5>2. /\ Len(With(Hidden(old), FormOf(sel))) = 2
                /\ With(Hidden(old), FormOf(sel))[1] = "PAGE_0"
                /\ With(Hidden(old), FormOf(sel))[2] = FormOf(sel)
            BY <1>4, <1>7, <3>1, <5>1, Replaced
          <5>3. Hidden(old) \in Seq(Shown)
            BY <1>4, <5>1, RemovedOthers DEF Hidden
          <5>4. With(Hidden(old), FormOf(sel)) \in Seq(Shown)
            BY <1>7, <5>3, WithOthers
          <5> QED BY <5>1, <5>2, <5>4
        <4>2. CASE sel \notin DOMAIN From(way)
          BY <1>3, <1>4, <3>1, <4>2
        <4> QED BY <4>1, <4>2
      <3>4. CameraShown'
        <4>1. photo_selection' = sel
          BY <1>2
        <4>2. ShownAt(sel) = ShownAt(photo_selection)'
          BY <4>1 DEF ShownAt, Kaleidoscopes, FormOf
        <4> QED BY <3>2, <3>3, <4>1, <4>2 DEF CameraShown, Kaleidoscopes
      <3> QED BY <3>3, <3>4 DEF FormInv
    <2> QED BY <1>1, <2>1, <2>2 DEF FormInv
  <1>9. ScreenType'
    <2>1. get_photo_mode' \in 0..6
      BY <1>2, <1>4, ModeOf
    <2> QED BY <1>1, <1>2, <1>4, <1>8, <1>12, <2>1 DEF ScreenType, CursorKept
  <1>10. EffectInStep'
    <2>1. sel \in 12..15 => /\ compose' = <<sel - 8, 0>>
                            /\ Pieces(PhotoMode(sel)) - 1 # 0
      <3>1. sel \in 12..15 => compose' = <<sel - 8, 0>>
        BY <1>2
      <3> QED BY <3>1 DEF Pieces
    <2>2. /\ photo_selection' = sel /\ choice_piece' = 0 /\ get_photo_mode' = PhotoMode(sel)
          /\ kaleidoscope' = IF sel \in Kaleidoscopes THEN sel ELSE EM_END
      BY <1>2
    <2>3. PhotoMode(sel) = PhotoMode(photo_selection)'
      BY <2>2 DEF PhotoMode, Kaleidoscopes
    <2>4. Pieces(get_photo_mode)' = Pieces(PhotoMode(sel))
      BY <2>2 DEF Pieces
    <2> QED BY <2>1, <2>2, <2>3, <2>4 DEF EffectInStep, Kaleidoscopes, EM_END
  <1>11. TimeInv'
    BY <1>1, <1>2, TimeStays
  <1> QED BY <1>8, <1>9, <1>10, <1>11, <1>12 DEF ScreenInv


LEMMA PhotoStep ==
  ASSUME ScreenInv, KeyPhoto
  PROVE  ScreenInv'
  <1>1. ScreenType /\ EffectInStep /\ FormInv /\ MenuInv /\ TimeInv
    BY DEF ScreenInv
  <1>2. /\ UNCHANGED <<lcd, photo_selection, get_photo_mode, kaleidoscope>>
        /\ UNCHANGED CursorKept /\ UNCHANGED TimeKeeps /\ UNCHANGED home
    BY DEF KeyPhoto, cursorVars, valueVars, timeVars, CursorKept, TimeKeeps
  <1>3. TimeInv'
    BY <1>1, <1>2, TimeStays
  <1>4. CASE ~(get_photo_mode > KALEIDOSCOPE)
    <2>1. UNCHANGED <<choice_piece, compose, forms>>
      BY <1>1, <1>4 DEF KeyPhoto, KALEIDOSCOPE, BOOTH
    <2>2. EffectInStep' /\ FormInv'
      BY <1>1, <1>2, <2>1, EffectStays, FormStays DEF EffectVars
    <2>3. ScreenType'
      BY <1>1, <1>2, <2>1 DEF ScreenType, CursorKept
    <2>4. MenuInv'
      BY <1>1, <1>2, <2>1, MenuStays
    <2> QED BY <1>3, <2>2, <2>3, <2>4 DEF ScreenInv
  <1>5. CASE get_photo_mode > KALEIDOSCOPE
    <2> DEFINE m == get_photo_mode
               piece == (choice_piece + 1) % Pieces(m)
               sel == photo_selection
    <2>1. /\ choice_piece' = piece
          /\ compose' = IF piece = Pieces(m) - 1 THEN <<255, 0>> ELSE <<m + 1, piece>>
          /\ forms' = IF piece = 0 THEN With(forms, FormOf(m + 9)) ELSE forms
      <3>1. get_photo_mode \notin {BOOTH, KALEIDOSCOPE}
        BY <1>5 DEF BOOTH, KALEIDOSCOPE
      <3> QED BY <1>5, <3>1 DEF KeyPhoto
    <2>2. sel \in 12..15 /\ m = sel - 9 /\ m = PhotoMode(sel) /\ m + 9 = sel /\ m + 1 = sel - 8
      <3>1. sel \in 0..15 /\ m \in 0..6 /\ m # 0
        BY <1>1, <1>5 DEF ScreenType, KALEIDOSCOPE
      <3>2. m = PhotoMode(sel)
        BY <1>1, <3>1 DEF EffectInStep
      <3>3. sel \in 12..15 /\ PhotoMode(sel) = sel - 9
        BY <1>5, <3>1, <3>2, ModeOf
      <3> QED BY <3>2, <3>3
    <2>3. Pieces(m) \in {3, 4} /\ piece \in Nat
      <3>1. Pieces(m) \in {3, 4} /\ choice_piece \in Nat
        BY <1>1 DEF Pieces, ScreenType
      <3> QED BY <3>1
    <2> HIDE DEF piece
    <2>4. EffectInStep'
      <3>1. /\ PhotoMode(photo_selection)' = PhotoMode(sel) /\ Pieces(get_photo_mode)' = Pieces(m)
            /\ photo_selection' = sel /\ get_photo_mode' = m
        BY <1>2 DEF PhotoMode, Pieces, Kaleidoscopes
      <3>2. /\ m = PhotoMode(sel)
            /\ kaleidoscope' = IF sel \in Kaleidoscopes THEN sel ELSE EM_END
        <4>1. m # 0
          BY <2>2
        <4> QED BY <1>1, <1>2, <2>2, <4>1 DEF EffectInStep
      <3>3. compose' = IF choice_piece' = Pieces(m) - 1 THEN <<255, 0>>
                       ELSE <<sel - 8, choice_piece'>>
        BY <2>1, <2>2
      <3> QED BY <3>1, <3>2, <3>3 DEF EffectInStep, Kaleidoscopes, EM_END
    <2>5. FormOf(sel) \in Shown \ MenuPages /\ FormOf(sel) # "PAGE_0" /\ forms \in Seq(Shown)
          /\ forms' = IF piece = 0 THEN With(forms, FormOf(sel)) ELSE forms
      <3>1. sel \in 0..15 /\ forms \in Seq(Shown)
        BY <1>1, <2>2 DEF ScreenType
      <3>2. forms' = IF piece = 0 THEN With(forms, FormOf(sel)) ELSE forms
        BY <2>1, <2>2
      <3> QED BY <3>1, <3>2, FormsOfSelections
    <2>6. forms' \in Seq(Shown) /\ forms' # <<>>
      BY <1>1, <2>5, WithOthers, TopIs DEF ScreenType
    <2>9. MenuInv'
      <3>1. CASE piece # 0
        BY <1>1, <1>2, <2>5, <3>1, MenuStays
      <3>2. CASE piece = 0
        <4>1. forms' = With(forms, FormOf(sel)) /\ sel \in 0..15
          BY <2>2, <2>5, <3>2
        <4> QED BY <1>1, <1>2, <2>5, <4>1, MenuCovered
      <3> QED BY <3>1, <3>2
    <2>7. FormInv'
      <3>1. CASE piece # 0
        <4>1. forms' = forms
          BY <2>5, <3>1
        <4> QED BY <1>1, <1>2, <4>1, FormStays
      <3>2. CASE piece = 0 /\ PageShown
        <4>1. forms' = With(forms, FormOf(sel))
          BY <2>5, <3>2
        <4>2. \E k \in DOMAIN With(forms, FormOf(sel)) :
                  With(forms, FormOf(sel))[k] \in MenuPages
          BY <2>5, <3>2, PageStays
        <4>3. \E k \in DOMAIN forms' : forms'[k] \in MenuPages
          BY <4>1, <4>2
        <4> QED BY <4>3 DEF FormInv, PageShown
      <3>3. CASE piece = 0 /\ CameraShown
        <4>1. forms' = With(forms, FormOf(sel))
          BY <2>5, <3>3
        <4>2. ShownAt(sel) = {FormOf(sel)} /\ sel \notin Kaleidoscopes
          BY <2>2 DEF ShownAt, Kaleidoscopes
        <4>3. /\ Len(forms) = 2 /\ forms[1] = "PAGE_0" /\ forms[2] = FormOf(sel)
              /\ lcd = "UI_CAMERA"
          BY <3>3, <4>2 DEF CameraShown
        <4>4. /\ Len(With(forms, FormOf(sel))) = 2 /\ With(forms, FormOf(sel))[1] = "PAGE_0"
              /\ With(forms, FormOf(sel))[2] = FormOf(sel)
          BY <2>5, <4>3, CoversAlone
        <4>5. photo_selection' = sel /\ lcd' = "UI_CAMERA"
          BY <1>2, <4>3
        <4>6. ShownAt(photo_selection)' = ShownAt(sel)
          BY <4>5 DEF ShownAt, Kaleidoscopes, FormOf
        <4>7. CameraShown'
          BY <4>1, <4>2, <4>4, <4>5, <4>6 DEF CameraShown, Kaleidoscopes
        <4> QED BY <4>7 DEF FormInv
      <3> QED BY <1>1, <3>1, <3>2, <3>3 DEF FormInv
    <2>8. ScreenType'
      <3>1. choice_piece' \in Nat
        BY <2>1, <2>3
      <3> QED BY <1>1, <1>2, <2>6, <3>1 DEF ScreenType, CursorKept
    <2> QED BY <1>3, <2>4, <2>7, <2>8, <2>9 DEF ScreenInv
  <1> QED BY <1>4, <1>5

LEMMA MenuStepStep ==
  ASSUME ScreenInv, NEW way \in {1, -1}, MenuStep(way)
  PROVE  ScreenInv'
  <1>1. ScreenType /\ EffectInStep /\ FormInv /\ MenuInv /\ TimeInv
    BY DEF ScreenInv
  <1>2. /\ UNCHANGED <<lcd, forms, photo_selection, get_photo_mode, kaleidoscope, compose>>
        /\ UNCHANGED <<choice_piece, init_flog, page_y, page2_y, leaving, late, ticking, home>>
        /\ ~leaving
    BY DEF MenuStep, cameraVars
  <1>3. EffectInStep' /\ FormInv'
    BY <1>1, <1>2, EffectStays, FormStays DEF EffectVars
  <1>4. page_x' \in 0..5 /\ page2_x' \in 0..5 /\ (page2_x' > 3 => page_x' = 2 /\ page_y' = 1)
    <2>1. (page_x + way) % 6 \in 0..5
      BY <1>1 DEF ScreenType
    <2>2. (page2_x + way) % 4 \in 0..3 /\ (page2_x + way) % 6 \in 0..5
      BY <1>1 DEF ScreenType
    <2>3. page_x' \in {page_x, (page_x + way) % 6} /\ (page_x' = page_x \/ page_y = 0)
      BY DEF MenuStep
    <2>4. \/ page2_x' = page2_x \/ page2_x' = (page2_x + way) % 4
          \/ page2_x' = (page2_x + way) % 6 /\ page_x = 2 /\ page_x' = 2 /\ page_y = 1
      BY DEF MenuStep
    <2>5. /\ page_x \in 0..5 /\ page2_x \in 0..5 /\ page_y' = page_y
          /\ page2_x > 3 => page_x = 2 /\ page_y = 1
      BY <1>1, <1>2 DEF ScreenType, MenuInv
    <2>6. page_x' \in 0..5 /\ page2_x' \in 0..5
      BY <2>1, <2>2, <2>3, <2>4, <2>5
    <2>7. ASSUME page2_x' > 3 PROVE page_x' = 2 /\ page_y' = 1
      BY <2>2, <2>3, <2>4, <2>5, <2>7
    <2> QED BY <2>6, <2>7
  <1>5. ScreenType'
    BY <1>1, <1>2, <1>4 DEF ScreenType
  <1>6. MenuInv'
    <2>1. page_x' = page_x \/ page_y = 0
      BY DEF MenuStep
    <2>2. page_y \in 0..1 /\ page2_y \in 0..1 /\ init_flog \in 0..1
      BY <1>1 DEF ScreenType
    <2>3. \A id : OnTop(id)' <=> OnTop(id)
      BY <1>2 DEF OnTop
    <2>4. MenuInStep
      BY <1>1 DEF MenuInv
    <2>5. CASE page_y = 0
      <3>1. \A x \in HasPage : ~OnTop(PageOf(x))'
        BY <1>2, <2>3, <2>4, <2>5 DEF MenuInStep
      <3>2. init_flog = 0 /\ page2_y = 0 /\ page_y' = 0
        BY <1>2, <2>2, <2>4, <2>5 DEF MenuInStep
      <3> QED BY <1>2, <1>4, <3>1, <3>2 DEF MenuInv, MenuInStep
    <2>6. CASE page_y = 1
      <3>1. page_x' = page_x
        BY <2>1, <2>6
      <3> QED BY <1>2, <1>4, <2>3, <2>4, <3>1 DEF MenuInv, MenuInStep
    <2> QED BY <2>2, <2>5, <2>6
  <1>7. TimeInv'
    <2>1. TimeKept /\ (Setting /\ ticking => late) /\ page_y \in 0..1
          /\ (init_flog = 1 <=> page_y = 1 /\ page_x \in {2, 3})
      BY <1>1 DEF TimeInv, ScreenType, MenuInv, MenuInStep
    <2>2. rtc' = rtc
      BY DEF MenuStep, valueVars
    <2>3. CASE UNCHANGED <<test_rtc_time, wanted>>
      <3>1. Setting' <=> Setting
        BY <1>2, <2>1 DEF Setting, MenuStep
      <3> QED BY <1>2, <2>1, <2>2, <2>3, <3>1 DEF TimeInv, TimeKept
    <2>4. CASE page_y = 1 /\ page_x = 2 /\ time_set_page(page2_x, -way) /\ page_x' = page_x
      <3>1. Setting /\ Setting'
        BY <1>2, <2>1, <2>4 DEF Setting
      <3>2. late \/ wanted' = test_rtc_time'
        BY <2>1, <2>4, <3>1 DEF time_set_page, TimeKept
      <3> QED BY <1>2, <2>1, <3>1, <3>2 DEF TimeInv, TimeKept
    <2> QED BY <2>3, <2>4 DEF MenuStep, valueVars
  <1> QED BY <1>3, <1>5, <1>6, <1>7 DEF ScreenInv


\* A page is opened or left: a page of the menu is shown, or forms and picture
\* stay as they are.
LEMMA PageStep ==
  ASSUME ScreenType, FormInv, EnterPage \/ LeavePage, photo_selection' = photo_selection
  PROVE  forms' \in Seq(Shown) /\ forms' # <<>> /\ FormInv'
  <1>1. page_x \in 0..5
    BY DEF ScreenType
  <1>2. CASE \E id \in MenuPages : show_page(id)
    BY <1>2, PageComes DEF FormInv
  <1>3. CASE UNCHANGED <<forms, lcd>>
    <2>1. forms' \in Seq(Shown) /\ forms' # <<>>
      BY <1>3 DEF ScreenType
    <2> QED BY <1>3, <2>1, FormStays
  <1>4. (\E id \in MenuPages : show_page(id)) \/ UNCHANGED <<forms, lcd>>
    <2>1. CASE LeavePage /\ page_x # 2
      <3>1. show_page("PAGE_1") /\ "PAGE_1" \in MenuPages
        BY <2>1 DEF LeavePage, MenuPages
      <3> QED BY <3>1
    <2>2. CASE EnterPage /\ (page_x \in {0, 4, 5} \/ (page_x = 2 /\ init_flog = 0))
      <3>1. show_page(PageOf(page_x))
        BY <2>2 DEF EnterPage
      <3>2. PageOf(page_x) \in MenuPages
        BY <2>2 DEF PageOf, MenuPages
      <3> QED BY <3>1, <3>2
    <2>3. CASE EnterPage /\ ~(page_x \in {0, 4, 5} \/ (page_x = 2 /\ init_flog = 0))
      BY <2>3 DEF EnterPage
    <2>4. CASE LeavePage /\ page_x = 2
      BY <2>4 DEF LeavePage
    <2> QED BY <2>1, <2>2, <2>3, <2>4
  <1> QED BY <1>2, <1>3, <1>4

\* The page that is shown is the cursor's.
LEMMA PageOpens ==
  ASSUME ScreenType, page_x \in HasPage, show_page(PageOf(page_x)),
         page_x' = page_x, page_y' = 1, ~leaving',
         init_flog' = 1 <=> page_x \in {2, 3},
         page2_y' = 1 => page_x = 2,
         page2_x' > 3 => page_x = 2
  PROVE  MenuInv'
  <1>1. \A other : OnTop(other)' <=> other = PageOf(page_x)
    BY PageComes, PagesAre
  <1>2. \A x \in HasPage : OnTop(PageOf(x))' => x = page_x
    BY <1>1, PagesAre
  <1>3. OnTop(PageOf(page_x))'
    BY <1>1 DEF PageOf
  <1> QED BY <1>2, <1>3 DEF MenuInv, MenuInStep

LEMMA ConfirmStep ==
  ASSUME ScreenInv, Confirm
  PROVE  ScreenInv'
  <1>1. ScreenType /\ EffectInStep /\ FormInv /\ MenuInv /\ TimeInv
    BY DEF ScreenInv
  <1>2. /\ UNCHANGED <<photo_selection, get_photo_mode, kaleidoscope, compose, choice_piece>>
        /\ UNCHANGED <<page_x, rtc, ticking>> /\ ~leaving
    BY DEF Confirm, cameraVars
  <1>3. EffectInStep'
    BY <1>1, <1>2, EffectStays DEF EffectVars
  <1>4. EnterPage \/ LeavePage
    BY DEF Confirm
  <1>5. forms' \in Seq(Shown) /\ forms' # <<>> /\ FormInv'
    BY <1>1, <1>2, <1>4, PageStep
  <1>6. /\ page_x \in 0..5 /\ page_y \in 0..1 /\ page2_y \in 0..1 /\ init_flog \in 0..1
        /\ page2_x \in 0..5
    BY <1>1 DEF ScreenType
  <1>7. page_y' \in 0..1 /\ init_flog' \in 0..1 /\ page2_x' \in 0..5
    BY <1>4, <1>6 DEF EnterPage, LeavePage
  <1>8. page2_y' \in 0..1 /\ (page_x # 2 => page2_y' = page2_y)
        /\ (page_x = 2 /\ page2_x = 5 => page2_y' = 0)
        /\ (page_x = 2 /\ page2_x # 5 => page2_y' = (page2_y + init_flog) % 2)
    <2>1. (page2_y + init_flog) % 2 \in 0..1
      BY <1>6
    <2>2. page2_y' = CASE page_x # 2 -> page2_y
                       [] page_x = 2 /\ page2_x = 5 -> 0
                       [] OTHER -> (page2_y + init_flog) % 2
      BY DEF Confirm
    <2>3. CASE page_x # 2
      BY <1>6, <2>2, <2>3
    <2>4. CASE page_x = 2 /\ page2_x = 5
      BY <2>2, <2>4
    <2>5. CASE page_x = 2 /\ page2_x # 5
      BY <2>1, <2>2, <2>5
    <2> QED BY <2>3, <2>4, <2>5
  <1>9. /\ MenuInStep /\ (page2_x > 3 => page_x = 2 /\ page_y = 1)
        /\ init_flog = 1 <=> page_y = 1 /\ page_x \in {2, 3}
        /\ page2_y = 1 => page_x = 2 /\ page_y = 1
        /\ \A x \in HasPage : OnTop(PageOf(x)) => page_y = 1 /\ page_x = x
    BY <1>1, <1>2 DEF MenuInv, MenuInStep
  <1>10. MenuInv' /\ TimeInv'
    <2>1. CASE page_x = 2 /\ page2_x # 5 /\ init_flog = 0
      <3>1. EnterPage
        BY <2>1 DEF Confirm
      <3>2. /\ page_y' = 1 /\ init_flog' = 1 /\ page2_x' = page2_x /\ leaving' = leaving
            /\ show_page(PageOf(page_x))
            /\ test_rtc_time' = rtc /\ wanted' = rtc /\ late' = ticking
        BY <2>1, <3>1 DEF EnterPage
      <3>3. MenuInv'
        BY <1>1, <1>2, <2>1, <3>2, PageOpens DEF HasPage
      <3>4. TimeInv'
        <4>1. Setting'
          BY <1>2, <2>1, <3>2 DEF Setting
        <4> QED BY <1>2, <3>2, <4>1 DEF TimeInv, TimeKept
      <3> QED BY <3>3, <3>4
    <2>2. CASE page_x = 2 /\ page2_x # 5 /\ init_flog = 1
      <3>1. EnterPage
        BY <2>2 DEF Confirm
      <3>2. page_y = 1
        BY <1>9, <2>2
      <3>3. /\ UNCHANGED <<page_y, init_flog, page2_x, leaving, forms, home, late, wanted>>
            /\ test_rtc_time' = test_rtc_time
        BY <2>2, <3>1, <3>2 DEF EnterPage
      <3>4. \A id : OnTop(id)' <=> OnTop(id)
        BY <3>3 DEF OnTop
      <3>5. MenuInv'
        BY <1>1, <1>2, <2>2, <3>2, <3>3, <3>4 DEF MenuInv, MenuInStep
      <3>6. TimeInv'
        BY <1>1, <1>2, <3>3, TimeStays DEF TimeKeeps
      <3> QED BY <3>5, <3>6
    <2>3. CASE page_x = 2 /\ page2_x = 5
      <3>1. LeavePage
        BY <2>3 DEF Confirm
      <3>2. /\ page_y' = 0 /\ init_flog' = 0 /\ page2_y' = 0 /\ page2_x' = 0 /\ leaving'
            /\ UNCHANGED <<forms, home, test_rtc_time, wanted, late>>
        BY <1>8, <2>3, <3>1 DEF LeavePage
      <3>3. page_y = 1 /\ init_flog = 1
        BY <1>9, <2>3
      <3>4. MenuInv'
        <4>1. \A id : OnTop(id)' <=> OnTop(id)
          BY <3>2 DEF OnTop
        <4>2. \A x \in HasPage : OnTop(PageOf(x))' => x = 2
          BY <1>9, <2>3, <4>1
        <4> QED BY <3>2, <4>2 DEF MenuInv, MenuInStep
      <3>5. TimeInv'
        <4>1. Setting /\ Setting'
          BY <2>3, <3>2, <3>3 DEF Setting
        <4> QED BY <1>1, <1>2, <3>2, <4>1 DEF TimeInv, TimeKept
      <3> QED BY <3>4, <3>5
    <2>4. ASSUME page_x # 2, UNCHANGED <<test_rtc_time, wanted, late>>, ~leaving' PROVE TimeInv'
      <3>1. ~Setting /\ ~Setting'
        BY <1>2, <2>4 DEF Setting
      <3> QED BY <1>1, <1>2, <2>4, <3>1 DEF TimeInv, TimeKept
    <2>5. CASE page_x # 2 /\ page_y = 0
      <3>1. EnterPage
        BY <2>5 DEF Confirm
      <3>2. /\ page_y' = 1 /\ page2_y' = page2_y /\ page2_x' = page2_x /\ leaving' = leaving
            /\ init_flog' = IF page_x = 3 /\ init_flog = 0 THEN 1 ELSE init_flog
            /\ UNCHANGED <<test_rtc_time, wanted, late>>
        BY <1>8, <2>5, <3>1 DEF EnterPage
      <3>3. init_flog = 0 /\ page2_y = 0 /\ ~(page2_x > 3)
        BY <1>6, <1>9, <2>5
      <3>4. CASE page_x \in {0, 4, 5}
        <4>1. show_page(PageOf(page_x))
          BY <3>1, <3>4 DEF EnterPage
        <4>2. MenuInv'
          BY <1>1, <1>2, <3>2, <3>3, <3>4, <4>1, PageOpens DEF HasPage
        <4> QED BY <1>2, <2>4, <2>5, <3>2, <4>2
      <3>5. CASE page_x \in {1, 3}
        <4>1. UNCHANGED <<forms, home>>
          BY <3>1, <3>5 DEF EnterPage
        <4>2. \A id : OnTop(id)' <=> OnTop(id)
          BY <4>1 DEF OnTop
        <4>3. \A x \in HasPage : ~OnTop(PageOf(x))'
          BY <1>9, <2>5, <4>2
        <4>4. page_x' \notin HasPage
          BY <1>2, <3>5 DEF HasPage
        <4>5. MenuInv'
          BY <1>2, <3>2, <3>3, <3>5, <4>3, <4>4 DEF MenuInv, MenuInStep
        <4> QED BY <1>2, <2>4, <2>5, <3>2, <4>5
      <3> QED BY <1>6, <2>5, <3>4, <3>5
    <2>6. CASE page_x # 2 /\ page_y # 0
      <3>1. LeavePage
        BY <2>6 DEF Confirm
      <3>2. /\ page_y' = 0 /\ page2_y' = page2_y /\ page2_x' = page2_x /\ ~leaving'
            /\ init_flog' = IF page_x = 3 THEN 0 ELSE init_flog
            /\ UNCHANGED <<test_rtc_time, wanted, late>>
            /\ show_page("PAGE_1")
        BY <1>6, <1>8, <2>6, <3>1 DEF LeavePage
      <3>3. (page_x # 3 => init_flog = 0) /\ page2_y = 0 /\ ~(page2_x > 3)
        BY <1>6, <1>9, <2>6
      <3>4. MenuInv'
        BY <1>1, <1>2, <3>2, <3>3, MenuFirst
      <3> QED BY <2>4, <2>6, <3>2, <3>4
    <2> QED BY <1>6, <2>1, <2>2, <2>3, <2>5, <2>6
  <1>11. ScreenType'
    BY <1>1, <1>2, <1>5, <1>7, <1>8 DEF ScreenType
  <1> QED BY <1>3, <1>5, <1>10, <1>11 DEF ScreenInv

\* The clock gets the time that was set.
LEMMA WriteStep ==
  ASSUME ScreenInv, LeaveWrites
  PROVE  ScreenInv'
  <1>1. ScreenType /\ EffectInStep /\ FormInv /\ MenuInv /\ TimeInv
    BY DEF ScreenInv
  <1>2. /\ UNCHANGED <<photo_selection, get_photo_mode, kaleidoscope, compose, choice_piece>>
        /\ UNCHANGED <<page_x, page_y, page2_x, page2_y, init_flog>>
        /\ UNCHANGED <<test_rtc_time, ticking, wanted, late>>
        /\ leaving /\ ~leaving' /\ rtc' = test_rtc_time /\ show_page("PAGE_1")
    BY DEF LeaveWrites, cameraVars, cursorVars
  <1>3. EffectInStep'
    BY <1>1, <1>2, EffectStays DEF EffectVars
  <1>4. forms' \in Seq(Shown) /\ forms' # <<>> /\ FormInv'
    BY <1>1, <1>2, PageComes DEF FormInv, MenuPages
  <1>5. MenuInv'
    <2>1. /\ page_y = 0 /\ (page2_x > 3 => page_x = 2 /\ page_y = 1)
          /\ init_flog = 1 <=> page_y = 1 /\ page_x \in {2, 3}
          /\ page2_y = 1 => page_x = 2 /\ page_y = 1
      BY <1>1, <1>2 DEF MenuInv, MenuInStep
    <2> QED BY <1>1, <1>2, <2>1, MenuFirst
  <1>6. TimeInv'
    <2>1. Setting /\ (late \/ wanted = test_rtc_time) /\ (ticking => late)
      BY <1>1, <1>2 DEF TimeInv, TimeKept, Setting
    <2> QED BY <1>2, <2>1 DEF TimeInv, TimeKept
  <1>7. ScreenType'
    BY <1>1, <1>2, <1>4 DEF ScreenType
  <1> QED BY <1>3, <1>4, <1>5, <1>6, <1>7 DEF ScreenInv

\* K4, from whichever page.
LEMMA HomeStep ==
  ASSUME ScreenInv, MenuHome
  PROVE  ScreenInv'
  <1>1. ScreenType /\ EffectInStep /\ FormInv /\ MenuInv /\ TimeInv
    BY DEF ScreenInv
  <1>2. /\ UNCHANGED <<photo_selection, get_photo_mode, kaleidoscope, compose, choice_piece>>
        /\ UNCHANGED CursorKept /\ UNCHANGED TimeKeeps /\ home' /\ show_page("PAGE_1")
    BY DEF MenuHome, cameraVars, cursorVars, valueVars, timeVars, CursorKept, TimeKeeps
  <1>3. EffectInStep'
    BY <1>1, <1>2, EffectStays DEF EffectVars
  <1>4. forms' \in Seq(Shown) /\ forms' # <<>> /\ FormInv'
    BY <1>1, <1>2, PageComes DEF FormInv, MenuPages
  <1>5. MenuInv'
    <2>1. /\ leaving => page_y = 0
          /\ page2_x > 3 => page_x = 2 /\ page_y = 1
          /\ init_flog = 1 <=> page_y = 1 /\ page_x \in {2, 3}
          /\ page2_y = 1 => page_x = 2 /\ page_y = 1
      BY <1>1 DEF MenuInv, MenuInStep
    <2> QED BY <1>1, <1>2, <2>1, MenuFirst DEF CursorKept
  <1>6. TimeInv'
    BY <1>1, <1>2, TimeStays
  <1>7. ScreenType'
    BY <1>1, <1>2, <1>4 DEF ScreenType, CursorKept
  <1> QED BY <1>3, <1>4, <1>5, <1>6, <1>7 DEF ScreenInv

LEMMA ScreenRest ==
  ASSUME ScreenInv,
         Frame \/ SwitchMode \/ TickBegins \/ TickReads \/ UNCHANGED screenVars
  PROVE  ScreenInv'
  <1>1. ScreenType /\ EffectInStep /\ FormInv /\ MenuInv /\ TimeInv
    BY DEF ScreenInv
  <1>2. /\ UNCHANGED <<photo_selection, get_photo_mode, kaleidoscope, compose, choice_piece>>
        /\ UNCHANGED CursorKept /\ UNCHANGED <<forms, lcd, home, rtc, wanted>>
    BY DEF Frame, SwitchMode, TickBegins, TickReads, screenVars, cameraVars,
           cursorVars, valueVars, timeVars, CursorKept
  <1>3. EffectInStep' /\ MenuInv' /\ FormInv'
    BY <1>1, <1>2, EffectStays, MenuStays, FormStays DEF EffectVars
  <1>4. TimeInv'
    <2>1. Setting' <=> Setting
      BY <1>2 DEF Setting, CursorKept
    <2>2. TimeKept /\ (Setting /\ ticking => late)
      BY <1>1 DEF TimeInv
    <2>3. CASE TickBegins
      <3>1. late' = (late \/ leaving) /\ init_flog = 0 /\ test_rtc_time' = test_rtc_time
        BY <2>3 DEF TickBegins, valueVars
      <3>2. Setting => leaving
        BY <3>1 DEF Setting
      <3> QED BY <1>2, <2>1, <2>2, <3>1, <3>2 DEF TimeInv, TimeKept
    <2>4. CASE TickReads
      <3>1. ticking /\ ~ticking' /\ test_rtc_time' = rtc /\ late' = late
        BY <2>4 DEF TickReads
      <3> QED BY <1>2, <2>1, <2>2, <3>1 DEF TimeInv, TimeKept
    <2>5. CASE Frame \/ SwitchMode \/ UNCHANGED screenVars
      <3>1. UNCHANGED TimeKeeps
        BY <2>5 DEF Frame, SwitchMode, screenVars, cursorVars, valueVars, timeVars, TimeKeeps
      <3> QED BY <1>1, <3>1, TimeStays
    <2> QED BY <2>3, <2>4, <2>5
  <1>5. ScreenType'
    BY <1>1, <1>2 DEF ScreenType, CursorKept
  <1> QED BY <1>3, <1>4, <1>5 DEF ScreenInv

LEMMA ScreenStarts == ScreenInit => ScreenInv
  <1> SUFFICES ASSUME ScreenInit PROVE ScreenInv
    OBVIOUS
  <1>1. forms = <<"PAGE_0", "BASEFORM_1">> /\ forms \in Seq(Shown) /\ forms # <<>>
    BY DEF ScreenInit, Shown
  <1>2. ScreenType
    BY <1>1 DEF ScreenInit, ScreenType
  <1>3. EffectInStep
    BY DEF ScreenInit, EffectInStep
  <1>4. ShownAt(0) = {"BASEFORM_1"} /\ 0 \notin Kaleidoscopes
    BY FormsAre DEF ShownAt, Kaleidoscopes
  <1>5. CameraShown
    BY <1>1, <1>4 DEF ScreenInit, CameraShown
  <1>6. MenuInv
    <2>1. Last(forms) = "BASEFORM_1"
      BY <1>1 DEF Last
    <2>2. \A x \in HasPage : ~OnTop(PageOf(x))
      BY <2>1, PagesAre DEF OnTop, MenuPages
    <2> QED BY <2>2 DEF ScreenInit, MenuInv, MenuInStep
  <1>7. TimeInv
    BY DEF ScreenInit, TimeInv, TimeKept, Setting
  <1> QED BY <1>2, <1>3, <1>5, <1>6, <1>7 DEF ScreenInv, FormInv

LEMMA ScreenSays == ScreenInv => ScreenInStep
  <1> SUFFICES ASSUME ScreenInv PROVE FormInStep
    BY DEF ScreenInv, ScreenInStep, MenuInv
  <1>1. FormInv /\ photo_selection \in 0..15
    BY DEF ScreenInv, ScreenType
  <1>2. CASE PageShown
    <2>1. PICK k \in DOMAIN forms : forms[k] \in MenuPages
      BY <1>2 DEF PageShown
    <2>2. forms[k] \notin {"PAGE_0"} \cup {FormOf(sel) : sel \in 0..15}
      BY <2>1, FormsOfSelections DEF MenuPages
    <2> QED BY <2>2 DEF FormInStep
  <1>3. CASE CameraShown
    <2>1. FormOf(photo_selection) \in {"none", forms[2]}
      <3>1. CASE photo_selection \in Kaleidoscopes
        <4>1. FormOf(photo_selection) = "none"
          BY <3>1 DEF FormOf, Kaleidoscopes
        <4> QED BY <4>1
      <3>2. CASE photo_selection \notin Kaleidoscopes
        BY <1>3, <3>2 DEF CameraShown, ShownAt
      <3> QED BY <3>1, <3>2
    <2> QED BY <1>3, <2>1 DEF CameraShown, FormInStep
  <1> QED BY <1>1, <1>2, <1>3 DEF FormInv

LEMMA ScreenMoves == ScreenInv /\ [ScreenNext]_screenVars => ScreenInv'
  <1> SUFFICES ASSUME ScreenInv, [ScreenNext]_screenVars PROVE ScreenInv'
    OBVIOUS
  <1>1. CASE \E way \in {1, -1} : StepSelection(way) \/ MenuStep(way)
    BY <1>1, SelectionStep, MenuStepStep
  <1>2. CASE KeyPhoto
    BY <1>2, PhotoStep
  <1>3. CASE Confirm \/ LeaveWrites \/ MenuHome
    BY <1>3, ConfirmStep, WriteStep, HomeStep
  <1>4. CASE Frame \/ SwitchMode \/ TickBegins \/ TickReads \/ UNCHANGED screenVars
    BY <1>4, ScreenRest
  <1> QED BY <1>1, <1>2, <1>3, <1>4 DEF ScreenNext

\* Whichever way the keys are pressed, and whatever frame or second of the clock
\* comes between, the form on the screen, the picture mode, the effect, the photo
\* and the menu's cursor belong together, but for the page that K4 hides.
THEOREM ScreenTheorem == ScreenSpec => []ScreenInStep
  BY ScreenStarts, ScreenMoves, ScreenSays, PTL DEF ScreenSpec

\* The clock gets the time as the keys of ui_key_control set it, whatever its timer
\* does that had not begun to read before the page was opened and does not begin
\* while it is left.
THEOREM TimeTheorem == ScreenSpec => []TimeKept
  <1>1. ScreenInv => TimeKept
    BY DEF ScreenInv, TimeInv
  <1> QED BY <1>1, ScreenStarts, ScreenMoves, PTL DEF ScreenSpec

=============================================================================
