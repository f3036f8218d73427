------------------------------- MODULE FileProofs -------------------------------
(***************************************************************************)
(* Proofs about the two sides of a file's content: FileDescriptor, the     *)
(* write side, for any number of threads, any block size and any           *)
(* workload, and BufferCache, the read side, for any number of goroutines, *)
(* files, blocks and any capacity; and about ConfigFile, the configuration *)
(* file, for any programs, services, shares, values and files to start     *)
(* from, while the programs that write it come one at a time.              *)
(***************************************************************************)
EXTENDS BufferCache, FileDescriptor, ConfigFile, SequenceTheorems, FiniteSetTheorems, TLAPS

-----------------------------------------------------------------------------
(* FileDescriptor: the inductive invariant.                                *)

(* The size the descriptor records bounds what it has written.             *)
Sizes ==
  /\ Len(written) <= MaxSize /\ w.idx * BlockSize + Len(w.cur) <= MaxSize
  /\ "truncate" \notin Usage => w.idx * BlockSize + Len(w.cur) <= w.size
  /\ {"rewrite", "gap", "truncate"} \cap Usage = {} => w.size = Len(written)
(* The type invariant, with the shape of every record and function.        *)
BlockRec == [idx : 0..MaxSize, data : Block]
Shape ==
  /\ load \in Workloads /\ w \in [cur : Seq(Byte), idx : 0..MaxSize, size : 0..MaxSize]
  /\ Len(w.cur) < BlockSize
  /\ closed \in BOOLEAN /\ firstErr \in BOOLEAN /\ committed \in BOOLEAN /\ isNew \in BOOLEAN
  /\ touched \in BOOLEAN /\ faulty \in BOOLEAN
  /\ uploaded \in Nat /\ uploads \subseteq [n : 1..uploaded, idx : 0..MaxSize, data : Block]
  /\ tokens \subseteq Token /\ \A s, t \in tokens : s.idx = t.idx => s = t
  /\ place \in [Thread -> Place] /\ hadBlock \in [Thread -> BOOLEAN]
  /\ snap \in [Thread -> SUBSET Token] /\ revision \in Nat
  /\ \A t \in Thread : place[t] \in {"fupdate", "supdate"} =>
       Contiguous(snap[t]) /\ IsFiniteSet(snap[t])
  /\ active.state \in {"old", "draft", "active"}
  /\ \A i \in DOMAIN active.blocks : active.blocks[i] \in Block
  /\ written \in Seq(Byte) /\ writes \in 0..MaxWrites /\ flushes \in 0..MaxFlushes
  /\ result \in [Thread -> {"none", "ok", "err"}]

(* After Close no block comes to be buffered, and none is uploaded once it *)
(* has waited.                                                             *)
Drained ==
  /\ closed /\ (\A t \in Thread : place[t] # "close") => w.cur = <<>>
  /\ closed /\ (\A t \in Thread : place[t] \notin {"close", "fwait", "swait"}) => uploads = {}

(* How far an orderly writer has handed its blocks over.                   *)
Handed == IF w.cur = <<>> THEN Len(Blocks(written)) ELSE w.idx
OneCall ==
  /\ \A s, t \in Thread : place[s] # "idle" /\ place[t] # "idle" => s = t
  /\ flushes = 0 => /\ ~closed /\ ~committed
                    /\ \A t \in Thread : place[t] = "idle" /\ result[t] = "none"
(* The accumulator holds the bytes behind the last full block.             *)
Accumulates ==
  w.cur # <<>> \/ flushes = 0 =>
    w.idx = Len(written) \div BlockSize /\ w.cur = SubSeq(written, w.idx * BlockSize + 1, Len(written))
(* A block that was handed over has its part of what was written.          *)
Right(b) == b.idx < Handed /\ b.data = Blocks(written)[b.idx + 1]
AllRight == \A b \in uploads \cup tokens : Right(b)
(* Every block that was handed over is being uploaded or has its token,    *)
(* or all was committed and forgotten.                                     *)
Covered == \A i \in 0..(Handed - 1) : (\E u \in uploads : u.idx = i) \/ (\E s \in tokens : s.idx = i)
Spent ==
  /\ uploads = {} /\ tokens = {} /\ w.cur = <<>>
  /\ active = Expected /\ (committed \/ ~isNew)
Complete ==
  /\ ~firstErr => Covered \/ Spent
  /\ ~firstErr /\ flushes = 0 => Covered
Touching ==
  /\ isNew \/ written # <<>> => touched
  /\ touched => isNew \/ written # <<>>
  /\ ~touched => active = Old
  /\ committed => active = Expected
AtWait == {"fwait", "swait"}
Copying == {"fcopy", "scopy", "fupdate", "supdate"}
Saved == {"fdone", "screate", "sreset", "sclear"}
Waited == {"fread", "sread"} \cup Copying \cup Saved
PlaceOf(t) ==
  /\ place[t] \in AtWait \cup Waited => w.cur = <<>>
  /\ place[t] \in Waited => uploads = {}
  /\ place[t] \in Copying => ~firstErr /\ Covered /\ touched
  /\ place[t] \in {"fupdate", "supdate"} => snap[t] = tokens
  /\ place[t] \in Saved => active = Expected
  /\ place[t] \in {"swait", "sread", "scopy", "supdate", "screate", "sreset", "sclear"} => ~isNew
  /\ hadBlock[t] => /\ place[t] \notin {"idle", "close"} /\ touched
                    /\ ~firstErr => uploads # {} \/ tokens # {}
  /\ result[t] = "ok" => active = Expected
  /\ result[t] = "err" => faulty
Places == \A t \in Thread : PlaceOf(t)
OrderlyInv ==
  Orderly => /\ OneCall /\ Accumulates /\ AllRight /\ Complete /\ Touching /\ Places
             /\ (firstErr => faulty)
FdInv == Shape /\ Sizes /\ Drained /\ OrderlyInv

-----------------------------------------------------------------------------
(* The arithmetic of blocks.                                               *)
Pos(i) == i * BlockSize

LEMMA Size == BlockSize \in Nat /\ BlockSize >= 1
BY SizeAssumption

LEMMA Places0 ==
  ASSUME NEW i \in Nat
  PROVE  Pos(i) \in Nat /\ Pos(i + 1) = Pos(i) + BlockSize /\ i <= Pos(i) /\ Pos(0) = 0
BY Size DEF Pos

LEMMA PosSum ==
  ASSUME NEW i \in Nat, NEW j \in Nat
  PROVE  Pos(i + j) = Pos(i) + Pos(j)
BY Size DEF Pos

LEMMA Monotone ==
  ASSUME NEW i \in Nat, NEW j \in Nat, i < j
  PROVE  Pos(i) + BlockSize <= Pos(j)
<1>1. j - (i + 1) \in Nat /\ j = (i + 1) + (j - (i + 1))
  OBVIOUS
<1>2. ASSUME NEW k \in Nat PROVE Pos((i + 1) + k) >= Pos(i) + BlockSize
  <2>1. i + 1 \in Nat /\ Pos((i + 1) + k) = Pos(i + 1) + Pos(k)
    BY PosSum
  <2> QED BY <2>1, Size, Places0
<1> QED BY <1>1, <1>2

LEMMA Divide ==
  ASSUME NEW n \in Nat
  PROVE  /\ n \div BlockSize \in Nat /\ n % BlockSize \in 0..(BlockSize - 1)
         /\ n = Pos(n \div BlockSize) + (n % BlockSize)
BY Size DEF Pos

LEMMA Quotient ==
  ASSUME NEW q \in Nat, NEW r \in 0..(BlockSize - 1)
  PROVE  (Pos(q) + r) \div BlockSize = q
BY Size, Divide DEF Pos

-----------------------------------------------------------------------------
(* Sequences of bytes.                                                     *)
LEMMA FunSeq ==
  ASSUME NEW S, NEW n \in Nat, NEW f \in [1..n -> S]
  PROVE  f \in Seq(S) /\ Len(f) = n /\ DOMAIN f = 1..n
OBVIOUS

LEMMA Part ==
  ASSUME NEW S, NEW s \in Seq(S), NEW a \in Nat, NEW b \in 0..Len(s)
  PROVE  /\ SubSeq(s, a + 1, b) \in Seq(S)
         /\ Len(SubSeq(s, a + 1, b)) = IF a <= b THEN b - a ELSE 0
         /\ \A i \in 1..(b - a) : SubSeq(s, a + 1, b)[i] = s[a + i]
<1>1. \A i \in (a + 1)..b : s[i] \in S
  OBVIOUS
<1> QED BY <1>1, SubSeqProperties

LEMMA Loads ==
  ASSUME Shape
  PROVE  MaxSize \in Nat /\ MaxWrites \in Nat /\ MaxFlushes \in Nat /\ 0 \in Byte /\ Usage \subseteq Uses
BY WorkloadAssumption DEF Shape, MaxSize, MaxWrites, MaxFlushes, Byte, Usage

(* p is data overwritten, or extended, from off on by n bytes v.           *)
Overlaid(p, data, off, n, v) ==
  /\ p \in Seq(Byte) /\ Len(p) = IF off + n > Len(data) THEN off + n ELSE Len(data)
  /\ \A i \in 1..Len(p) :
       p[i] = IF i > off /\ i <= off + n THEN v ELSE IF i <= Len(data) THEN data[i] ELSE 0
LEMMA OverlayIs ==
  ASSUME Shape, NEW data \in Seq(Byte), NEW off \in Nat, NEW n \in Nat, NEW v \in Byte
  PROVE  Overlaid(Overlay(data, off, n, v), data, off, n, v)
<1> DEFINE top == IF off + n > Len(data) THEN off + n ELSE Len(data)
<1> DEFINE e(i) == IF i > off /\ i <= off + n THEN v ELSE IF i <= Len(data) THEN data[i] ELSE 0
<1>1. top \in Nat /\ \A i \in 1..top : e(i) \in Byte
  BY Loads
<1>2. [i \in 1..top |-> e(i)] \in [1..top -> Byte]
  BY <1>1
<1>3. Overlay(data, off, n, v) = [i \in 1..top |-> e(i)]
  BY DEF Overlay
<1> HIDE DEF top, e
<1>4. /\ Overlay(data, off, n, v) \in Seq(Byte) /\ Len(Overlay(data, off, n, v)) = top
      /\ \A i \in 1..top : Overlay(data, off, n, v)[i] = e(i)
  BY <1>1, <1>2, <1>3, FunSeq
<1> DEFINE p == Overlay(data, off, n, v)
<1>5. p \in Seq(Byte) /\ Len(p) = top /\ \A i \in 1..top : p[i] = e(i)
  BY <1>4
<1> HIDE DEF p
<1>6. Overlaid(p, data, off, n, v)
  BY <1>5 DEF Overlaid, top, e
<1> QED BY <1>6 DEF p

LEMMA BlockIs ==
  ASSUME NEW s \in Seq(Byte), Len(s) <= BlockSize
  PROVE  s \in Block
<1>1. s \in [1..Len(s) -> Byte] /\ Len(s) \in 0..BlockSize
  BY Size
<1> QED BY <1>1 DEF Block

-----------------------------------------------------------------------------
(* What a write leaves in the accumulator and what it flushes.             *)
Data(first, at, n, v) == Overlay(Base(first), at, n, v)
FullIn(D) == Len(D) \div BlockSize
Piece(D, i) == SubSeq(D, Pos(i - 1) + 1, Pos(i))
Pieces(first, D) == [i \in 1..FullIn(D) |-> [idx |-> first + i - 1, data |-> Piece(D, i)]]
Rest(D) == SubSeq(D, Pos(FullIn(D)) + 1, Len(D))

LEMMA CutData ==
  ASSUME Shape, NEW first \in Nat, NEW at \in 0..(BlockSize - 1), NEW n \in Nat, n >= 1,
         NEW v \in Byte
  PROVE  LET D == Data(first, at, n, v)
         IN /\ D \in Seq(Byte)
            /\ Len(D) = IF at + n > Len(Base(first)) THEN at + n ELSE Len(Base(first))
<1>1. Base(first) \in Seq(Byte) /\ at \in Nat
  BY Size DEF Shape, Base
<1> DEFINE D == Data(first, at, n, v)
<1>2. Overlaid(D, Base(first), at, n, v)
  BY <1>1, OverlayIs DEF Data
<1> HIDE DEF D
<1>3. D \in Seq(Byte) /\ Len(D) = IF at + n > Len(Base(first)) THEN at + n ELSE Len(Base(first))
  BY <1>2 DEF Overlaid
<1> QED BY <1>3 DEF D

LEMMA Cut ==
  ASSUME NEW D \in Seq(Byte)
  PROVE  /\ FullIn(D) \in Nat /\ Pos(FullIn(D)) \in Nat
         /\ Pos(FullIn(D)) <= Len(D) /\ Len(D) < Pos(FullIn(D)) + BlockSize
         /\ Rest(D) \in Seq(Byte) /\ Len(Rest(D)) = Len(D) - Pos(FullIn(D))
         /\ \A i \in 1..FullIn(D) : /\ Piece(D, i) \in Block /\ Pos(i) <= Len(D)
                                    /\ Pos(i - 1) \in Nat /\ Pos(i) = Pos(i - 1) + BlockSize
<1> DEFINE F == FullIn(D)
<1>3. F \in Nat /\ Pos(F) \in Nat /\ Pos(F) <= Len(D) /\ Len(D) < Pos(F) + BlockSize
  <2>2. F \in Nat /\ Len(D) % BlockSize \in 0..(BlockSize - 1) /\ Len(D) = Pos(F) + (Len(D) % BlockSize)
    <3>1. Len(D) \in Nat
      OBVIOUS
    <3> QED BY <3>1, Divide DEF FullIn
  <2> HIDE DEF F
  <2>3. Pos(F) \in Nat
    BY <2>2, Places0
  <2> QED BY <2>2, <2>3, Size
<1> HIDE DEF F
<1>5. ASSUME NEW i \in 1..F
      PROVE  /\ Piece(D, i) \in Block /\ Pos(i) <= Len(D)
             /\ Pos(i - 1) \in Nat /\ Pos(i) = Pos(i - 1) + BlockSize
  <2>1. /\ i - 1 \in Nat /\ i \in Nat /\ (i - 1) + 1 = i /\ Pos(i - 1) \in Nat
        /\ Pos(i) = Pos(i - 1) + BlockSize
    <3>1. i - 1 \in Nat /\ i \in Nat /\ (i - 1) + 1 = i
      BY <1>3
    <3> QED BY <3>1, Places0
  <2>2. Pos(i) <= Pos(F)
    BY <1>3, <2>1, Monotone, Size
  <2>3. Pos(i) \in 0..Len(D) /\ Pos(i - 1) <= Pos(i) /\ Pos(i) - Pos(i - 1) = BlockSize
    BY <1>3, <2>1, <2>2, Size
  <2>4. Piece(D, i) \in Seq(Byte) /\ Len(Piece(D, i)) <= BlockSize
    BY <2>1, <2>3, Size, Part DEF Piece
  <2>5. Piece(D, i) \in Block
    BY <2>4, BlockIs
  <2> QED BY <2>1, <2>3, <2>5
<1>6. Rest(D) \in Seq(Byte) /\ Len(Rest(D)) = Len(D) - Pos(F)
  <2>1. Len(D) \in 0..Len(D)
    OBVIOUS
  <2> QED BY <1>3, <2>1, Part DEF Rest, F
<1> QED BY <1>3, <1>5, <1>6 DEF F

LEMMA AccumulatedIs ==
  ASSUME NEW first \in Nat, NEW at, NEW n, NEW v, NEW size, Data(first, at, n, v) \in Seq(Byte)
  PROVE  /\ Accumulated(first, at, n, v, size).w =
              [cur |-> Rest(Data(first, at, n, v)), idx |-> first + FullIn(Data(first, at, n, v)),
               size |-> size]
         /\ Accumulated(first, at, n, v, size).out =
              Left(first) \o Pieces(first, Data(first, at, n, v))
<1> DEFINE D == Data(first, at, n, v)
           a == Accumulated(first, at, n, v, size)
<1>1. FullIn(D) \in Nat
  BY Cut
<1>2. /\ a.w = [cur |-> Rest(D), idx |-> first + FullIn(D), size |-> size]
      /\ a.out = Left(first) \o [i \in 1..FullIn(D) |-> [idx |-> first + (i - 1), data |-> Piece(D, i)]]
  BY DEF Accumulated, IndexAfter, Pos, Rest, FullIn, Piece, Data
<1>3. [i \in 1..FullIn(D) |-> [idx |-> first + (i - 1), data |-> Piece(D, i)]] = Pieces(first, D)
  <2>1. \A i \in 1..FullIn(D) : first + (i - 1) = first + i - 1
    BY <1>1
  <2> QED BY <2>1 DEF Pieces
<1> QED BY <1>2, <1>3

LEMMA Remainder ==
  ASSUME Shape
  PROVE  FlushCur \in Seq(BlockRec) /\ Len(FlushCur) \in {0, 1}
         /\ (w.cur = <<>> => FlushCur = <<>>)
         /\ (w.cur # <<>> => Len(FlushCur) = 1 /\ FlushCur[1] = [idx |-> w.idx, data |-> w.cur])
<1>1. w.cur \in Block
  <2>1. w.cur \in Seq(Byte) /\ Len(w.cur) <= BlockSize
    BY Size DEF Shape
  <2> QED BY <2>1, BlockIs
<1>2. [idx |-> w.idx, data |-> w.cur] \in BlockRec
  BY <1>1 DEF Shape, BlockRec
<1> DEFINE b == [idx |-> w.idx, data |-> w.cur]
<1> HIDE DEF b
<1>3. <<b>> \in Seq(BlockRec) /\ Len(<<b>>) = 1 /\ <<b>>[1] = b
  BY <1>2 DEF b
<1> QED BY <1>3 DEF FlushCur, b

(* A write by its effect. first and at is where its bytes go in the blocks,*)
(* off where they go in the file.                                          *)
Wrote(first, at, off, n, size) ==
  /\ w' = Accumulated(first, at, n, writes + 1, size).w
  /\ Spawn(Accumulated(first, at, n, writes + 1, size).out)
  /\ written' = Overlay(written, off, n, writes + 1) /\ touched' = TRUE
  /\ MayWrite /\ ~closed
  /\ UNCHANGED <<load, closed, tokens, firstErr, committed, revision, isNew, threadVars, active,
                 flushes, goal, result, faulty>>
Fits(first, at, off, n, size) ==
  /\ first \in Nat /\ at \in 0..(BlockSize - 1) /\ off \in Nat /\ n \in Nat /\ n >= 1
  /\ writes + 1 \in Byte
  /\ size \in 0..MaxSize /\ off + n <= MaxSize /\ Pos(first) + at + n <= MaxSize
  /\ "truncate" \notin Usage => Pos(first) + at + n <= size /\ w.size <= size
  /\ {"rewrite", "gap", "truncate"} \cap Usage = {} => off = Len(written) /\ size = off + n
  /\ Orderly /\ Accumulates /\ flushes = 0 => first = w.idx /\ at = Len(w.cur) /\ off = Len(written)

Writing(t) == \E n \in 1..MaxSize : Write(t, n) \/ \E off \in 0..MaxSize : WriteAt(t, off, n)
LEMMA WritesFit ==
  ASSUME Shape, Sizes, NEW t \in Thread, Writing(t), load' = load
  PROVE  \E first, at, off, n, size : Wrote(first, at, off, n, size) /\ Fits(first, at, off, n, size)
<1>1. /\ MaxSize \in Nat /\ MaxWrites \in Nat /\ w.idx \in Nat /\ w.size \in 0..MaxSize
      /\ Len(w.cur) \in 0..(BlockSize - 1) /\ Len(written) \in Nat /\ writes \in Nat
  BY Loads, Size DEF Shape
<1>2. PICK n \in 1..MaxSize : Write(t, n) \/ \E off \in 0..MaxSize : WriteAt(t, off, n)
  BY DEF Writing
<1>3. writes + 1 \in Byte
  BY <1>1, <1>2 DEF Write, WriteAt, MayWrite, Byte
<1>4. CASE Write(t, n)
  <2>1. Wrote(w.idx, Len(w.cur), Len(written), n, w.size + n)
    BY <1>4 DEF Write, Wrote, Written
  <2>2. Pos(w.idx) + Len(w.cur) <= w.size /\ w.size = Len(written) /\ w.size + n <= MaxSize
    BY <1>4 DEF Write, Sizes, Pos
  <2>3. Pos(w.idx) \in Nat
    BY <1>1, Places0
  <2>4. Fits(w.idx, Len(w.cur), Len(written), n, w.size + n)
    BY <1>1, <1>2, <1>3, <2>2, <2>3 DEF Fits
  <2> QED BY <2>1, <2>4
<1>5. CASE \E off \in 0..MaxSize : WriteAt(t, off, n)
  <2>1. PICK off \in 0..MaxSize : WriteAt(t, off, n)
    BY <1>5
  <2> DEFINE size == IF off + n > w.size THEN off + n ELSE w.size
             first == off \div BlockSize
             at == off % BlockSize
  <2>2. Wrote(first, at, off, n, size)
    BY <2>1 DEF WriteAt, Wrote, WrittenAt
  <2>3. first \in Nat /\ at \in 0..(BlockSize - 1) /\ off = Pos(first) + at /\ Pos(first) \in Nat
    <3>1. off \in Nat
      BY <1>1
    <3>2. first \in Nat /\ at \in 0..(BlockSize - 1) /\ off = Pos(first) + at
      BY <3>1, Divide
    <3> QED BY <3>2, Places0
  <2>4. off + n <= MaxSize /\ OffsetAllowed(off)
    BY <2>1 DEF WriteAt
  <2>5. {"rewrite", "gap", "truncate"} \cap Usage = {} => off = Len(written) /\ size = off + n
    BY <1>1, <1>2, <2>4 DEF OffsetAllowed, Sizes
  <2>6. Orderly /\ Accumulates /\ flushes = 0 => first = w.idx /\ at = Len(w.cur) /\ off = Len(written)
    <3> SUFFICES ASSUME Orderly, Accumulates, flushes = 0
                 PROVE  first = w.idx /\ at = Len(w.cur) /\ off = Len(written)
      OBVIOUS
    <3>1. off = Len(written)
      BY <1>1, <2>4 DEF OffsetAllowed, Orderly
    <3>2. w.idx = first /\ w.cur = SubSeq(written, Pos(first) + 1, Len(written))
      BY <3>1 DEF Accumulates, Pos
    <3>3. Len(written) \in 0..Len(written) /\ written \in Seq(Byte)
      BY <1>1 DEF Shape
    <3> HIDE DEF first, at
    <3>4. Len(SubSeq(written, Pos(first) + 1, Len(written))) = Len(written) - Pos(first)
      BY <2>3, <3>1, <3>3, Part, Size
    <3> QED BY <2>3, <3>1, <3>2, <3>4, Size
  <2> HIDE DEF first, at
  <2>7. Fits(first, at, off, n, size)
    <3>1. off \in Nat /\ n \in Nat /\ n >= 1 /\ size \in 0..MaxSize
      BY <1>1, <1>2, <2>4 DEF size
    <3>2. Pos(first) + at + n = off + n
      BY <2>3, <3>1
    <3>3. off + n <= size /\ w.size <= size
      BY <1>1, <3>1 DEF size
    <3> HIDE DEF size
    <3> QED BY <1>3, <2>3, <2>4, <2>5, <2>6, <3>1, <3>2, <3>3 DEF Fits
  <2> QED BY <2>2, <2>7
<1> QED BY <1>2, <1>4, <1>5

(* The blocks a write flushes: the one that was left, and the full ones.   *)
LEMMA Flushed ==
  ASSUME Shape, Sizes, NEW first, NEW at, NEW off, NEW n, NEW size,
         Fits(first, at, off, n, size)
  PROVE  LET a == Accumulated(first, at, n, writes + 1, size)
             D == Data(first, at, n, writes + 1)
         IN /\ D \in Seq(Byte)
            /\ a.out \in Seq(BlockRec) /\ a.out = Left(first) \o Pieces(first, D)
            /\ Pieces(first, D) \in Seq(BlockRec) /\ Len(Pieces(first, D)) = FullIn(D)
            /\ a.w \in [cur : Seq(Byte), idx : 0..MaxSize, size : 0..MaxSize]
            /\ a.w.cur = Rest(D) /\ a.w.idx = first + FullIn(D) /\ a.w.size = size
            /\ Len(a.w.cur) < BlockSize
            /\ Pos(a.w.idx) + Len(a.w.cur) = Pos(first) + Len(D) /\ Pos(first) + Len(D) <= MaxSize
            /\ Len(D) = IF at + n > Len(Base(first)) THEN at + n ELSE Len(Base(first))
<1> DEFINE a == Accumulated(first, at, n, writes + 1, size)
           D == Data(first, at, n, writes + 1)
           F == FullIn(D)
<1>1. /\ first \in Nat /\ at \in 0..(BlockSize - 1) /\ n \in Nat /\ n >= 1 /\ writes + 1 \in Byte
      /\ size \in 0..MaxSize /\ MaxSize \in Nat /\ Pos(first) + at + n <= MaxSize
      /\ Pos(first) \in Nat
  BY Loads, Places0 DEF Fits
<1>2. /\ D \in Seq(Byte)
      /\ Len(D) = IF at + n > Len(Base(first)) THEN at + n ELSE Len(Base(first))
  BY <1>1, CutData
<1>3. /\ a.w = [cur |-> Rest(D), idx |-> first + F, size |-> size]
      /\ a.out = Left(first) \o Pieces(first, D)
  <2>1. D \in Seq(Byte) /\ first \in Nat
    BY <1>1, <1>2
  <2> QED BY <2>1, AccumulatedIs
<1> HIDE DEF a, D
<1>4. /\ F \in Nat /\ Pos(F) \in Nat /\ Pos(F) <= Len(D) /\ Len(D) < Pos(F) + BlockSize
      /\ Rest(D) \in Seq(Byte) /\ Len(Rest(D)) = Len(D) - Pos(F)
      /\ \A i \in 1..F : Piece(D, i) \in Block
  BY <1>2, Cut
<1>w. a.w.cur = Rest(D) /\ a.w.idx = first + F /\ a.w.size = size
  BY <1>3
<1>5. Pos(first) + Len(D) <= MaxSize
  <2>1. Len(Base(first)) \in Nat /\ (first = w.idx => Base(first) = w.cur) /\ (first # w.idx => Base(first) = <<>>)
    BY DEF Base, Shape
  <2>2. Pos(w.idx) + Len(w.cur) <= MaxSize
    BY DEF Sizes, Pos
  <2> QED BY <1>1, <1>2, <2>1, <2>2, Size
<1> HIDE DEF F
<1>6. Pos(first + F) = Pos(first) + Pos(F) /\ first + F <= Pos(first + F) /\ first + F \in Nat
  <2>1. first + F \in Nat
    BY <1>1, <1>4
  <2>2. Pos(first + F) = Pos(first) + Pos(F)
    BY <1>1, <1>4, PosSum
  <2>3. first + F <= Pos(first + F)
    BY <2>1, Places0
  <2> QED BY <2>1, <2>2, <2>3
<1>l. Len(D) \in Nat
  BY <1>2
<1>7. first + F \in 0..MaxSize
  <2>1. Pos(first + F) <= MaxSize
    <3>1. Pos(F) <= Len(D) /\ Pos(F) \in Nat /\ Pos(first) \in Nat /\ MaxSize \in Nat
      BY <1>1, <1>4
    <3> QED BY <1>5, <1>6, <1>l, <3>1
  <2>2. Pos(first + F) \in Nat
    BY <1>6, Places0
  <2>3. MaxSize \in Nat
    BY <1>1
  <2> QED BY <1>6, <2>1, <2>2, <2>3
<1>8. Pieces(first, D) \in Seq(BlockRec) /\ Len(Pieces(first, D)) = F
  <2>1. \A i \in 1..F : first + i - 1 \in 0..MaxSize
    BY <1>1, <1>4, <1>7
  <2>2. Pieces(first, D) \in [1..F -> BlockRec]
    BY <1>4, <2>1 DEF BlockRec, Pieces, F
  <2> QED BY <1>4, <2>2, FunSeq
<1>9. Left(first) \in Seq(BlockRec)
  BY Remainder DEF Left
<1>10. a.out \in Seq(BlockRec)
  BY <1>3, <1>8, <1>9, ConcatProperties
<1>11. a.w \in [cur : Seq(Byte), idx : 0..MaxSize, size : 0..MaxSize]
  BY <1>1, <1>3, <1>4, <1>7
<1>12. Len(a.w.cur) < BlockSize /\ Pos(a.w.idx) + Len(a.w.cur) = Pos(first) + Len(D)
  <2>1. /\ Len(Rest(D)) = Len(D) - Pos(F) /\ Len(D) < Pos(F) + BlockSize /\ Pos(F) \in Nat
        /\ Pos(first) \in Nat /\ BlockSize \in Nat /\ Pos(first + F) = Pos(first) + Pos(F)
    BY <1>1, <1>4, <1>6, Size
  <2>2. Len(Rest(D)) < BlockSize /\ Pos(first + F) + Len(Rest(D)) = Pos(first) + Len(D)
    BY <1>l, <2>1
  <2> QED BY <1>w, <2>2
<1> QED BY <1>2, <1>3, <1>5, <1>8, <1>10, <1>11, <1>12, <1>w DEF a, D, F

LEMMA Spawned ==
  ASSUME Shape, NEW out \in Seq(BlockRec), Spawn(out)
  PROVE  /\ uploaded' \in Nat /\ uploaded <= uploaded'
         /\ uploads' \subseteq [n : 1..uploaded', idx : 0..MaxSize, data : Block]
         /\ uploads \subseteq uploads'
         /\ \A i \in 1..Len(out) : \E u \in uploads' : u.idx = out[i].idx /\ u.data = out[i].data
         /\ \A u \in uploads' \ uploads : \E i \in 1..Len(out) : u.idx = out[i].idx /\ u.data = out[i].data
<1>1. Len(out) \in Nat /\ DOMAIN out = 1..Len(out) /\ \A i \in 1..Len(out) : out[i] \in BlockRec
  OBVIOUS
<1>2. uploaded' = uploaded + Len(out) /\ uploaded \in Nat
  BY DEF Spawn, Shape
<1>3. uploads' = uploads \cup {[n |-> uploaded + i, idx |-> out[i].idx, data |-> out[i].data]
                                 : i \in 1..Len(out)}
  BY <1>1 DEF Spawn
<1>4. \A i \in 1..Len(out) : [n |-> uploaded + i, idx |-> out[i].idx, data |-> out[i].data]
                              \in [n : 1..uploaded', idx : 0..MaxSize, data : Block]
  BY <1>1, <1>2 DEF BlockRec
<1>5. uploads \subseteq [n : 1..uploaded', idx : 0..MaxSize, data : Block]
  BY <1>1, <1>2 DEF Shape
<1>6. uploads' \subseteq [n : 1..uploaded', idx : 0..MaxSize, data : Block]
  BY <1>3, <1>4, <1>5
<1>7. ASSUME NEW i \in 1..Len(out)
      PROVE  \E u \in uploads' : u.idx = out[i].idx /\ u.data = out[i].data
  <2>1. [n |-> uploaded + i, idx |-> out[i].idx, data |-> out[i].data] \in uploads'
    BY <1>3
  <2> QED BY <2>1
<1>8. \A u \in uploads' \ uploads : \E i \in 1..Len(out) : u.idx = out[i].idx /\ u.data = out[i].data
  BY <1>3
<1> QED BY <1>1, <1>2, <1>3, <1>6, <1>7, <1>8

-----------------------------------------------------------------------------
(* Types and sizes, action by action.                                      *)
LEMMA Same ==
  ASSUME load' = load
  PROVE  /\ Usage' = Usage /\ MaxSize' = MaxSize /\ MaxWrites' = MaxWrites /\ MaxFlushes' = MaxFlushes
         /\ Byte' = Byte /\ Block' = Block /\ Token' = Token /\ (Orderly' <=> Orderly)
<1>1. Usage' = Usage /\ MaxSize' = MaxSize /\ MaxWrites' = MaxWrites /\ MaxFlushes' = MaxFlushes
  BY DEF Usage, MaxSize, MaxWrites, MaxFlushes
<1>2. Byte' = Byte
  BY <1>1 DEF Byte
<1>3. Block' = Block
  BY <1>2 DEF Block
<1> QED BY <1>1, <1>2, <1>3 DEF Token, Orderly

LEMMA WriteTypes ==
  ASSUME Shape, Sizes, NEW t \in Thread, Writing(t), load' = load
  PROVE  Shape' /\ Sizes'
<1>1. PICK first, at, off, n, size : Wrote(first, at, off, n, size) /\ Fits(first, at, off, n, size)
  BY WritesFit
<1> DEFINE a == Accumulated(first, at, n, writes + 1, size)
           D == Data(first, at, n, writes + 1)
<1>2. /\ a.out \in Seq(BlockRec)
      /\ a.w \in [cur : Seq(Byte), idx : 0..MaxSize, size : 0..MaxSize]
      /\ a.w.size = size /\ Len(a.w.cur) < BlockSize
      /\ Pos(a.w.idx) + Len(a.w.cur) = Pos(first) + Len(D) /\ Pos(first) + Len(D) <= MaxSize
      /\ Len(D) = IF at + n > Len(Base(first)) THEN at + n ELSE Len(Base(first))
  BY <1>1, Flushed
<1>3. /\ w' = a.w /\ Spawn(a.out) /\ written' = Overlay(written, off, n, writes + 1) /\ touched' = TRUE
      /\ writes < MaxWrites /\ writes' = writes + 1
      /\ UNCHANGED <<closed, tokens, firstErr, committed, revision, isNew, place, hadBlock, snap,
                     active, flushes, result, faulty>>
  BY <1>1 DEF Wrote, MayWrite, threadVars
<1> HIDE DEF a, D
<1>4. /\ uploaded' \in Nat
      /\ uploads' \subseteq [n : 1..uploaded', idx : 0..MaxSize, data : Block]
  BY <1>2, <1>3, Spawned
<1>5. /\ off \in Nat /\ n \in Nat /\ writes + 1 \in Byte /\ written \in Seq(Byte)
      /\ size \in Nat /\ Len(written) <= MaxSize /\ MaxSize \in Nat /\ MaxWrites \in Nat
      /\ at \in Nat /\ off + n <= MaxSize /\ Pos(first) \in Nat
  <2>1. /\ off \in Nat /\ n \in Nat /\ writes + 1 \in Byte /\ size \in 0..MaxSize
        /\ off + n <= MaxSize /\ first \in Nat /\ at \in 0..(BlockSize - 1)
    BY <1>1 DEF Fits
  <2>2. Pos(first) \in Nat /\ at \in Nat
    BY <2>1, Size, Places0
  <2>3. written \in Seq(Byte) /\ Len(written) <= MaxSize
    BY DEF Shape, Sizes
  <2> QED BY <2>1, <2>2, <2>3, Loads
<1>6. /\ written' \in Seq(Byte)
      /\ Len(written') = IF off + n > Len(written) THEN off + n ELSE Len(written)
  <2>1. Overlaid(written', written, off, n, writes + 1)
    BY <1>3, <1>5, OverlayIs
  <2> QED BY <2>1 DEF Overlaid
<1>7. Shape'
  <2>1. w' \in [cur : Seq(Byte), idx : 0..MaxSize, size : 0..MaxSize] /\ Len(w'.cur) < BlockSize
    BY <1>2, <1>3
  <2>2. writes' \in 0..MaxWrites
    BY <1>3, <1>5 DEF Shape
  <2>3. \A s \in Thread : place'[s] \in {"fupdate", "supdate"} =>
          Contiguous(snap'[s]) /\ IsFiniteSet(snap'[s])
    BY <1>3 DEF Shape
  <2> QED BY <1>3, <1>4, <1>6, <2>1, <2>2, <2>3, Same DEF Shape, Contiguous
<1>8. Sizes'
  <2>1. Len(written') <= MaxSize
    BY <1>5, <1>6
  <2>2. Len(Base(first)) \in Nat /\ (first = w.idx => Base(first) = w.cur) /\ (first # w.idx => Base(first) = <<>>)
    BY DEF Base, Shape
  <2>3. "truncate" \notin Usage => Pos(first) + Len(D) <= size
    <3> SUFFICES ASSUME "truncate" \notin Usage PROVE Pos(first) + Len(D) <= size
      OBVIOUS
    <3>1. /\ Pos(first) + at + n <= size /\ w.size <= size /\ Pos(w.idx) + Len(w.cur) <= w.size
      BY <1>1 DEF Fits, Sizes, Pos
    <3>2. w.size \in Nat /\ Pos(w.idx) \in Nat
      <4>1. w.idx \in Nat /\ w.size \in Nat
        BY Loads DEF Shape
      <4> QED BY <4>1, Places0
    <3>3. Len(D) \in Nat
      BY <1>2, <1>5, <2>2
    <3>4. CASE at + n > Len(Base(first))
      BY <1>2, <1>5, <3>1, <3>4
    <3>5. CASE ~(at + n > Len(Base(first)))
      <4>1. Len(D) = Len(Base(first))
        BY <1>2, <3>5
      <4>2. CASE first = w.idx
        <5>1. Pos(first) = Pos(w.idx) /\ Len(D) = Len(w.cur)
          BY <2>2, <4>1, <4>2
        <5>2. Pos(w.idx) + Len(w.cur) <= w.size /\ w.size <= size /\ Len(w.cur) \in Nat /\ size \in Nat
          BY <1>5, <3>1, <3>3, <5>1
        <5> QED BY <3>2, <5>1, <5>2
      <4>3. CASE first # w.idx
        BY <1>5, <2>2, <3>1, <4>1, <4>3
      <4> QED BY <4>2, <4>3
    <3> QED BY <3>4, <3>5
  <2>4. {"rewrite", "gap", "truncate"} \cap Usage = {} => size = Len(written')
    BY <1>1, <1>5, <1>6 DEF Fits
  <2> QED BY <1>2, <1>3, <2>1, <2>3, <2>4, Same DEF Sizes, Pos
<1> QED BY <1>7, <1>8

LEMMA TruncateTypes ==
  ASSUME Shape, Sizes, NEW t \in Thread, NEW size \in 0..MaxSize, Truncate(t, size), load' = load
  PROVE  Shape' /\ Sizes'
<1>1. /\ w' = [w EXCEPT !.size = size] /\ "truncate" \in Usage
      /\ written' = [i \in 1..size |-> IF i <= Len(written) THEN written[i] ELSE 0]
      /\ touched' = TRUE /\ writes < MaxWrites /\ writes' = writes + 1
      /\ UNCHANGED <<closed, uploads, uploaded, tokens, firstErr, committed, revision, isNew, place,
                     hadBlock, snap, active, flushes, result, faulty>>
  BY DEF Truncate, MayWrite, threadVars
<1>2. written' \in Seq(Byte) /\ Len(written') = size
  <2>1. written \in Seq(Byte) /\ 0 \in Byte /\ size \in Nat
    BY Loads DEF Shape
  <2>2. \A i \in 1..size : (IF i <= Len(written) THEN written[i] ELSE 0) \in Byte
    BY <2>1
  <2> QED BY <1>1, <2>1, <2>2, FunSeq
<1>3. Shape'
  <2>1. writes' \in 0..MaxWrites
    BY <1>1, Loads DEF Shape
  <2>2. w' \in [cur : Seq(Byte), idx : 0..MaxSize, size : 0..MaxSize] /\ Len(w'.cur) < BlockSize
    BY <1>1 DEF Shape
  <2> QED BY <1>1, <1>2, <2>1, <2>2, Same DEF Shape, Contiguous
<1>4. Sizes'
  BY <1>1, <1>2, Same DEF Sizes, Shape
<1> QED BY <1>3, <1>4

LEMMA UploadTypes ==
  ASSUME Shape, Sizes, NEW u \in uploads, UploadOK(u) \/ UploadFails(u), load' = load
  PROVE  Shape' /\ Sizes'
<1>1. u.idx \in 0..MaxSize /\ u.data \in Block
  BY DEF Shape
<1>2. /\ uploads' = uploads \ {u}
      /\ tokens' \subseteq Token /\ \A s, t \in tokens' : s.idx = t.idx => s = t
  BY <1>1 DEF UploadOK, UploadFails, Shape, Token
<1>3. /\ firstErr' \in BOOLEAN /\ faulty' \in BOOLEAN
      /\ UNCHANGED <<w, closed, uploaded, committed, revision, isNew, place, hadBlock, snap, active,
                     written, writes, flushes, touched, result>>
  BY DEF UploadOK, UploadFails, Shape, threadVars, history
<1> QED BY <1>2, <1>3, Same DEF Shape, Sizes, Contiguous

LEMMA HandOverTypes ==
  ASSUME Shape, Sizes, NEW t \in Thread, NEW l \in {"fwait", "swait"}, HandOver(t, l), load' = load,
         closed' = closed, written' = written, writes' = writes, touched' = touched, faulty' = faulty,
         flushes' \in 0..MaxFlushes
  PROVE  Shape' /\ Sizes'
<1>1. FlushCur \in Seq(BlockRec) /\ Spawn(FlushCur)
  BY Remainder DEF HandOver
<1>2. uploaded' \in Nat /\ uploads' \subseteq [n : 1..uploaded', idx : 0..MaxSize, data : Block]
  BY <1>1, Spawned
<1>3. /\ w' = [w EXCEPT !.cur = <<>>] /\ hadBlock' = [hadBlock EXCEPT ![t] = w.cur # <<>>]
      /\ place' = [place EXCEPT ![t] = l] /\ result' = [result EXCEPT ![t] = "none"]
      /\ UNCHANGED <<tokens, firstErr, committed, revision, isNew, snap, active>>
  BY DEF HandOver, GoOn
<1>4. w' \in [cur : Seq(Byte), idx : 0..MaxSize, size : 0..MaxSize] /\ Len(w'.cur) = 0
      /\ w'.idx = w.idx /\ w'.size = w.size /\ w.idx \in Nat /\ Len(w.cur) \in Nat /\ MaxSize \in Nat
      /\ w.size \in Nat
  <2>1. /\ w \in [cur : Seq(Byte), idx : 0..MaxSize, size : 0..MaxSize] /\ MaxSize \in Nat
        /\ <<>> \in Seq(Byte) /\ Len(<<>>) = 0
    BY Loads DEF Shape
  <2>2. w'.cur = <<>> /\ w'.idx = w.idx /\ w'.size = w.size /\ w' \in [cur : Seq(Byte), idx : 0..MaxSize, size : 0..MaxSize]
    BY <1>3, <2>1
  <2> QED BY <2>1, <2>2
<1>5. Shape'
  BY <1>2, <1>3, <1>4, Same, Size DEF Shape, Place, Contiguous
<1>6. Sizes'
  <2>1. Pos(w.idx) \in Nat
    BY <1>4, Places0
  <2> QED BY <1>4, <2>1, Same DEF Sizes, Pos
<1> QED BY <1>5, <1>6

(* What every step of a call does to the variables of its thread.          *)
Turn(t, l) ==
  /\ place' = [place EXCEPT ![t] = l] /\ l \in Place
  /\ hadBlock' \in [Thread -> BOOLEAN] /\ \A s \in Thread \ {t} : hadBlock'[s] = hadBlock[s]
  /\ result' \in [Thread -> {"none", "ok", "err"}] /\ \A s \in Thread \ {t} : result'[s] = result[s]
  /\ snap' \in [Thread -> SUBSET Token] /\ \A s \in Thread \ {t} : snap'[s] = snap[s]
Kept == UNCHANGED <<uploads, uploaded, isNew, written, writes, touched>>

LEMMA Finite ==
  ASSUME Shape, NEW T, T \subseteq tokens
  PROVE  IsFiniteSet(T)
<1>1. MaxSize \in Nat
  BY Loads
<1> DEFINE f == [s \in T |-> s.idx]
<1>2. f \in [T -> 0..MaxSize]
  BY DEF Shape, Token
<1>3. \A s, t \in T : s # t => f[s] # f[t]
  BY DEF Shape
<1>4. IsInjective(f) /\ IsFiniteSet(0..MaxSize)
  BY <1>1, <1>2, <1>3, FS_Interval DEF IsInjective
<1> HIDE DEF f
<1>5. f \in Injection(T, 0..MaxSize)
  BY <1>2, <1>4 DEF Injection
<1> QED BY <1>4, <1>5, FS_Injection

LEMMA Returned ==
  ASSUME Shape, NEW t \in Thread, NEW r \in {"none", "ok", "err"}, Return(t, r)
  PROVE  Turn(t, "idle") /\ result'[t] = r /\ hadBlock'[t] = FALSE /\ snap'[t] = {}
BY DEF Return, GoOn, Turn, Shape, Place

LEMMA Stayed ==
  ASSUME Shape, NEW t \in Thread, NEW l \in Place, GoOn(t, l), Stay
  PROVE  Turn(t, l) /\ UNCHANGED <<hadBlock, result, snap>>
BY DEF Stay, GoOn, Turn, Shape

LEMMA TurnTypes ==
  ASSUME Shape, Sizes, NEW t \in Thread, NEW l, Turn(t, l), Kept, load' = load,
         w' = w \/ w' = [w EXCEPT !.cur = <<>>, !.idx = 0],
         closed' \in BOOLEAN, firstErr' \in BOOLEAN, committed' \in BOOLEAN, faulty' \in BOOLEAN,
         revision' \in Nat, flushes' \in 0..MaxFlushes, tokens' \subseteq tokens,
         active'.state \in {"old", "draft", "active"},
         \A i \in DOMAIN active'.blocks : active'.blocks[i] \in Block,
         l \in {"fupdate", "supdate"} => Contiguous(snap'[t]) /\ IsFiniteSet(snap'[t])
  PROVE  Shape' /\ Sizes'
<1>1. /\ w \in [cur : Seq(Byte), idx : 0..MaxSize, size : 0..MaxSize] /\ MaxSize \in Nat
      /\ <<>> \in Seq(Byte) /\ Len(<<>>) = 0 /\ Len(w.cur) < BlockSize
  BY Loads DEF Shape
<1>2. /\ w' \in [cur : Seq(Byte), idx : 0..MaxSize, size : 0..MaxSize] /\ w'.size = w.size
      /\ Len(w'.cur) < BlockSize /\ ((w'.idx = w.idx /\ w'.cur = w.cur) \/ (w'.idx = 0 /\ w'.cur = <<>>))
  <2>1. CASE w' = w
    <3>1. w'.size = w.size /\ w'.idx = w.idx /\ w'.cur = w.cur
      BY <2>1
    <3>2. w' \in [cur : Seq(Byte), idx : 0..MaxSize, size : 0..MaxSize]
      BY <1>1, <2>1
    <3>3. Len(w'.cur) < BlockSize
      BY <1>1, <3>1
    <3> QED BY <3>1, <3>2, <3>3
  <2>2. CASE w' = [w EXCEPT !.cur = <<>>, !.idx = 0]
    <3>1. w' = [cur |-> <<>>, idx |-> 0, size |-> w.size]
      BY <1>1, <2>2
    <3> QED BY <1>1, <3>1, Size
  <2> QED BY <2>1, <2>2
<1>3. \A s \in Thread : place'[s] \in {"fupdate", "supdate"} =>
        Contiguous(snap'[s]) /\ IsFiniteSet(snap'[s])
  BY DEF Shape, Turn
<1>4. place' \in [Thread -> Place]
  BY DEF Shape, Turn
<1>5. Shape'
  BY <1>2, <1>3, <1>4, Same DEF Shape, Contiguous, Turn, Kept
<1>6. Sizes'
  BY <1>1, <1>2, Same, Places0 DEF Sizes, Kept, Pos
<1> QED BY <1>5, <1>6

(* The step a call takes between the waits, by its effect.                 *)
LEMMA CallTypes ==
  ASSUME Shape, Sizes, NEW t \in Thread, load' = load,
         \/ Close(t) \/ Wait(t) \/ Decide(t) \/ UpdateRevision(t)
         \/ FlushDone(t) \/ CreateRevision(t) \/ SyncReset(t) \/ SyncClear(t)
  PROVE  Shape' /\ Sizes'
<1>0. {"idle", "close", "fread", "sread", "fcopy", "scopy", "fdone", "screate", "sreset", "sclear",
       "fupdate", "supdate"} \subseteq Place
  BY DEF Place
<1>s. /\ closed \in BOOLEAN /\ firstErr \in BOOLEAN /\ committed \in BOOLEAN /\ faulty \in BOOLEAN
      /\ revision \in Nat /\ revision + 1 \in Nat /\ flushes \in 0..MaxFlushes /\ MaxFlushes \in Nat
      /\ active.state \in {"old", "draft", "active"}
      /\ \A i \in DOMAIN active.blocks : active.blocks[i] \in Block
  BY Loads DEF Shape
<1>1. CASE Close(t)
  <2>1. (closed /\ Turn(t, "idle")) \/ Turn(t, "close")
    BY <1>0, <1>1, Returned, Stayed DEF Close
  <2>2. flushes' \in 0..MaxFlushes
    BY <1>1, <1>s DEF Close, Called
  <2>3. /\ Kept /\ w' = w /\ closed' = TRUE
        /\ UNCHANGED <<tokens, firstErr, committed, revision, active, faulty>>
    BY <1>1 DEF Close, Called, Kept
  <2> QED BY <1>s, <2>1, <2>2, <2>3, TurnTypes
<1>2. CASE Wait(t)
  <2>1. Turn(t, "fread") \/ Turn(t, "sread")
    BY <1>0, <1>2, Stayed DEF Wait
  <2>2. /\ Kept /\ w' = w
        /\ UNCHANGED <<closed, tokens, firstErr, committed, revision, flushes, active, faulty>>
    BY <1>2 DEF Wait, Kept, NoHistory, SameCalls, fdVars
  <2> QED BY <1>s, <2>1, <2>2, TurnTypes
<1>3. CASE Decide(t)
  <2>1. Turn(t, "idle") \/ Turn(t, "fcopy") \/ Turn(t, "scopy")
    <3>1. CASE UploadFailed(t) /\ Return(t, "err")
      BY <3>1, Returned
    <3>2. CASE \E r \in {"ok", "none"} : Return(t, r)
      BY <3>2, Returned
    <3>3. CASE Stay /\ GoOn(t, IF place[t] = "fread" THEN "fcopy" ELSE "scopy")
      BY <1>0, <3>3, Stayed
    <3> QED BY <1>3, <3>1, <3>2, <3>3 DEF Decide
  <2>2. /\ Kept /\ w' = w
        /\ UNCHANGED <<closed, tokens, firstErr, committed, revision, flushes, active, faulty>>
    BY <1>3 DEF Decide, Kept, NoHistory, SameCalls, fdVars
  <2> QED BY <1>s, <2>1, <2>2, TurnTypes
<1>5. CASE UpdateRevision(t)
  <2>1. Turn(t, "idle") \/ Turn(t, "fdone") \/ Turn(t, "screate")
    BY <1>0, <1>5, Returned, Stayed DEF UpdateRevision
  <2>2. /\ Kept /\ w' = w
        /\ UNCHANGED <<closed, tokens, firstErr, committed, revision, flushes>>
    BY <1>5 DEF UpdateRevision, Kept, SameCalls, fdVars
  <2>3. faulty' \in BOOLEAN
    BY <1>5, <1>s DEF UpdateRevision
  <2>4. active' = active \/ active' = Active(BlocksOf(snap[t]))
    BY <1>5 DEF UpdateRevision
  <2>5. \A i \in DOMAIN BlocksOf(snap[t]) : BlocksOf(snap[t])[i] \in Block
    <3> DEFINE T == snap[t]
               K == Cardinality(T)
    <3>1. T \subseteq Token /\ {s.idx : s \in T} = 0..(K - 1) /\ IsFiniteSet(T)
      BY <1>5 DEF UpdateRevision, Shape, Contiguous
    <3>2. K \in Nat
      BY <3>1, FS_CardinalityType
    <3> HIDE DEF T, K
    <3>3. ASSUME NEW i \in 1..K PROVE (CHOOSE s \in T : s.idx = i - 1).data \in Block
      <4>1. i - 1 \in 0..(K - 1)
        BY <3>2
      <4>2. \E s \in T : s.idx = i - 1
        BY <3>1, <4>1
      <4>3. (CHOOSE s \in T : s.idx = i - 1) \in T
        BY <4>2
      <4> QED BY <3>1, <4>3 DEF Token
    <3> QED BY <3>3 DEF BlocksOf, T, K
  <2>6. /\ active'.state \in {"old", "draft", "active"}
        /\ \A i \in DOMAIN active'.blocks : active'.blocks[i] \in Block
    BY <1>s, <2>4, <2>5 DEF Active
  <2> QED BY <1>s, <2>1, <2>2, <2>3, <2>6, TurnTypes
<1>6. CASE FlushDone(t)
  <2>1. Turn(t, "idle")
    BY <1>6, Returned DEF FlushDone
  <2>2. /\ Kept /\ w' = w /\ committed' = TRUE /\ tokens' = {}
        /\ UNCHANGED <<closed, firstErr, revision, flushes, active, faulty>>
    BY <1>6 DEF FlushDone, Kept, NoHistory, SameCalls
  <2> QED BY <1>s, <2>1, <2>2, TurnTypes
<1>7. CASE CreateRevision(t)
  <2>1. Turn(t, "idle") \/ Turn(t, "sreset")
    BY <1>0, <1>7, Returned, Stayed DEF CreateRevision
  <2>2. /\ Kept /\ w' = w /\ faulty' \in BOOLEAN
        /\ UNCHANGED <<closed, tokens, firstErr, committed, revision, flushes, active>>
    BY <1>7, <1>s DEF CreateRevision, Kept, SameCalls, fdVars
  <2> QED BY <1>s, <2>1, <2>2, TurnTypes
<1>8. CASE SyncReset(t)
  <2>1. Turn(t, "sclear")
    BY <1>0, <1>8, Stayed DEF SyncReset
  <2>2. /\ Kept /\ w' = [w EXCEPT !.cur = <<>>, !.idx = 0] /\ revision' = revision + 1
        /\ UNCHANGED <<closed, tokens, firstErr, committed, flushes, active, faulty>>
    BY <1>8 DEF SyncReset, Kept, NoHistory, SameCalls
  <2> QED BY <1>s, <2>1, <2>2, TurnTypes
<1>9. CASE SyncClear(t)
  <2>1. Turn(t, "idle")
    BY <1>9, Returned DEF SyncClear
  <2>2. /\ Kept /\ w' = w /\ firstErr' = FALSE /\ tokens' = {}
        /\ UNCHANGED <<closed, committed, revision, flushes, active, faulty>>
    BY <1>9 DEF SyncClear, Kept, NoHistory, SameCalls
  <2> QED BY <1>s, <2>1, <2>2, TurnTypes
<1> QED BY <1>1, <1>2, <1>3, <1>5, <1>6, <1>7, <1>8, <1>9

LEMMA CopyTypes ==
  ASSUME Shape, Sizes, NEW t \in Thread, load' = load, CopyTokens(t)
  PROVE  Shape' /\ Sizes'
<1>1. /\ Kept /\ w' = w
      /\ UNCHANGED <<closed, tokens, firstErr, committed, revision, flushes, active, faulty>>
  BY DEF CopyTokens, Kept, NoHistory, SameCalls, fdVars
<1>2. /\ closed \in BOOLEAN /\ firstErr \in BOOLEAN /\ committed \in BOOLEAN /\ faulty \in BOOLEAN
      /\ revision \in Nat /\ flushes \in 0..MaxFlushes
      /\ active.state \in {"old", "draft", "active"}
      /\ \A i \in DOMAIN active.blocks : active.blocks[i] \in Block
  BY DEF Shape
<1>3. CASE Contiguous(tokens)
  <2>1. \E l \in {"fupdate", "supdate"} : Turn(t, l)
    <3>1. /\ snap' = [snap EXCEPT ![t] = tokens] /\ UNCHANGED <<hadBlock, result>>
          /\ \E l \in {"fupdate", "supdate"} : place' = [place EXCEPT ![t] = l]
      BY <1>3 DEF CopyTokens, GoOn
    <3> QED BY <3>1 DEF Turn, Shape, Place
  <2>2. snap'[t] = tokens
    BY <1>3 DEF CopyTokens, Shape
  <2> QED BY <1>1, <1>2, <1>3, <2>1, <2>2, Finite, TurnTypes
<1>4. CASE ~Contiguous(tokens)
  <2>1. Turn(t, "idle")
    BY <1>4, Returned DEF CopyTokens
  <2> QED BY <1>1, <1>2, <2>1, TurnTypes
<1> QED BY <1>3, <1>4

LEMMA TypesInit == ASSUME FdInit PROVE Shape /\ Sizes
<1>1. load.maxSize \in Nat /\ load.maxWrites \in Nat /\ load.maxFlushes \in Nat
  BY WorkloadAssumption DEF FdInit
<1>2. <<>> \in Seq(Byte) /\ Len(<<>>) = 0 /\ Pos(0) = 0
  BY Places0
<1>3. Shape
  <2>1. w \in [cur : Seq(Byte), idx : 0..MaxSize, size : 0..MaxSize] /\ Len(w.cur) < BlockSize
    BY <1>1, <1>2, Size DEF FdInit, MaxSize
  <2>2. /\ place \in [Thread -> Place] /\ \A t \in Thread : place[t] = "idle"
    BY DEF FdInit, Place
  <2>3. /\ active.state \in {"old", "draft", "active"}
        /\ \A i \in DOMAIN active.blocks : active.blocks[i] \in Block
    BY DEF FdInit, Draft, Old
  <2>4. /\ hadBlock \in [Thread -> BOOLEAN] /\ snap \in [Thread -> SUBSET Token]
        /\ result \in [Thread -> {"none", "ok", "err"}]
    BY DEF FdInit
  <2>5. written \in Seq(Byte) /\ writes \in 0..MaxWrites /\ flushes \in 0..MaxFlushes
    BY <1>1, <1>2 DEF FdInit, MaxWrites, MaxFlushes
  <2>6. /\ load \in Workloads /\ closed \in BOOLEAN /\ firstErr \in BOOLEAN /\ committed \in BOOLEAN
        /\ isNew \in BOOLEAN /\ touched \in BOOLEAN /\ faulty \in BOOLEAN /\ uploaded \in Nat
        /\ revision \in Nat /\ uploads = {} /\ tokens = {}
    BY DEF FdInit
  <2> QED BY <2>1, <2>2, <2>3, <2>4, <2>5, <2>6 DEF Shape
<1>4. Sizes
  BY <1>1, <1>2 DEF FdInit, Sizes, MaxSize, Pos
<1> QED BY <1>3, <1>4

LEMMA TypesStep ==
  ASSUME Shape, Sizes, [FdNext]_fdAll
  PROVE  Shape' /\ Sizes'
<1>1. CASE UNCHANGED fdAll
  BY <1>1 DEF fdAll, fdVars, threadVars, history, Shape, Sizes, Contiguous, Token, Block, Byte, Usage,
              MaxSize, MaxWrites, MaxFlushes
<1>2. CASE Upload
  BY <1>2, UploadTypes DEF Upload
<1>3. ASSUME NEW t \in Thread, CallStep(t) PROVE Shape' /\ Sizes'
  <2>1. CASE CloseFlush(t)
    <3>1. flushes \in 0..MaxFlushes
      BY DEF Shape
    <3> QED BY <1>3, <2>1, <3>1, HandOverTypes DEF CloseFlush, CallStep
  <2> QED BY <1>3, <2>1, CallTypes, CopyTypes DEF CallStep
<1>4. ASSUME NEW t \in Thread, Call(t) PROVE Shape' /\ Sizes'
  <2>0. load' = load
    BY <1>4 DEF Call
  <2>1. CASE Flush(t) \/ Sync(t)
    <3>1. flushes' \in 0..MaxFlushes
      BY <2>1, Loads DEF Flush, Sync, Called, Shape
    <3>2. closed' = closed /\ written' = written /\ writes' = writes /\ touched' = touched /\ faulty' = faulty
      BY <2>1 DEF Flush, Sync, Called
    <3> QED BY <2>0, <2>1, <3>1, <3>2, HandOverTypes DEF Flush, Sync
  <2>2. CASE Writing(t)
    BY <2>0, <2>2, WriteTypes
  <2>3. CASE \E size \in 0..MaxSize : Truncate(t, size)
    BY <2>0, <2>3, TruncateTypes
  <2>4. CASE Close(t)
    BY <2>0, <2>4, CallTypes
  <2> QED BY <1>4, <2>1, <2>2, <2>3, <2>4 DEF Call, Writing
<1> QED BY <1>1, <1>2, <1>3, <1>4 DEF FdNext

LEMMA ShapeTypes == ASSUME Shape, Sizes PROVE FdTypeOK
<1>1. w.cur \in Block
  <2>1. w.cur \in Seq(Byte) /\ Len(w.cur) <= BlockSize
    BY Size DEF Shape
  <2> QED BY <2>1, BlockIs
<1>2. \A u \in uploads : u.n \in 1..uploaded /\ [idx |-> u.idx, data |-> u.data] \in Token
  BY DEF Shape, Token
<1>3. w.idx \in 0..MaxSize /\ w.size \in 0..MaxSize /\ Len(w.cur) < BlockSize /\ Len(written) <= MaxSize
  BY DEF Shape, Sizes
<1> QED BY <1>1, <1>2, <1>3 DEF Shape, FdTypeOK

-----------------------------------------------------------------------------
(* Close: no block comes to be buffered behind it, and a thread leaves its *)
(* wait only when nothing is uploaded.                                     *)
LEMMA DrainedStep ==
  ASSUME Shape, Drained, [FdNext]_fdAll
  PROVE  Drained'
<1>0. place \in [Thread -> Place]
  BY DEF Shape
<1>1. CASE UNCHANGED fdAll
  BY <1>1 DEF fdAll, fdVars, threadVars, Drained
<1>2. CASE Upload
  <2>1. PICK u \in uploads : UploadOK(u) \/ UploadFails(u)
    BY <1>2 DEF Upload
  <2>2. uploads' = uploads \ {u} /\ UNCHANGED <<w, closed, place>>
    BY <2>1 DEF UploadOK, UploadFails, threadVars
  <2> QED BY <2>2 DEF Drained
<1>3. ASSUME NEW t \in Thread, CallStep(t) PROVE Drained'
  <2>1. CASE CloseFlush(t)
    <3>1. w'.cur = <<>> /\ place'[t] = "fwait"
      BY <1>0, <2>1 DEF CloseFlush, HandOver, GoOn, Shape
    <3> QED BY <3>1 DEF Drained
  <2>2. CASE Wait(t)
    <3>1. uploads' = {} /\ UNCHANGED <<w, closed>> /\ place[t] # "close"
          /\ \A s \in Thread \ {t} : place'[s] = place[s]
      BY <1>0, <2>2 DEF Wait, GoOn, fdVars
    <3> QED BY <3>1 DEF Drained
  <2>3. CASE Decide(t) \/ CopyTokens(t) \/ UpdateRevision(t) \/ FlushDone(t) \/ CreateRevision(t)
             \/ SyncReset(t) \/ SyncClear(t)
    <3>1. /\ place[t] \notin {"close", "fwait", "swait"} /\ \A s \in Thread \ {t} : place'[s] = place[s]
      BY <1>0, <2>3 DEF Decide, CopyTokens, UpdateRevision, FlushDone, CreateRevision, SyncReset,
                        SyncClear, GoOn, Return
    <3>2. closed' = closed /\ uploads' = uploads
      BY <2>3 DEF Decide, CopyTokens, UpdateRevision, FlushDone, CreateRevision, SyncReset, SyncClear,
                  fdVars
    <3>3. w' = w \/ w'.cur = <<>>
      BY <2>3 DEF Decide, CopyTokens, UpdateRevision, FlushDone, CreateRevision, SyncReset, SyncClear,
                  fdVars, Shape
    <3> QED BY <3>1, <3>2, <3>3 DEF Drained
  <2> QED BY <1>3, <2>1, <2>2, <2>3 DEF CallStep
<1>4. ASSUME NEW t \in Thread, Call(t) PROVE Drained'
  <2>1. CASE Flush(t) \/ Sync(t)
    <3>1. w'.cur = <<>> /\ place'[t] \in {"fwait", "swait"}
      BY <1>0, <2>1 DEF Flush, Sync, HandOver, GoOn, Shape
    <3> QED BY <3>1 DEF Drained
  <2>2. CASE Writing(t) \/ \E size \in 0..MaxSize : Truncate(t, size)
    <3>1. closed' = FALSE
      BY <2>2 DEF Writing, Write, WriteAt, Truncate, Shape
    <3> QED BY <3>1 DEF Drained
  <2>3. CASE Close(t)
    <3>1. CASE closed
      <4>1. UNCHANGED <<w, uploads>> /\ closed' = closed /\ \A s \in Thread : place'[s] = place[s]
        BY <1>0, <2>3, <3>1 DEF Close, Called, Return, GoOn, Shape
      <4> QED BY <4>1 DEF Drained
    <3>2. CASE ~closed
      <4>1. place'[t] = "close"
        BY <1>0, <2>3, <3>2 DEF Close, GoOn
      <4> QED BY <4>1 DEF Drained
    <3> QED BY <3>1, <3>2
  <2> QED BY <1>4, <2>1, <2>2, <2>3 DEF Call, Writing
<1> QED BY <1>1, <1>2, <1>3, <1>4 DEF FdNext

-----------------------------------------------------------------------------
(* The parts of an orderly writer's file.                                  *)
Count(data) == (Len(data) + BlockSize - 1) \div BlockSize
Slice(data, a, b) == SubSeq(data, a + 1, b)
Top(data, j) == IF Pos(j) < Len(data) THEN Pos(j) ELSE Len(data)
Chunk(data, j) == Slice(data, Pos(j - 1), Top(data, j))

LEMMA BlocksAre ==
  ASSUME NEW data \in Seq(Byte)
  PROVE  /\ Count(data) \in Nat /\ Len(Blocks(data)) = Count(data)
         /\ DOMAIN Blocks(data) = 1..Count(data)
         /\ \A j \in 1..Count(data) : Blocks(data)[j] = Chunk(data, j)
         /\ Blocks(data) = [j \in 1..Count(data) |-> Chunk(data, j)]
<1>1. Count(data) \in Nat
  <2>1. Len(data) + BlockSize - 1 \in Nat
    BY Size
  <2> QED BY <2>1, Divide DEF Count
<1>2. Blocks(data) = [j \in 1..Count(data) |-> Chunk(data, j)]
  BY DEF Blocks, Count, Chunk, Slice, Top, Pos
<1>3. Len([j \in 1..Count(data) |-> Chunk(data, j)]) = Count(data)
  BY <1>1
<1> QED BY <1>1, <1>2, <1>3

LEMMA CountIs ==
  ASSUME NEW data \in Seq(Byte), NEW q \in Nat, NEW r \in 0..(BlockSize - 1), Len(data) = Pos(q) + r
  PROVE  Count(data) = IF r = 0 THEN q ELSE q + 1
<1>1. Pos(q) \in Nat /\ Pos(q + 1) = Pos(q) + BlockSize /\ q + 1 \in Nat /\ BlockSize \in Nat /\ BlockSize >= 1
  BY Size, Places0
<1>2. CASE r = 0
  <2>1. Len(data) + BlockSize - 1 = Pos(q) + (BlockSize - 1) /\ BlockSize - 1 \in 0..(BlockSize - 1)
    BY <1>1, <1>2
  <2>2. (Pos(q) + (BlockSize - 1)) \div BlockSize = q
    BY <2>1, Quotient
  <2> QED BY <1>2, <2>1, <2>2 DEF Count
<1>3. CASE r # 0
  <2>1. Len(data) + BlockSize - 1 = Pos(q + 1) + (r - 1) /\ r - 1 \in 0..(BlockSize - 1)
    BY <1>1, <1>3
  <2>2. (Pos(q + 1) + (r - 1)) \div BlockSize = q + 1
    BY <1>1, <2>1, Quotient
  <2> QED BY <1>3, <2>1, <2>2 DEF Count
<1> QED BY <1>2, <1>3

(* An accumulator that holds the tail of what was written.                 *)
TailAt(acc, data) ==
  acc.idx = Len(data) \div BlockSize /\ acc.cur = SubSeq(data, Pos(acc.idx) + 1, Len(data))
AtTail == TailAt(w, written)

LEMMA TailIs ==
  ASSUME NEW acc, NEW data \in Seq(Byte), acc.cur \in Seq(Byte), TailAt(acc, data)
  PROVE  /\ acc.idx \in Nat /\ Pos(acc.idx) \in Nat /\ Len(acc.cur) \in 0..(BlockSize - 1)
         /\ Len(data) = Pos(acc.idx) + Len(acc.cur)
         /\ \A i \in 1..Len(acc.cur) : acc.cur[i] = data[Pos(acc.idx) + i]
         /\ Count(data) = IF acc.cur = <<>> THEN acc.idx ELSE acc.idx + 1
         /\ (IF acc.cur = <<>> THEN Len(Blocks(data)) ELSE acc.idx) = acc.idx
<1>1. Len(data) \in Nat /\ Len(acc.cur) \in Nat
  OBVIOUS
<1>2. /\ acc.idx \in Nat /\ Len(data) % BlockSize \in 0..(BlockSize - 1)
      /\ Len(data) = Pos(acc.idx) + (Len(data) % BlockSize)
  BY <1>1, Divide DEF TailAt
<1>3. Pos(acc.idx) \in Nat
  BY <1>2, Places0
<1>4. /\ Len(acc.cur) = IF Pos(acc.idx) <= Len(data) THEN Len(data) - Pos(acc.idx) ELSE 0
      /\ \A i \in 1..(Len(data) - Pos(acc.idx)) : acc.cur[i] = data[Pos(acc.idx) + i]
  <2>1. Len(data) \in 0..Len(data)
    BY <1>1
  <2> QED BY <1>1, <1>3, <2>1, Part DEF TailAt
<1>5. Len(acc.cur) = Len(data) % BlockSize
  BY <1>1, <1>2, <1>3, <1>4, Size
<1>6. /\ Len(acc.cur) \in 0..(BlockSize - 1) /\ Len(data) = Pos(acc.idx) + Len(acc.cur)
      /\ \A i \in 1..Len(acc.cur) : acc.cur[i] = data[Pos(acc.idx) + i]
  BY <1>1, <1>2, <1>3, <1>4, <1>5
<1>7. Len(acc.cur) = 0 <=> acc.cur = <<>>
  BY <1>1
<1>8. Count(data) = IF acc.cur = <<>> THEN acc.idx ELSE acc.idx + 1
  BY <1>1, <1>2, <1>6, <1>7, CountIs
<1>9. (IF acc.cur = <<>> THEN Len(Blocks(data)) ELSE acc.idx) = acc.idx
  BY <1>1, <1>8, BlocksAre
<1> QED BY <1>2, <1>3, <1>6, <1>8, <1>9

(* A sequence that stands at place k of another, and its parts.            *)
StandsAt(d, f, k) ==
  /\ d \in Seq(Byte) /\ f \in Seq(Byte) /\ k \in Nat /\ Len(f) >= k + Len(d)
  /\ \A i \in 1..Len(d) : d[i] = f[k + i]
LEMMA SubSame ==
  ASSUME NEW d, NEW f, NEW k, StandsAt(d, f, k), NEW a \in Nat, NEW b \in Nat, a <= b, b <= Len(d)
  PROVE  Slice(d, a, b) = Slice(f, k + a, k + b)
<1>0. /\ d \in Seq(Byte) /\ f \in Seq(Byte) /\ k \in Nat /\ Len(f) >= k + Len(d)
      /\ \A i \in 1..Len(d) : d[i] = f[k + i]
  BY DEF StandsAt
<1>1. b \in 0..Len(d) /\ k + b \in 0..Len(f) /\ k + a \in Nat /\ (k + b) - (k + a) = b - a /\ k + a <= k + b
  <2>1. Len(d) \in Nat /\ Len(f) \in Nat
    BY <1>0
  <2> QED BY <1>0, <2>1
<1> DEFINE x == SubSeq(d, a + 1, b)
           y == SubSeq(f, (k + a) + 1, k + b)
<1>2. x \in Seq(Byte) /\ Len(x) = b - a /\ \A i \in 1..(b - a) : x[i] = d[a + i]
  BY <1>0, <1>1, Part
<1>3. y \in Seq(Byte) /\ Len(y) = b - a /\ \A i \in 1..(b - a) : y[i] = f[(k + a) + i]
  BY <1>0, <1>1, Part
<1> HIDE DEF x, y
<1>4. \A i \in 1..(b - a) : a + i \in 1..Len(d) /\ k + (a + i) = (k + a) + i
  BY <1>0, <1>1
<1>5. \A i \in 1..Len(x) : x[i] = y[i]
  BY <1>0, <1>2, <1>3, <1>4
<1>6. x = y
  BY <1>2, <1>3, <1>5, SeqEqual
<1> QED BY <1>6 DEF x, y, Slice

(* p is data with n bytes v behind it.                                     *)
Extended(p, data, n, v) ==
  /\ p \in Seq(Byte) /\ Len(p) = Len(data) + n
  /\ \A i \in 1..(Len(data) + n) : p[i] = IF i <= Len(data) THEN data[i] ELSE v
LEMMA ExtendIs ==
  ASSUME Shape, NEW data \in Seq(Byte), NEW n \in Nat, NEW v \in Byte
  PROVE  Extended(Overlay(data, Len(data), n, v), data, n, v)
<1>1. Len(data) \in Nat /\ Len(data) + n \in Nat
  OBVIOUS
<1> DEFINE off == Len(data)
<1> HIDE DEF off
<1>2. off \in Nat /\ off = Len(data)
  BY <1>1 DEF off
<1> DEFINE p == Overlay(data, off, n, v)
<1>o. Overlaid(p, data, off, n, v)
  BY <1>2, OverlayIs
<1> HIDE DEF p
<1>3. /\ p \in Seq(Byte)
      /\ Len(p) = IF off + n > Len(data) THEN off + n ELSE Len(data)
      /\ \A i \in 1..Len(p) :
           p[i] = IF i > off /\ i <= off + n THEN v ELSE IF i <= Len(data) THEN data[i] ELSE 0
  BY <1>o DEF Overlaid
<1>4. Len(p) = Len(data) + n
  BY <1>2, <1>3
<1>5. \A i \in 1..(Len(data) + n) : p[i] = IF i <= Len(data) THEN data[i] ELSE v
  BY <1>1, <1>2, <1>3, <1>4
<1>6. p = Overlay(data, Len(data), n, v)
  BY <1>2 DEF p
<1>7. Extended(p, data, n, v)
  BY <1>3, <1>4, <1>5 DEF Extended
<1> QED BY <1>6, <1>7

(* What an orderly write does: the file grows, the accumulator is again at *)
(* its tail, and the blocks between are handed over.                       *)
Grown(out) ==
  /\ out \in Seq(BlockRec) /\ Spawn(out) /\ w'.idx = w.idx + Len(out)
  /\ \A i \in 1..Len(out) : /\ out[i].idx = w.idx + i - 1
                            /\ out[i].data = Chunk(written', w.idx + i)
  /\ \A j \in 1..w.idx : Chunk(written', j) = Chunk(written, j)
  /\ written' # <<>>

LEMMA Appended ==
  ASSUME Shape, Sizes, Orderly, AtTail, flushes = 0, NEW t \in Thread, Writing(t), load' = load
  PROVE  AtTail' /\ \E out : Grown(out)
<1>1. PICK first, at, off, n, size : Wrote(first, at, off, n, size) /\ Fits(first, at, off, n, size)
  BY WritesFit
<1> DEFINE v == writes + 1
<1>2. first = w.idx /\ at = Len(w.cur) /\ off = Len(written) /\ n \in Nat /\ n >= 1 /\ v \in Byte
  BY <1>1 DEF Fits, Accumulates, AtTail, TailAt, Pos
<1>3. /\ w.idx \in Nat /\ Pos(w.idx) \in Nat /\ Len(w.cur) \in 0..(BlockSize - 1)
      /\ Len(written) = Pos(w.idx) + Len(w.cur)
      /\ \A i \in 1..Len(w.cur) : w.cur[i] = written[Pos(w.idx) + i]
  BY TailIs DEF AtTail, Shape
<1>4. w.cur \in Seq(Byte) /\ written \in Seq(Byte) /\ Len(w.cur) \in Nat /\ Len(written) \in Nat /\ BlockSize \in Nat
  BY Size DEF Shape
<1> DEFINE D == Data(first, at, n, v)
           a == Accumulated(first, at, n, v, size)
           F == FullIn(D)
<1>5. /\ D \in Seq(Byte) /\ a.out \in Seq(BlockRec) /\ a.out = Left(first) \o Pieces(first, D)
      /\ Pieces(first, D) \in Seq(BlockRec) /\ Len(Pieces(first, D)) = F
      /\ a.w.cur = Rest(D) /\ a.w.idx = first + F
  BY <1>1, Flushed
<1>6. D = Overlay(w.cur, Len(w.cur), n, v) /\ Left(first) = <<>>
  BY <1>2 DEF Data, Base, Left
<1>7. a.out = Pieces(first, D)
  BY <1>5, <1>6, ConcatEmptySeq
<1>8. /\ w' = a.w /\ Spawn(a.out) /\ written' = Overlay(written, Len(written), n, v)
  BY <1>1, <1>2 DEF Wrote
<1> HIDE DEF D, a, v
<1>9. /\ Len(D) = Len(w.cur) + n
      /\ \A i \in 1..(Len(w.cur) + n) : D[i] = IF i <= Len(w.cur) THEN w.cur[i] ELSE v
  <2>1. Extended(D, w.cur, n, v)
    BY <1>2, <1>4, <1>6, ExtendIs
  <2> QED BY <2>1 DEF Extended
<1>10. /\ written' \in Seq(Byte) /\ Len(written') = Len(written) + n
       /\ \A i \in 1..(Len(written) + n) :
            written'[i] = IF i <= Len(written) THEN written[i] ELSE v
  <2>1. Extended(written', written, n, v)
    BY <1>2, <1>4, <1>8, ExtendIs
  <2> QED BY <2>1 DEF Extended
<1>11. Len(written') = Pos(w.idx) + Len(D) /\ Len(D) \in Nat /\ Len(written') \in Nat
  BY <1>2, <1>3, <1>4, <1>9, <1>10
<1>12. ASSUME NEW i \in 1..Len(D) PROVE D[i] = written'[Pos(w.idx) + i]
  <2>1. Pos(w.idx) + i \in 1..Len(written') /\ i \in Nat
    BY <1>3, <1>11
  <2>2. CASE i <= Len(w.cur)
    <3>1. D[i] = w.cur[i] /\ i \in 1..Len(w.cur)
      BY <1>4, <1>9, <2>1, <2>2
    <3>2. written'[Pos(w.idx) + i] = written[Pos(w.idx) + i]
      BY <1>3, <1>4, <1>10, <2>1, <2>2
    <3> QED BY <1>3, <3>1, <3>2
  <2>3. CASE i > Len(w.cur)
    <3>1. i \in 1..(Len(w.cur) + n) /\ ~(i <= Len(w.cur))
      BY <1>2, <1>4, <1>9, <2>1, <2>3
    <3>2. /\ Pos(w.idx) + i \in 1..(Len(written) + n) /\ ~(Pos(w.idx) + i <= Len(written))
      BY <1>2, <1>3, <1>4, <1>10, <2>1, <2>3
    <3>3. D[i] = v
      BY <1>9, <3>1
    <3>4. written'[Pos(w.idx) + i] = v
      BY <1>10, <3>2
    <3> QED BY <3>3, <3>4
  <2> QED BY <1>4, <2>1, <2>2, <2>3
<1>13. /\ F \in Nat /\ Pos(F) \in Nat /\ Pos(F) <= Len(D) /\ Len(D) < Pos(F) + BlockSize
       /\ Rest(D) = Slice(D, Pos(F), Len(D))
       /\ \A i \in 1..F : Pos(i) <= Len(D) /\ Pos(i - 1) \in Nat /\ Pos(i) = Pos(i - 1) + BlockSize
  BY <1>5, Cut DEF Rest, Slice
<1>14. /\ \A i \in 1..F : Pieces(first, D)[i].idx = first + i - 1 /\ Pieces(first, D)[i].data = Piece(D, i)
  BY DEF Pieces
<1> HIDE DEF F
<1>15. Pos(w.idx + F) = Pos(w.idx) + Pos(F)
  BY <1>3, <1>13, PosSum
<1>s. ASSUME NEW x \in Nat, NEW y \in Nat, x <= y, y <= Len(D)
      PROVE  Slice(D, x, y) = Slice(written', Pos(w.idx) + x, Pos(w.idx) + y)
  <2>1. StandsAt(D, written', Pos(w.idx))
    BY <1>3, <1>5, <1>10, <1>11, <1>12 DEF StandsAt
  <2> QED BY <1>s, <1>3, <2>1, SubSame
<1>16. Len(written') \div BlockSize = w.idx + F
  <2>1. Len(D) - Pos(F) \in 0..(BlockSize - 1) /\ Len(written') = Pos(w.idx + F) + (Len(D) - Pos(F))
    <3>1. /\ Pos(F) \in Nat /\ Pos(F) <= Len(D) /\ Len(D) < Pos(F) + BlockSize /\ Len(D) \in Nat
          /\ Pos(w.idx) \in Nat /\ BlockSize \in Nat
      BY <1>3, <1>4, <1>11, <1>13
    <3>2. Len(D) - Pos(F) \in 0..(BlockSize - 1)
      BY <3>1
    <3> QED BY <1>11, <1>15, <3>1, <3>2
  <2>2. w.idx + F \in Nat
    BY <1>3, <1>13
  <2> QED BY <2>1, <2>2, Quotient
<1>17. Rest(D) = Slice(written', Pos(w.idx + F), Len(written'))
  <2>1. Slice(D, Pos(F), Len(D)) = Slice(written', Pos(w.idx) + Pos(F), Pos(w.idx) + Len(D))
    BY <1>s, <1>11, <1>13
  <2> QED BY <1>11, <1>13, <1>15, <2>1
<1>18. AtTail'
  BY <1>2, <1>5, <1>8, <1>16, <1>17 DEF AtTail, TailAt, Slice
<1>19. ASSUME NEW i \in 1..F PROVE Piece(D, i) = Chunk(written', w.idx + i)
  <2>1. i \in Nat /\ i - 1 \in Nat /\ w.idx + i - 1 = w.idx + (i - 1) /\ Pos(i) \in Nat
    BY <1>4, <1>13
  <2>2. Pos(w.idx + i) = Pos(w.idx) + Pos(i) /\ Pos(w.idx + i - 1) = Pos(w.idx) + Pos(i - 1)
    BY <1>3, <2>1, PosSum
  <2>3. Pos(w.idx + i) <= Len(written') /\ Pos(i - 1) \in Nat /\ Pos(i - 1) <= Pos(i) /\ Pos(i) <= Len(D)
    <3>1. /\ Pos(i) <= Len(D) /\ Pos(i - 1) \in Nat /\ Pos(i) = Pos(i - 1) + BlockSize
          /\ BlockSize \in Nat /\ Pos(w.idx) \in Nat /\ Len(D) \in Nat
      BY <1>3, <1>4, <1>11, <1>13
    <3> QED BY <1>11, <2>2, <3>1
  <2>4. Piece(D, i) = Slice(written', Pos(w.idx) + Pos(i - 1), Pos(w.idx) + Pos(i))
    <3>1. Piece(D, i) = Slice(D, Pos(i - 1), Pos(i))
      BY DEF Piece, Slice
    <3> QED BY <1>s, <2>1, <2>3, <3>1
  <2>5. Top(written', w.idx + i) = Pos(w.idx + i)
    BY <1>3, <1>11, <2>1, <2>2, <2>3 DEF Top
  <2>6. Chunk(written', w.idx + i) = Slice(written', Pos(w.idx + i - 1), Pos(w.idx + i))
    BY <1>3, <2>1, <2>5 DEF Chunk
  <2> QED BY <2>2, <2>4, <2>6
<1>20. ASSUME NEW j \in 1..w.idx PROVE Chunk(written', j) = Chunk(written, j)
  <2>1. j \in Nat /\ j - 1 \in Nat /\ (j - 1) + 1 = j
    BY <1>3
  <2>2. Pos(j - 1) \in Nat /\ Pos(j) = Pos(j - 1) + BlockSize /\ Pos(j) \in Nat
    BY <2>1, Places0
  <2>3. Pos(j) <= Pos(w.idx)
    BY <1>3, <2>1, <2>2, Monotone, Size
  <2>4. Pos(j) <= Len(written) /\ Pos(j) <= Len(written') /\ Pos(j - 1) <= Pos(j)
    <3>1. Len(written') >= Len(written) /\ Pos(w.idx) <= Len(written)
      BY <1>2, <1>3, <1>4, <1>10
    <3> QED BY <1>3, <1>4, <1>11, <2>2, <2>3, <3>1, Size
  <2>5. Top(written', j) = Pos(j) /\ Top(written, j) = Pos(j)
    BY <1>4, <1>11, <2>2, <2>4 DEF Top
  <2>6. StandsAt(written, written', 0)
    BY <1>2, <1>4, <1>10 DEF StandsAt
  <2>7. Slice(written, Pos(j - 1), Pos(j)) = Slice(written', 0 + Pos(j - 1), 0 + Pos(j))
    BY <2>2, <2>4, <2>6, SubSame
  <2>8. 0 + Pos(j - 1) = Pos(j - 1) /\ 0 + Pos(j) = Pos(j)
    BY <2>2
  <2>9. Chunk(written', j) = Slice(written', Pos(j - 1), Pos(j))
        /\ Chunk(written, j) = Slice(written, Pos(j - 1), Pos(j))
    BY <2>5 DEF Chunk
  <2> QED BY <2>7, <2>8, <2>9
<1>21. written' # <<>>
  BY <1>2, <1>4, <1>10
<1>22. Grown(a.out)
  BY <1>2, <1>5, <1>7, <1>8, <1>14, <1>19, <1>20, <1>21 DEF Grown
<1> QED BY <1>18, <1>22

(* Every block that was handed over is a block of the file.                *)
LEMMA HandedIs ==
  ASSUME Shape, Accumulates
  PROVE  /\ Handed \in Nat /\ Handed <= Count(written) /\ Count(written) \in Nat
         /\ (w.cur = <<>> => Handed = Count(written))
         /\ (w.cur # <<>> => AtTail)
<1>1. written \in Seq(Byte) /\ w.cur \in Seq(Byte)
  BY DEF Shape
<1>2. Count(written) \in Nat /\ Len(Blocks(written)) = Count(written)
  BY <1>1, BlocksAre
<1>3. CASE w.cur = <<>>
  BY <1>2, <1>3 DEF Handed
<1>4. CASE w.cur # <<>>
  <2>1. AtTail
    BY <1>4 DEF Accumulates, AtTail, TailAt, Pos
  <2>2. w.idx \in Nat /\ Count(written) = w.idx + 1
    BY <1>1, <1>4, <2>1, TailIs DEF AtTail
  <2> QED BY <1>2, <1>4, <2>1, <2>2 DEF Handed
<1> QED BY <1>3, <1>4

LEMMA RightIs ==
  ASSUME Shape, Accumulates, NEW b, b.idx \in Nat
  PROVE  Right(b) <=> b.idx < Handed /\ b.data = Chunk(written, b.idx + 1)
<1>1. Handed \in Nat /\ Handed <= Count(written) /\ Count(written) \in Nat
  BY HandedIs
<1>2. b.idx < Handed => Blocks(written)[b.idx + 1] = Chunk(written, b.idx + 1)
  <2>1. b.idx < Handed => b.idx + 1 \in 1..Count(written)
    BY <1>1
  <2> QED BY <2>1, BlocksAre DEF Shape
<1> QED BY <1>2 DEF Right

LEMMA Parts ==
  ASSUME Shape
  PROVE  \A b \in uploads \cup tokens : b.idx \in Nat /\ b.idx \in 0..MaxSize /\ b.data \in Block
<1>1. uploads \subseteq [n : 1..uploaded, idx : 0..MaxSize, data : Block] /\ tokens \subseteq Token
  BY DEF Shape
<1>2. ASSUME NEW b \in uploads PROVE b.idx \in 0..MaxSize /\ b.data \in Block
  BY <1>1
<1>3. ASSUME NEW b \in tokens PROVE b.idx \in 0..MaxSize /\ b.data \in Block
  BY <1>1 DEF Token
<1>4. \A i \in 0..MaxSize : i \in Nat
  BY Loads
<1> QED BY <1>2, <1>3, <1>4

LEMMA OrderlyWrite ==
  ASSUME Shape, Sizes, OrderlyInv, Orderly, NEW t \in Thread, Writing(t), load' = load
  PROVE  OrderlyInv'
<1>1. MayWrite /\ ~closed /\ place[t] = "idle"
  BY DEF Writing, Write, WriteAt
<1>2. flushes = 0
  BY <1>1 DEF MayWrite, Orderly
<1>3. AtTail
  BY <1>2 DEF OrderlyInv, Accumulates, AtTail, TailAt, Pos
<1>4. PICK out : AtTail' /\ Grown(out)
  BY <1>2, <1>3, Appended
<1>5. /\ touched' = TRUE
      /\ UNCHANGED <<closed, tokens, firstErr, committed, isNew, place, hadBlock, snap, active,
                     flushes, result, faulty>>
  BY DEF Writing, Write, WriteAt, threadVars
<1>6. Shape'
  BY WriteTypes
<1>7. w.idx \in Nat /\ Handed = w.idx
  BY <1>3, TailIs DEF AtTail, Shape, Handed
<1>8. w'.idx \in Nat /\ Handed' = w'.idx
  <2>1. w'.cur \in Seq(Byte) /\ written' \in Seq(Byte)
    BY <1>6, Same DEF Shape
  <2> QED BY <1>4, <2>1, TailIs DEF AtTail, Handed
<1>9. /\ Len(out) \in Nat /\ w'.idx = w.idx + Len(out)
      /\ \A i \in 1..Len(out) : out[i].idx = w.idx + i - 1 /\ out[i].data = Chunk(written', w.idx + i)
      /\ \A j \in 1..w.idx : Chunk(written', j) = Chunk(written, j)
      /\ written' # <<>>
  BY <1>4 DEF Grown
<1>10. /\ uploads \subseteq uploads'
       /\ \A i \in 1..Len(out) : \E u \in uploads' : u.idx = out[i].idx /\ u.data = out[i].data
       /\ \A u \in uploads' \ uploads : \E i \in 1..Len(out) : u.idx = out[i].idx /\ u.data = out[i].data
  BY <1>4, Spawned DEF Grown
<1>11. OneCall /\ Accumulates /\ AllRight /\ Complete /\ Touching /\ Places /\ (firstErr => faulty)
  BY DEF OrderlyInv
<1>12. OneCall'
  BY <1>5, <1>11 DEF OneCall
<1>13. Accumulates'
  BY <1>4 DEF Accumulates, AtTail, TailAt, Pos
<1>14. AllRight'
  <2>1. ASSUME NEW b \in uploads \cup tokens PROVE Right(b)'
    <3>1. b.idx \in Nat /\ b.idx < w.idx /\ b.data = Chunk(written, b.idx + 1)
      BY <1>7, <1>11, Parts, RightIs DEF AllRight
    <3>2. b.idx + 1 \in 1..w.idx /\ b.idx < w'.idx
      BY <1>7, <1>9, <3>1
    <3>3. b.data = Blocks(written')[b.idx + 1]
      <4>1. b.data = Chunk(written', b.idx + 1)
        BY <1>9, <3>1, <3>2
      <4>2. Count(written') \in Nat /\ w'.idx <= Count(written')
        <5>1. w'.cur \in Seq(Byte) /\ written' \in Seq(Byte)
          BY <1>6, Same DEF Shape
        <5> QED BY <1>4, <1>8, <5>1, TailIs DEF AtTail
      <4>3. b.idx + 1 \in 1..Count(written')
        BY <1>7, <1>8, <3>1, <3>2, <4>2
      <4> QED BY <1>6, <4>1, <4>3, BlocksAre, Same DEF Shape
    <3> QED BY <1>8, <3>2, <3>3 DEF Right
  <2>2. ASSUME NEW u \in uploads' \ uploads PROVE Right(u)'
    <3>1. PICK i \in 1..Len(out) : u.idx = out[i].idx /\ u.data = out[i].data
      BY <1>10
    <3>2. u.idx = w.idx + i - 1 /\ u.data = Chunk(written', w.idx + i)
      BY <1>9, <3>1
    <3>3. Count(written') \in Nat /\ w'.idx <= Count(written')
      <4>1. w'.cur \in Seq(Byte) /\ written' \in Seq(Byte)
        BY <1>6, Same DEF Shape
      <4> QED BY <1>4, <1>8, <4>1, TailIs DEF AtTail
    <3>4. u.idx < w'.idx /\ u.idx + 1 = w.idx + i /\ u.idx + 1 \in 1..Count(written')
      BY <1>7, <1>8, <1>9, <3>2, <3>3
    <3>5. Blocks(written')[u.idx + 1] = Chunk(written', u.idx + 1)
      BY <1>6, <3>4, BlocksAre, Same DEF Shape
    <3> QED BY <1>8, <3>2, <3>4, <3>5 DEF Right
  <2> QED BY <1>5, <2>1, <2>2 DEF AllRight
<1>15. ~firstErr => Covered'
  <2> SUFFICES ASSUME ~firstErr, NEW k \in 0..(Handed' - 1)
               PROVE  (\E u \in uploads' : u.idx = k) \/ (\E s \in tokens' : s.idx = k)
    BY DEF Covered
  <2>0. Covered
    BY <1>2, <1>11 DEF Complete
  <2>1. CASE k < w.idx
    <3>1. k \in 0..(Handed - 1)
      BY <1>7, <1>8, <2>1
    <3> QED BY <1>5, <1>10, <2>0, <3>1 DEF Covered
  <2>2. CASE k >= w.idx
    <3>1. k - w.idx + 1 \in 1..Len(out) /\ w.idx + (k - w.idx + 1) - 1 = k
      BY <1>7, <1>8, <1>9, <2>2
    <3> QED BY <1>9, <1>10, <3>1
  <2> QED BY <1>7, <1>8, <2>1, <2>2
<1>16. Complete'
  BY <1>5, <1>15 DEF Complete
<1>17. Touching'
  BY <1>2, <1>5, <1>9, <1>11 DEF Touching, OneCall
<1>18. Places'
  <2>1. \A s \in Thread : place[s] = "idle" /\ result[s] = "none"
    BY <1>2, <1>11 DEF OneCall
  <2>2. \A s \in Thread : place'[s] = "idle" /\ result'[s] = "none" /\ ~hadBlock'[s]
    BY <1>5, <1>11, <2>1 DEF Places, PlaceOf, Shape
  <2> QED BY <2>2 DEF Places, PlaceOf, AtWait, Waited, Copying, Saved
<1> QED BY <1>5, <1>11, <1>12, <1>13, <1>14, <1>16, <1>17, <1>18 DEF OrderlyInv

(* A Flush, Sync or Close hands the partial block over: from then on all   *)
(* blocks of the file are.                                                 *)
LEMMA OrderlyHandOver ==
  ASSUME Shape, Sizes, OrderlyInv, Orderly, Shape', load' = load,
         NEW t \in Thread, NEW l \in {"fwait", "swait"}, HandOver(t, l),
         l = "swait" => ~isNew,
         \A s \in Thread \ {t} : place[s] = "idle", place[t] \in {"idle", "close"},
         closed' = closed, written' = written, touched' = touched, faulty' = faulty,
         flushes' \in Nat \ {0}
  PROVE  OrderlyInv'
<1>0. OneCall /\ Accumulates /\ AllRight /\ Complete /\ Touching /\ Places /\ (firstErr => faulty)
  BY DEF OrderlyInv
<1>1. /\ Spawn(FlushCur) /\ w' = [w EXCEPT !.cur = <<>>] /\ hadBlock' = [hadBlock EXCEPT ![t] = w.cur # <<>>]
      /\ place' = [place EXCEPT ![t] = l] /\ result' = [result EXCEPT ![t] = "none"]
      /\ UNCHANGED <<tokens, firstErr, committed, isNew, snap, active>>
  BY DEF HandOver, GoOn
<1>2. w'.cur = <<>> /\ w'.idx = w.idx
  BY <1>1 DEF Shape
<1>3. /\ FlushCur \in Seq(BlockRec) /\ Len(FlushCur) \in {0, 1}
      /\ (w.cur = <<>> => FlushCur = <<>>)
      /\ (w.cur # <<>> => Len(FlushCur) = 1 /\ FlushCur[1] = [idx |-> w.idx, data |-> w.cur])
  BY Remainder
<1>4. /\ uploads \subseteq uploads'
      /\ \A i \in 1..Len(FlushCur) : \E u \in uploads' : u.idx = FlushCur[i].idx /\ u.data = FlushCur[i].data
      /\ \A u \in uploads' \ uploads : \E i \in 1..Len(FlushCur) : u.idx = FlushCur[i].idx /\ u.data = FlushCur[i].data
  BY <1>1, <1>3, Spawned
<1>5. /\ Handed \in Nat /\ Handed <= Count(written) /\ Count(written) \in Nat
      /\ (w.cur = <<>> => Handed = Count(written)) /\ (w.cur # <<>> => AtTail)
  BY <1>0, HandedIs
<1>6. Handed' = Count(written) /\ DOMAIN Blocks(written) = 1..Count(written)
      /\ \A j \in 1..Count(written) : Blocks(written)[j] = Chunk(written, j)
  BY <1>2, BlocksAre DEF Handed, Shape
(* the block that is handed over, if there is one *)
<1>7. ASSUME w.cur # <<>>
      PROVE  /\ w.idx \in Nat /\ Handed = w.idx /\ Count(written) = w.idx + 1
             /\ w.cur = Chunk(written, w.idx + 1)
  <2>1. w.cur \in Seq(Byte) /\ written \in Seq(Byte) /\ TailAt(w, written)
    BY <1>5, <1>7 DEF Shape, AtTail
  <2>2. /\ w.idx \in Nat /\ Count(written) = w.idx + 1 /\ Len(written) = Pos(w.idx) + Len(w.cur)
        /\ Len(w.cur) \in 0..(BlockSize - 1) /\ Pos(w.idx) \in Nat
    BY <1>7, <2>1, TailIs
  <2>3. Pos(w.idx + 1) = Pos(w.idx) + BlockSize /\ (w.idx + 1) - 1 = w.idx /\ BlockSize \in Nat
    <3>1. Pos(w.idx + 1) = Pos(w.idx) + BlockSize /\ BlockSize \in Nat
      BY <2>2, Places0, Size
    <3>2. (w.idx + 1) - 1 = w.idx
      BY <2>2
    <3> QED BY <3>1, <3>2
  <2>4. Top(written, w.idx + 1) = Len(written)
    BY <2>2, <2>3 DEF Top
  <2>5. Chunk(written, w.idx + 1) = Slice(written, Pos(w.idx), Len(written))
    BY <2>2, <2>3, <2>4 DEF Chunk
  <2> QED BY <1>7, <2>1, <2>2, <2>5 DEF Slice, TailAt, Handed
<1>8. ASSUME NEW b \in uploads' \cup tokens' PROVE Right(b)'
  <2>1. CASE b \in uploads \cup tokens
    <3>1. b.idx \in Nat /\ b.idx < Handed /\ b.data = Blocks(written)[b.idx + 1]
      BY <1>0, <2>1, Parts DEF AllRight, Right
    <3>2. b.idx < Handed'
      BY <1>5, <1>6, <3>1
    <3> QED BY <3>1, <3>2 DEF Right
  <2>2. CASE b \in uploads' \ uploads
    <3>1. w.cur # <<>> /\ b.idx = w.idx /\ b.data = w.cur
      BY <1>3, <1>4, <2>2
    <3>2. b.idx < Handed' /\ b.data = Blocks(written)[b.idx + 1]
      BY <1>6, <1>7, <3>1
    <3> QED BY <3>2 DEF Right
  <2> QED BY <1>1, <2>1, <2>2
<1>9. ASSUME Covered PROVE Covered'
  <2> SUFFICES ASSUME NEW k \in 0..(Handed' - 1)
               PROVE  (\E u \in uploads' : u.idx = k) \/ (\E s \in tokens' : s.idx = k)
    BY DEF Covered
  <2>1. CASE k \in 0..(Handed - 1)
    BY <1>1, <1>4, <1>9, <2>1 DEF Covered
  <2>2. CASE k \notin 0..(Handed - 1)
    <3>1. w.cur # <<>> /\ k = w.idx
      BY <1>5, <1>6, <1>7, <2>2
    <3> QED BY <1>3, <1>4, <3>1
  <2> QED BY <2>1, <2>2
<1>10. ASSUME Spent PROVE Spent'
  <2>1. w.cur = <<>> /\ uploads = {}
    BY <1>10 DEF Spent
  <2>2. uploads' = {}
    BY <1>3, <1>4, <2>1
  <2> QED BY <1>1, <1>2, <1>10, <2>2 DEF Spent, Expected
<1>11. Complete'
  BY <1>0, <1>1, <1>9, <1>10 DEF Complete
<1>12. Touching' /\ Accumulates'
  BY <1>0, <1>1, <1>2 DEF Touching, Accumulates, Expected
<1>13. place \in [Thread -> Place] /\ hadBlock \in [Thread -> BOOLEAN] /\ result \in [Thread -> {"none", "ok", "err"}]
  BY DEF Shape
<1>14. OneCall'
  BY <1>0, <1>1, <1>13 DEF OneCall
<1>15. hadBlock'[t] => touched /\ uploads' # {}
  <2>1. hadBlock'[t] => w.cur # <<>>
    BY <1>1, <1>13
  <2>2. w.cur # <<>> => uploads' # {}
    BY <1>3, <1>4
  <2>3. w.cur # <<>> => written # <<>>
    <3>1. w.cur # <<>> => Len(Blocks(written)) # 0
      BY <1>5, <1>7, BlocksAre DEF Shape
    <3>2. Count(<<>>) = 0
      <4>1. <<>> \in Seq(Byte) /\ Len(<<>>) = Pos(0) + 0 /\ 0 \in 0..(BlockSize - 1)
        BY Size, Places0
      <4> QED BY <4>1, CountIs
    <3> QED BY <1>7, <3>2
  <2> QED BY <1>0, <2>1, <2>2, <2>3 DEF Touching
<1>16. Places'
  <2>1. \A s \in Thread \ {t} : place'[s] = "idle" /\ hadBlock'[s] = hadBlock[s] /\ result'[s] = result[s]
    BY <1>1, <1>13
  <2>2. place'[t] = l /\ result'[t] = "none"
    BY <1>1, <1>13
  <2>3. ASSUME NEW s \in Thread
        PROVE  /\ place'[s] \notin Waited /\ place'[s] \notin Copying /\ place'[s] \notin {"fupdate", "supdate"}
               /\ place'[s] \notin Saved
               /\ place'[s] \in {"swait", "sread", "scopy", "supdate", "screate", "sreset", "sclear"} => ~isNew
               /\ hadBlock'[s] => /\ place'[s] \notin {"idle", "close"} /\ touched
                                  /\ ~firstErr => uploads' # {}
               /\ result'[s] = "ok" => active = Expected
               /\ result'[s] = "err" => faulty
    <3>1. ~hadBlock[s] \/ s = t
      BY <1>0 DEF Places, PlaceOf
    <3> QED BY <1>0, <1>15, <2>1, <2>2, <3>1 DEF Places, PlaceOf, Waited, Copying, Saved
  <2>4. Expected' = Expected
    BY DEF Expected
  <2> QED BY <1>1, <1>2, <2>3, <2>4 DEF Places, PlaceOf
<1> QED BY <1>0, <1>1, <1>8, <1>11, <1>12, <1>14, <1>16 DEF OrderlyInv, AllRight

LEMMA OrderlyUpload ==
  ASSUME Shape, Sizes, OrderlyInv, Orderly, Shape', load' = load,
         NEW u \in uploads, UploadOK(u) \/ UploadFails(u)
  PROVE  OrderlyInv'
<1>0. OneCall /\ Accumulates /\ AllRight /\ Complete /\ Touching /\ Places /\ (firstErr => faulty)
  BY DEF OrderlyInv
<1>1. /\ uploads' = uploads \ {u}
      /\ UNCHANGED <<w, closed, committed, isNew, place, hadBlock, snap, active, written, flushes,
                     touched, result>>
  BY DEF UploadOK, UploadFails, threadVars, history
<1>2. Handed' = Handed /\ Expected' = Expected
  BY <1>1 DEF Handed, Expected, Blocks
<1>3. \A t \in Thread : place[t] \notin Waited
  BY <1>0 DEF Places, PlaceOf
<1>4. \A t \in Thread : place[t] \notin Copying /\ place[t] \notin {"fupdate", "supdate"} /\ place[t] \notin Saved
  BY <1>3 DEF Waited, Copying, Saved
<1>5. OneCall' /\ Accumulates' /\ Touching'
  BY <1>0, <1>1, <1>2 DEF OneCall, Accumulates, Touching
<1>6. CASE UploadOK(u)
  <2>1. /\ tokens' = {s \in tokens : s.idx # u.idx} \cup {[idx |-> u.idx, data |-> u.data]}
        /\ firstErr' = firstErr /\ faulty' = faulty
    BY <1>6 DEF UploadOK, history
  <2>2. Right([idx |-> u.idx, data |-> u.data])
    BY <1>0 DEF AllRight, Right
  <2>3. \A b \in uploads' \cup tokens' : Right(b)
    BY <1>0, <1>1, <2>1, <2>2 DEF AllRight
  <2>4. AllRight'
    BY <1>1, <1>2, <2>3 DEF AllRight, Right
  <2>5. tokens' # {}
    BY <2>1
  <2>6. Covered => Covered'
    <3> SUFFICES ASSUME Covered, NEW k \in 0..(Handed - 1)
                 PROVE  (\E v \in uploads' : v.idx = k) \/ (\E s \in tokens' : s.idx = k)
      BY <1>2 DEF Covered
    <3>1. CASE k = u.idx
      <4>1. [idx |-> u.idx, data |-> u.data] \in tokens'
        BY <2>1
      <4> QED BY <3>1, <4>1
    <3>2. CASE k # u.idx
      BY <1>1, <2>1, <3>2 DEF Covered
    <3> QED BY <3>1, <3>2
  <2>7. ~Spent
    BY DEF Spent
  <2>8. Complete'
    BY <1>0, <1>1, <2>1, <2>6, <2>7 DEF Complete
  <2>9. Places'
    BY <1>0, <1>1, <1>2, <1>3, <1>4, <2>1, <2>5 DEF Places, PlaceOf
  <2> QED BY <1>0, <1>5, <2>1, <2>4, <2>8, <2>9 DEF OrderlyInv
<1>7. CASE UploadFails(u)
  <2>1. firstErr' /\ faulty' /\ tokens' = tokens
    BY <1>7 DEF UploadFails
  <2>2. AllRight'
    BY <1>0, <1>1, <1>2, <2>1 DEF AllRight, Right
  <2>3. Complete'
    BY <2>1 DEF Complete
  <2>4. Places'
    BY <1>0, <1>1, <1>2, <1>3, <1>4, <2>1 DEF Places, PlaceOf
  <2> QED BY <1>5, <2>1, <2>2, <2>3, <2>4 DEF OrderlyInv
<1> QED BY <1>6, <1>7

(* Once nothing is uploaded any more, the tokens name the whole file.      *)
LEMMA TokensAre ==
  ASSUME Shape, Accumulates, uploads = {}, w.cur = <<>>, Covered, AllRight
  PROVE  /\ Contiguous(tokens) /\ BlocksOf(tokens) = Blocks(written)
         /\ (tokens = {} => written = <<>>)
<1>1. /\ Handed = Count(written) /\ Count(written) \in Nat /\ Len(Blocks(written)) = Count(written)
      /\ Blocks(written) = [j \in 1..Count(written) |-> Chunk(written, j)]
  BY HandedIs, BlocksAre DEF Shape
<1> DEFINE K == Count(written)
<1> HIDE DEF K
<1>2. K \in Nat /\ Handed = K
  BY <1>1 DEF K
<1>3. /\ \A s \in tokens : s.idx \in 0..(K - 1) /\ s.data = Blocks(written)[s.idx + 1]
      /\ \A k \in 0..(K - 1) : \E s \in tokens : s.idx = k
      /\ \A s, t \in tokens : s.idx = t.idx => s = t
  <2>1. \A s \in tokens : s.idx \in Nat
    BY Parts
  <2> QED BY <1>2, <2>1 DEF AllRight, Right, Covered, Shape
<1>4. {s.idx : s \in tokens} = 0..(K - 1)
  BY <1>3
<1>5. Cardinality(tokens) = K
  <2> DEFINE f == [s \in tokens |-> s.idx]
  <2>1. f \in [tokens -> 0..(K - 1)] /\ \A s \in tokens : f[s] = s.idx
    BY <1>3
  <2> HIDE DEF f
  <2>2. f \in Bijection(tokens, 0..(K - 1))
    BY <1>3, <2>1 DEF Bijection, Injection, Surjection, IsInjective
  <2>3. IsFiniteSet(tokens) /\ IsFiniteSet(0..(K - 1)) /\ Cardinality(0..(K - 1)) = K
    BY <1>2, Finite, FS_Interval
  <2>4. ExistsBijection(tokens, 0..(K - 1))
    BY <2>2 DEF ExistsBijection
  <2>5. Cardinality(0..(K - 1)) = Cardinality(tokens)
    BY <2>3, <2>4, FS_Bijection
  <2> QED BY <2>3, <2>5
<1>6. Contiguous(tokens)
  BY <1>4, <1>5 DEF Contiguous
<1>7. BlocksOf(tokens) = Blocks(written)
  <2>1. ASSUME NEW i \in 1..K PROVE (CHOOSE s \in tokens : s.idx = i - 1).data = Chunk(written, i)
    <3>1. i - 1 \in 0..(K - 1) /\ (i - 1) + 1 = i
      BY <1>2
    <3>2. PICK s \in tokens : s.idx = i - 1
      BY <1>3, <3>1
    <3>3. (CHOOSE x \in tokens : x.idx = i - 1) = s
      BY <1>3, <3>2
    <3>4. s.data = Blocks(written)[i]
      BY <1>3, <3>1, <3>2
    <3>5. Blocks(written)[i] = Chunk(written, i)
      BY <1>1 DEF K
    <3> QED BY <3>3, <3>4, <3>5
  <2>2. BlocksOf(tokens) = [i \in 1..K |-> (CHOOSE s \in tokens : s.idx = i - 1).data]
    BY <1>5 DEF BlocksOf
  <2>3. Blocks(written) = [i \in 1..K |-> Chunk(written, i)]
    BY <1>1 DEF K
  <2> QED BY <2>1, <2>2, <2>3
<1>8. tokens = {} => written = <<>>
  <2> SUFFICES ASSUME tokens = {} PROVE written = <<>>
    OBVIOUS
  <2>1. K = 0
    BY <1>2, <1>4
  <2>2. (Len(written) + BlockSize - 1) \div BlockSize = 0 /\ Len(written) \in Nat
    BY <2>1 DEF K, Count, Shape
  <2>3. Len(written) + BlockSize - 1 \in Nat
    BY <2>2, Size
  <2>4. /\ (Len(written) + BlockSize - 1) % BlockSize \in 0..(BlockSize - 1)
        /\ Len(written) + BlockSize - 1 = Pos(0) + ((Len(written) + BlockSize - 1) % BlockSize)
    BY <2>2, <2>3, Divide
  <2>5. Len(written) = 0
    BY <2>2, <2>4, Size, Places0
  <2> QED BY <2>5 DEF Shape
<1> QED BY <1>6, <1>7, <1>8

(* A step of one call while no other runs: what is left to show of it.     *)
LEMMA OrderlyTurn ==
  ASSUME Shape, Sizes, OrderlyInv, Orderly, Shape', load' = load, NEW t \in Thread, NEW l, Turn(t, l),
         Kept, \A s \in Thread \ {t} : place[s] = "idle",
         w' = w \/ (w.cur = <<>> /\ w'.cur = <<>>), tokens' \subseteq tokens,
         flushes' # 0, (~firstErr' => Covered' \/ Spent'), (firstErr' => firstErr), (faulty => faulty'),
         active' = active \/ (active' = Expected /\ touched), committed' => committed \/ active' = Expected,
         PlaceOf(t)'
  PROVE  OrderlyInv'
<1>0. OneCall /\ Accumulates /\ AllRight /\ Complete /\ Touching /\ Places /\ (firstErr => faulty)
  BY DEF OrderlyInv
<1>1. /\ uploads' = uploads /\ isNew' = isNew /\ written' = written /\ touched' = touched
      /\ place \in [Thread -> Place]
      /\ \A s \in Thread \ {t} : /\ place'[s] = "idle" /\ hadBlock'[s] = hadBlock[s]
                                 /\ result'[s] = result[s]
  BY DEF Turn, Kept, Shape
<1>2. Handed' = Handed /\ Expected' = Expected
  BY <1>1 DEF Handed, Expected, Blocks
<1>3. OneCall'
  BY <1>1 DEF OneCall
<1>4. Accumulates'
  <2>1. w'.cur # <<>> => w' = w
    OBVIOUS
  <2> QED BY <1>0, <1>1, <2>1 DEF Accumulates
<1>5. AllRight'
  BY <1>0, <1>1, <1>2 DEF AllRight, Right
<1>6. Complete'
  BY DEF Complete
<1>7. active = Expected => active' = Expected
  OBVIOUS
<1>8. Touching'
  BY <1>0, <1>1, <1>2, <1>7 DEF Touching
<1>9. Places'
  <2>1. ASSUME NEW s \in Thread \ {t} PROVE PlaceOf(s)'
    <3>1. ~hadBlock'[s] /\ (result'[s] = "ok" => active' = Expected) /\ (result'[s] = "err" => faulty')
      BY <1>0, <1>1, <1>7 DEF Places, PlaceOf
    <3>2. place'[s] \notin AtWait \cup Waited /\ place'[s] \notin Copying /\ place'[s] \notin Saved
      BY <1>1 DEF AtWait, Waited, Copying, Saved
    <3> QED BY <1>1, <1>2, <3>1, <3>2 DEF PlaceOf
  <2> QED BY <2>1 DEF Places
<1> QED BY <1>0, <1>3, <1>4, <1>5, <1>6, <1>8, <1>9 DEF OrderlyInv

LEMMA OrderlyCall ==
  ASSUME Shape, Sizes, OrderlyInv, Orderly, Shape', load' = load, NEW t \in Thread,
         \/ Close(t) \/ Wait(t) \/ Decide(t) \/ CopyTokens(t) \/ UpdateRevision(t)
         \/ FlushDone(t) \/ CreateRevision(t) \/ SyncReset(t) \/ SyncClear(t)
  PROVE  OrderlyInv'
<1>0. /\ OneCall /\ Accumulates /\ AllRight /\ Complete /\ Touching /\ PlaceOf(t)
      /\ (firstErr => faulty)
  BY DEF OrderlyInv, Places
<1>p. {"idle", "close", "fread", "sread", "fcopy", "scopy", "fdone", "screate", "sreset", "sclear",
       "fupdate", "supdate"} \subseteq Place
  BY DEF Place
<1>t. /\ place \in [Thread -> Place] /\ hadBlock \in [Thread -> BOOLEAN] /\ snap \in [Thread -> SUBSET Token]
      /\ result \in [Thread -> {"none", "ok", "err"}] /\ firstErr \in BOOLEAN /\ faulty \in BOOLEAN
      /\ flushes \in Nat
  <2>1. flushes \in 0..MaxFlushes /\ MaxFlushes \in Nat
    BY Loads DEF Shape
  <2>2. flushes \in Nat
    BY <2>1
  <2> QED BY <2>2 DEF Shape
<1>o. place[t] # "idle" => flushes # 0 /\ \A s \in Thread \ {t} : place[s] = "idle"
  BY <1>0 DEF OneCall
<1>1. CASE Close(t)
  <2>1. /\ Kept /\ w' = w /\ UNCHANGED <<tokens, firstErr, committed, active, faulty>>
        /\ flushes' = flushes + 1 /\ Busy = {} /\ place[t] = "idle"
    BY <1>1 DEF Close, Called, Kept, Orderly
  <2>2. \A s \in Thread \ {t} : place[s] = "idle"
    BY <2>1 DEF Busy
  <2>3. flushes' # 0
    BY <1>t, <2>1
  <2>4. Complete => (~firstErr' => Covered' \/ Spent')
    BY <2>1 DEF Complete, Covered, Spent, Handed, Expected, Blocks, Kept
  <2>5. \E l : Turn(t, l) /\ PlaceOf(t)'
    <3>1. CASE closed
      <4>1. Return(t, "none")
        BY <1>1, <3>1 DEF Close
      <4>2. Turn(t, "idle") /\ result'[t] = "none" /\ hadBlock'[t] = FALSE /\ place'[t] = "idle"
        BY <1>t, <4>1, Returned DEF Return, GoOn
      <4> QED BY <4>2 DEF PlaceOf, AtWait, Waited, Copying, Saved
    <3>2. CASE ~closed
      <4>1. GoOn(t, "close") /\ Stay
        BY <1>1, <3>2 DEF Close
      <4>2. Turn(t, "close") /\ UNCHANGED <<hadBlock, result, snap>> /\ place'[t] = "close"
        BY <1>p, <1>t, <4>1, Stayed DEF GoOn
      <4>3. ~hadBlock'[t]
        BY <1>0, <2>1, <4>2 DEF PlaceOf
      <4>4. Expected' = Expected
        BY <2>1 DEF Expected, Blocks, Kept
      <4> QED BY <1>0, <2>1, <4>2, <4>3, <4>4 DEF PlaceOf, AtWait, Waited, Copying, Saved
    <3> QED BY <3>1, <3>2
  <2> QED BY <1>0, <2>1, <2>2, <2>3, <2>4, <2>5, OrderlyTurn
(* the other steps go on with a call that was made *)
<1> DEFINE SameBlocks == Kept /\ w' = w /\ UNCHANGED <<firstErr, flushes, closed>>
<1>s. ASSUME SameBlocks PROVE Handed' = Handed /\ Expected' = Expected /\ uploads' = uploads
  BY <1>s DEF Handed, Expected, Blocks, Kept
<1>c. ASSUME SameBlocks, tokens' = tokens, committed' = committed, active' = active
      PROVE  (~firstErr' => Covered' \/ Spent') /\ (Covered => Covered')
  BY <1>0, <1>s, <1>c DEF Complete, Covered, Spent, Kept
<1>2. CASE Wait(t)
  <2>1. /\ SameBlocks /\ UNCHANGED <<tokens, committed, active, faulty>>
        /\ place[t] \in {"fwait", "swait"} /\ uploads = {}
        /\ GoOn(t, IF place[t] = "fwait" THEN "fread" ELSE "sread") /\ Stay
    BY <1>2 DEF Wait, Kept, NoHistory, SameCalls, fdVars
  <2> HIDE DEF SameBlocks
  <2>2. PICK l \in {"fread", "sread"} : GoOn(t, l) /\ (l = "sread" => place[t] = "swait")
    BY <2>1
  <2>3. Turn(t, l) /\ UNCHANGED <<hadBlock, result, snap>> /\ place'[t] = l
    BY <1>p, <1>t, <2>1, <2>2, Stayed DEF GoOn
  <2>4. PlaceOf(t)'
    BY <1>0, <1>s, <2>1, <2>2, <2>3 DEF PlaceOf, AtWait, Waited, Copying, Saved, SameBlocks, Kept
  <2> QED BY <1>o, <1>c, <2>1, <2>3, <2>4, OrderlyTurn DEF SameBlocks
<1>3. CASE Decide(t)
  <2>1. /\ SameBlocks /\ UNCHANGED <<tokens, committed, active, faulty>> /\ place[t] \in {"fread", "sread"}
    BY <1>3 DEF Decide, Kept, NoHistory, SameCalls, fdVars
  <2>2. /\ uploads = {} /\ w.cur = <<>> /\ (place[t] = "sread" => ~isNew)
    BY <1>0, <2>1 DEF PlaceOf, Waited, AtWait
  <2> HIDE DEF SameBlocks
  <2>3. \E l : Turn(t, l) /\ PlaceOf(t)'
    <3>1. CASE UploadFailed(t) /\ Return(t, "err")
      <4>1. Turn(t, "idle") /\ result'[t] = "err" /\ ~hadBlock'[t] /\ place'[t] = "idle"
        BY <1>t, <3>1, Returned DEF Return, GoOn
      <4>2. faulty'
        BY <1>0, <2>1, <3>1 DEF UploadFailed
      <4> QED BY <4>1, <4>2 DEF PlaceOf, AtWait, Waited, Copying, Saved
    <3>2. CASE ~UploadFailed(t) /\ NothingToCommit(t) /\ Return(t, IF place[t] = "fread" THEN "ok" ELSE "none")
      <4>1. /\ Turn(t, "idle") /\ ~hadBlock'[t] /\ place'[t] = "idle"
            /\ result'[t] = IF place[t] = "fread" THEN "ok" ELSE "none"
        BY <1>t, <3>2, Returned DEF Return, GoOn
      <4>2. place[t] = "fread" => active = Expected
        <5> SUFFICES ASSUME place[t] = "fread", ~Spent PROVE active = Expected
          BY DEF Spent
        <5>1. Covered /\ tokens = {} /\ ~(isNew /\ ~committed)
          BY <1>0, <3>2 DEF NothingToCommit, Complete, UploadFailed
        <5>2. written = <<>>
          BY <1>0, <2>2, <5>1, TokensAre
        <5> QED BY <1>0, <5>1, <5>2 DEF Touching, Expected
      <4>3. place[t] = "fread" => active' = Expected'
        BY <1>s, <2>1, <4>2
      <4> QED BY <4>1, <4>3 DEF PlaceOf, AtWait, Waited, Copying, Saved
    <3>3. CASE ~UploadFailed(t) /\ ~NothingToCommit(t) /\ Stay
               /\ GoOn(t, IF place[t] = "fread" THEN "fcopy" ELSE "scopy")
      <4>1. PICK l \in {"fcopy", "scopy"} : GoOn(t, l) /\ (l = "scopy" => place[t] = "sread")
        BY <2>1, <3>3
      <4>2. Turn(t, l) /\ UNCHANGED <<hadBlock, result, snap>> /\ place'[t] = l
        BY <1>p, <1>t, <3>3, <4>1, Stayed DEF GoOn
      <4>3. ~firstErr
        BY <3>3 DEF UploadFailed
      <4>4. Covered /\ touched
        <5>1. CASE tokens # {}
          <6>1. Covered
            BY <1>0, <4>3, <5>1 DEF Complete, Spent
          <6>2. written # <<>>
            <7>1. PICK s \in tokens : s.idx \in Nat /\ s.idx < Handed
              BY <1>0, <5>1, Parts DEF AllRight, Right
            <7>2. Handed = Count(written) /\ Count(written) \in Nat
              BY <1>0, <2>2, HandedIs
            <7>3. Count(<<>>) = 0
              <8>1. <<>> \in Seq(Byte) /\ Len(<<>>) = Pos(0) + 0 /\ 0 \in 0..(BlockSize - 1)
                BY Size, Places0
              <8> QED BY <8>1, CountIs
            <7> QED BY <7>1, <7>2, <7>3
          <6> QED BY <1>0, <6>1, <6>2 DEF Touching
        <5>2. CASE tokens = {}
          <6>1. place[t] = "fread" /\ ~hadBlock[t] /\ isNew /\ ~committed
            BY <1>0, <2>1, <2>2, <3>3, <4>3, <5>2 DEF NothingToCommit, PlaceOf
          <6> QED BY <1>0, <4>3, <6>1 DEF Complete, Spent, Touching
        <5> QED BY <5>1, <5>2
      <4>5. Covered' /\ touched' /\ ~firstErr'
        BY <1>c, <2>1, <4>3, <4>4 DEF SameBlocks, Kept
      <4> QED BY <1>0, <1>s, <2>1, <2>2, <4>1, <4>2, <4>5 DEF PlaceOf, AtWait, Waited, Copying, Saved, SameBlocks, Kept
    <3> QED BY <1>3, <3>1, <3>2, <3>3 DEF Decide
  <2> QED BY <1>o, <1>c, <2>1, <2>3, OrderlyTurn DEF SameBlocks
<1>4. CASE CopyTokens(t)
  <2>1. /\ SameBlocks /\ UNCHANGED <<tokens, committed, active, faulty>> /\ place[t] \in {"fcopy", "scopy"}
    BY <1>4 DEF CopyTokens, Kept, NoHistory, SameCalls, fdVars
  <2> HIDE DEF SameBlocks
  <2>2. /\ uploads = {} /\ w.cur = <<>> /\ (place[t] = "scopy" => ~isNew) /\ ~firstErr /\ Covered /\ touched
    BY <1>0, <2>1 DEF PlaceOf, Waited, AtWait, Copying
  <2>3. Contiguous(tokens)
    BY <1>0, <2>2, TokensAre
  <2>4. /\ snap' = [snap EXCEPT ![t] = tokens] /\ UNCHANGED <<hadBlock, result>>
        /\ GoOn(t, IF place[t] = "fcopy" THEN "fupdate" ELSE "supdate")
    BY <1>4, <2>3 DEF CopyTokens
  <2>5. PICK l \in {"fupdate", "supdate"} : GoOn(t, l) /\ (l = "supdate" => place[t] = "scopy")
    BY <2>1, <2>4
  <2>6. Turn(t, l) /\ place'[t] = l /\ snap'[t] = tokens
    BY <1>p, <1>t, <2>4, <2>5 DEF GoOn, Turn, Shape
  <2>7. Covered' /\ touched' /\ ~firstErr'
    BY <1>c, <2>1, <2>2 DEF SameBlocks, Kept
  <2>8. PlaceOf(t)'
    BY <1>0, <1>s, <2>1, <2>2, <2>4, <2>5, <2>6, <2>7 DEF PlaceOf, AtWait, Waited, Copying, Saved, SameBlocks, Kept
  <2> QED BY <1>o, <1>c, <2>1, <2>6, <2>8, OrderlyTurn DEF SameBlocks
<1>5. CASE UpdateRevision(t)
  <2>1. /\ SameBlocks /\ UNCHANGED <<tokens, committed>> /\ place[t] \in {"fupdate", "supdate"}
    BY <1>5 DEF UpdateRevision, Kept, SameCalls, fdVars
  <2> HIDE DEF SameBlocks
  <2>2. /\ uploads = {} /\ w.cur = <<>> /\ (place[t] = "supdate" => ~isNew) /\ ~firstErr /\ Covered /\ touched
        /\ snap[t] = tokens
    BY <1>0, <2>1 DEF PlaceOf, Waited, AtWait, Copying
  <2>3. Covered'
    BY <1>s, <2>1, <2>2 DEF Covered
  <2>4. CASE active' = Active(BlocksOf(snap[t])) /\ Stay /\ faulty' = faulty
             /\ GoOn(t, IF place[t] = "fupdate" THEN "fdone" ELSE "screate")
    <3>1. active' = Expected
      BY <1>0, <2>2, <2>4, TokensAre DEF Expected
    <3>2. PICK l \in {"fdone", "screate"} : GoOn(t, l) /\ (l = "screate" => place[t] = "supdate")
      BY <2>1, <2>4
    <3>3. Turn(t, l) /\ UNCHANGED <<hadBlock, result, snap>> /\ place'[t] = l
      BY <1>p, <1>t, <2>4, <3>2, Stayed DEF GoOn
    <3>4. PlaceOf(t)'
      BY <1>0, <1>s, <2>1, <2>2, <2>4, <3>1, <3>2, <3>3 DEF PlaceOf, AtWait, Waited, Copying, Saved, SameBlocks, Kept
    <3> QED BY <1>o, <2>1, <2>2, <2>3, <2>4, <3>1, <3>3, <3>4, OrderlyTurn DEF SameBlocks
  <2>5. CASE faulty' = TRUE /\ Return(t, "err") /\ active' = active
    <3>1. Turn(t, "idle") /\ result'[t] = "err" /\ ~hadBlock'[t] /\ place'[t] = "idle"
      BY <1>t, <2>5, Returned DEF Return, GoOn
    <3>2. PlaceOf(t)'
      BY <2>5, <3>1 DEF PlaceOf, AtWait, Waited, Copying, Saved
    <3> QED BY <1>o, <2>1, <2>3, <2>5, <3>1, <3>2, OrderlyTurn DEF SameBlocks
  <2> QED BY <1>5, <2>4, <2>5 DEF UpdateRevision
<1>6. CASE FlushDone(t)
  <2>1. /\ SameBlocks /\ UNCHANGED <<active, faulty>> /\ tokens' = {} /\ committed' = TRUE /\ place[t] = "fdone"
        /\ Return(t, "ok")
    BY <1>6 DEF FlushDone, Kept, NoHistory, SameCalls
  <2> HIDE DEF SameBlocks
  <2>2. /\ uploads = {} /\ w.cur = <<>> /\ active = Expected
    BY <1>0, <2>1 DEF PlaceOf, Waited, AtWait, Saved
  <2>3. Spent'
    BY <1>s, <2>1, <2>2 DEF Spent, SameBlocks
  <2>4. Turn(t, "idle") /\ result'[t] = "ok" /\ ~hadBlock'[t] /\ place'[t] = "idle"
    BY <1>t, <2>1, Returned DEF Return, GoOn
  <2>5. PlaceOf(t)'
    BY <1>s, <2>1, <2>2, <2>4 DEF PlaceOf, AtWait, Waited, Copying, Saved
  <2> QED BY <1>o, <2>1, <2>2, <2>3, <2>4, <2>5, OrderlyTurn DEF SameBlocks
<1>7. CASE CreateRevision(t)
  <2>1. /\ SameBlocks /\ UNCHANGED <<active, tokens, committed>> /\ place[t] = "screate"
    BY <1>7 DEF CreateRevision, Kept, SameCalls, fdVars
  <2> HIDE DEF SameBlocks
  <2>2. /\ uploads = {} /\ w.cur = <<>> /\ active = Expected /\ ~isNew
    BY <1>0, <2>1 DEF PlaceOf, Waited, AtWait, Saved
  <2>3. CASE GoOn(t, "sreset") /\ Stay /\ faulty' = faulty
    <3>1. Turn(t, "sreset") /\ UNCHANGED <<hadBlock, result, snap>> /\ place'[t] = "sreset"
      BY <1>p, <1>t, <2>3, Stayed DEF GoOn
    <3>2. PlaceOf(t)'
      BY <1>0, <1>s, <2>1, <2>2, <2>3, <3>1 DEF PlaceOf, AtWait, Waited, Copying, Saved, SameBlocks, Kept
    <3> QED BY <1>o, <1>c, <2>1, <2>3, <3>1, <3>2, OrderlyTurn DEF SameBlocks
  <2>4. CASE faulty' = TRUE /\ Return(t, "err")
    <3>1. Turn(t, "idle") /\ result'[t] = "err" /\ ~hadBlock'[t] /\ place'[t] = "idle"
      BY <1>t, <2>4, Returned DEF Return, GoOn
    <3>2. PlaceOf(t)'
      BY <2>4, <3>1 DEF PlaceOf, AtWait, Waited, Copying, Saved
    <3> QED BY <1>o, <1>c, <2>1, <2>4, <3>1, <3>2, OrderlyTurn DEF SameBlocks
  <2> QED BY <1>7, <2>3, <2>4 DEF CreateRevision
<1>8. CASE SyncReset(t)
  <2>1. /\ Kept /\ w' = [w EXCEPT !.cur = <<>>, !.idx = 0] /\ place[t] = "sreset" /\ GoOn(t, "sclear") /\ Stay
        /\ UNCHANGED <<active, tokens, committed, firstErr, flushes, closed, faulty>>
    BY <1>8 DEF SyncReset, Kept, NoHistory, SameCalls
  <2>2. /\ uploads = {} /\ w.cur = <<>> /\ active = Expected /\ ~isNew
    BY <1>0, <2>1 DEF PlaceOf, Waited, AtWait, Saved
  <2>3. w'.cur = <<>>
    BY <2>1 DEF Shape
  <2>4. Handed' = Handed /\ Expected' = Expected
    BY <2>1, <2>2, <2>3 DEF Handed, Expected, Blocks, Kept
  <2>5. ~firstErr' => Covered' \/ Spent'
    BY <1>0, <2>1, <2>3, <2>4 DEF Complete, Covered, Spent, Kept
  <2>6. Turn(t, "sclear") /\ UNCHANGED <<hadBlock, result, snap>> /\ place'[t] = "sclear"
    BY <1>p, <1>t, <2>1, Stayed DEF GoOn
  <2>7. PlaceOf(t)'
    BY <1>0, <2>1, <2>2, <2>3, <2>4, <2>6 DEF PlaceOf, AtWait, Waited, Copying, Saved, Kept
  <2> QED BY <1>o, <2>1, <2>2, <2>3, <2>5, <2>6, <2>7, OrderlyTurn
<1>9. CASE SyncClear(t)
  <2>1. /\ Kept /\ w' = w /\ UNCHANGED <<active, committed, flushes, closed, faulty>> /\ tokens' = {}
        /\ firstErr' = FALSE /\ place[t] = "sclear" /\ Return(t, "ok")
    BY <1>9 DEF SyncClear, Kept, NoHistory, SameCalls
  <2>2. /\ uploads = {} /\ w.cur = <<>> /\ active = Expected /\ ~isNew
    BY <1>0, <2>1 DEF PlaceOf, Waited, AtWait, Saved
  <2>3. Expected' = Expected
    BY <2>1 DEF Expected, Blocks, Kept
  <2>4. Spent'
    BY <2>1, <2>2, <2>3 DEF Spent, Kept
  <2>5. Turn(t, "idle") /\ result'[t] = "ok" /\ ~hadBlock'[t] /\ place'[t] = "idle"
    BY <1>t, <2>1, Returned DEF Return, GoOn
  <2>6. PlaceOf(t)'
    BY <2>1, <2>2, <2>3, <2>5 DEF PlaceOf, AtWait, Waited, Copying, Saved
  <2> QED BY <1>o, <2>1, <2>2, <2>4, <2>5, <2>6, OrderlyTurn
<1> QED BY <1>1, <1>2, <1>3, <1>4, <1>5, <1>6, <1>7, <1>8, <1>9

LEMMA OrderlyInit == ASSUME FdInit, Shape PROVE OrderlyInv
<1>1. Len(written) = 0 /\ written \in Seq(Byte) /\ written = <<>> /\ Handed = 0
  <2>1. written = <<>> /\ w.cur = <<>> /\ <<>> \in Seq(Byte)
    BY DEF FdInit
  <2>2. Count(<<>>) = 0
    <3>1. Len(<<>>) = Pos(0) + 0 /\ 0 \in 0..(BlockSize - 1) /\ <<>> \in Seq(Byte)
      BY Size, Places0
    <3> QED BY <3>1, CountIs
  <2> QED BY <2>1, <2>2, BlocksAre DEF Handed
<1>2. Accumulates
  <2>1. w.idx = 0 /\ w.cur = <<>>
    BY DEF FdInit
  <2>2. Len(written) = Pos(0) + 0 /\ 0 \in 0..(BlockSize - 1)
    BY <1>1, Size, Places0
  <2>3. Len(written) \div BlockSize = 0
    BY <2>2, Quotient
  <2>4. 0 \in 0..Len(written) /\ 0 * BlockSize = 0
    BY <1>1, Size
  <2>5. SubSeq(written, 0 + 1, 0) = <<>>
    <3>1. SubSeq(written, 0 + 1, 0) \in Seq(Byte) /\ Len(SubSeq(written, 0 + 1, 0)) = 0
      BY <1>1, <2>4, Part
    <3> QED BY <3>1
  <2> QED BY <1>1, <2>1, <2>3, <2>4, <2>5 DEF Accumulates
<1>3. OneCall /\ AllRight /\ Touching
  BY <1>1 DEF FdInit, OneCall, AllRight, Touching, Expected
<1>4. Complete
  BY <1>1 DEF Complete, Covered
<1>5. Places
  BY DEF FdInit, Places, PlaceOf, AtWait, Waited, Copying, Saved
<1> QED BY <1>2, <1>3, <1>4, <1>5 DEF OrderlyInv, FdInit

LEMMA OrderlyStep ==
  ASSUME Shape, Sizes, OrderlyInv, Shape', [FdNext]_fdAll
  PROVE  OrderlyInv'
<1>1. CASE UNCHANGED fdAll
  BY <1>1 DEF fdAll, fdVars, threadVars, history, OrderlyInv, Orderly, Usage, OneCall, Accumulates,
              AllRight, Right, Handed, Complete, Covered, Spent, Touching, Expected, Blocks, Places, PlaceOf
<1> SUFFICES ASSUME Orderly, FdNext PROVE OrderlyInv'
  <2>1. FdNext => load' = load
    BY DEF FdNext, Upload, CallStep, Call
  <2>2. FdNext => (Orderly' => Orderly)
    BY <2>1, Same
  <2> QED BY <1>1, <2>2 DEF OrderlyInv
<1>0. OneCall /\ \A t \in Thread : PlaceOf(t)
  BY DEF OrderlyInv, Places
<1>2. CASE Upload
  BY <1>2, OrderlyUpload DEF Upload
<1>3. ASSUME NEW t \in Thread, CallStep(t) PROVE OrderlyInv'
  <2>0. load' = load
    BY <1>3 DEF CallStep
  <2>1. CASE CloseFlush(t)
    <3>1. flushes \in Nat \ {0} /\ \A s \in Thread \ {t} : place[s] = "idle"
      BY <1>0, <2>1, Loads DEF CloseFlush, OneCall, Shape
    <3>2. /\ HandOver(t, "fwait") /\ UNCHANGED <<closed, written, flushes, touched, faulty>>
          /\ place[t] = "close"
      BY <2>1 DEF CloseFlush
    <3> QED BY <2>0, <3>1, <3>2, OrderlyHandOver
  <2> QED BY <1>3, <2>0, <2>1, OrderlyCall DEF CallStep
<1>4. ASSUME NEW t \in Thread, Call(t) PROVE OrderlyInv'
  <2>0. load' = load
    BY <1>4 DEF Call
  <2>1. CASE Flush(t) \/ Sync(t)
    <3>1. flushes' \in Nat \ {0} /\ Busy = {} /\ place[t] = "idle"
      <4>1. Called(t)
        BY <2>1 DEF Flush, Sync
      <4>2. flushes \in Nat
        BY Loads DEF Shape
      <4> QED BY <4>1, <4>2 DEF Called, Orderly
    <3>2. \A s \in Thread \ {t} : place[s] = "idle"
      BY <3>1 DEF Busy
    <3>3. UNCHANGED <<closed, written, touched, faulty>>
      BY <2>1 DEF Flush, Sync, Called
    <3>4. CASE Flush(t)
      <4>1. HandOver(t, "fwait")
        BY <3>4 DEF Flush
      <4> QED BY <2>0, <3>1, <3>2, <3>3, <4>1, OrderlyHandOver
    <3>5. CASE Sync(t)
      <4>1. HandOver(t, "swait") /\ ~isNew
        BY <3>5 DEF Sync, Orderly
      <4> QED BY <2>0, <3>1, <3>2, <3>3, <4>1, OrderlyHandOver
    <3> QED BY <2>1, <3>4, <3>5
  <2>2. CASE Writing(t)
    BY <2>0, <2>2, OrderlyWrite
  <2>3. CASE \E size \in 0..MaxSize : Truncate(t, size)
    BY <2>3 DEF Truncate, Orderly
  <2>4. CASE Close(t)
    BY <2>0, <2>4, OrderlyCall
  <2> QED BY <1>4, <2>1, <2>2, <2>3, <2>4 DEF Call, Writing
<1> QED BY <1>2, <1>3, <1>4 DEF FdNext

-----------------------------------------------------------------------------
(* The invariant of the write side.                                        *)
THEOREM DescriptorInvariant == FdSpec => []FdInv
<1>1. FdInit => FdInv
  <2> SUFFICES ASSUME FdInit PROVE FdInv
    OBVIOUS
  <2>1. Shape /\ Sizes
    BY TypesInit
  <2>2. Drained
    BY DEF FdInit, Drained
  <2> QED BY <2>1, <2>2, OrderlyInit DEF FdInv
<1>2. FdInv /\ [FdNext]_fdAll => FdInv'
  <2> SUFFICES ASSUME FdInv, [FdNext]_fdAll PROVE FdInv'
    OBVIOUS
  <2>1. Shape /\ Sizes /\ Drained /\ OrderlyInv
    BY DEF FdInv
  <2>2. Shape' /\ Sizes'
    BY <2>1, TypesStep
  <2>3. Drained'
    BY <2>1, DrainedStep
  <2>4. OrderlyInv'
    BY <2>1, <2>2, OrderlyStep
  <2> QED BY <2>2, <2>3, <2>4 DEF FdInv
<1> QED BY <1>1, <1>2, PTL DEF FdSpec

(* Every variable of the descriptor keeps its type.                        *)
THEOREM DescriptorTypes == FdSpec => []FdTypeOK
<1>1. FdInv => FdTypeOK
  BY ShapeTypes DEF FdInv
<1> QED BY <1>1, DescriptorInvariant, PTL

(* Close waits for the uploads (fd.go:509, 538): once it has, nothing is   *)
(* buffered or in flight, and nothing comes to be.                         *)
THEOREM CloseDrainsAlways == FdSpec => []CloseDrains
<1>1. FdInv => CloseDrains
  BY DEF FdInv, Drained, CloseDrains
<1> QED BY <1>1, DescriptorInvariant, PTL

(* A Flush, Sync or Close of an orderly writer that returned without error *)
(* left exactly what was written (fd.go:523, 862).                         *)
THEOREM DurableAlways == FdSpec => []Durable
<1>1. FdInv => Durable
  BY DEF FdInv, OrderlyInv, Places, PlaceOf, Durable, DurableAfter
<1> QED BY <1>1, DescriptorInvariant, PTL

(* An orderly writer is told of an error only when a request has failed:   *)
(* commitRevision never misses a block (upload_helpers.go:132).            *)
THEOREM ErrorsAreRealAlways == FdSpec => []ErrorsAreReal
<1>1. FdInv => ErrorsAreReal
  BY DEF FdInv, OrderlyInv, Places, PlaceOf, ErrorsAreReal
<1> QED BY <1>1, DescriptorInvariant, PTL

-----------------------------------------------------------------------------
(* BufferCache: the inductive invariant.                                   *)
USE DEF Key, NoSlot, NoKey, Waiting, Woken

(* What every step preserves, in every environment: slots are filed under  *)
(* their own key, a waiter waits on a slot of the key it wants, the clean  *)
(* slots are slots of the map, and a fetching slot is not in bc.lru.       *)
FiledUnderOwnKey ==
  /\ \A k \in Key : slots[k] # NoSlot => KeyOf(slots[k]) = k
  /\ \A g \in Goroutine : pc[g] \in Waiting => KeyOf(on[g]) = want[g]
  /\ \A s \in clean : slots[KeyOf(s)] = s
FetchingNotInLRU == \A k \in Key : IsFetching(k) => slots[k] \notin lru

IInv == /\ TypeOK
        /\ FiledUnderOwnKey
        /\ FetchingNotInLRU
        /\ CleanSlotIsSettled
        /\ FetchHasOwner

(* The empty tuple is neither a key nor a slot.                            *)
LEMMA NotEmpty == NoKey \notin Key /\ NoSlot \notin Slot
  BY DEF Slot

LEMMA SlotFacts == \A s \in Slot : KeyOf(s) \in Key
  BY DEF Slot, KeyOf

LEMMA VictimsInLRU == Victims \subseteq SUBSET lru
  BY DEF Victims

LEMMA InitIInv == Init => IInv
<1>1. Init => failed \in BOOLEAN
  BY DEF Init
<1>2. Init => /\ TypeOK
              /\ FiledUnderOwnKey /\ FetchingNotInLRU /\ CleanSlotIsSettled /\ FetchHasOwner
  BY <1>1, BoundAssumption, NotEmpty
     DEF Init, TypeOK, FiledUnderOwnKey, FetchingNotInLRU, CleanSlotIsSettled,
         FetchHasOwner, IsClean, IsFetching, PC
<1> QED BY <1>2 DEF IInv

(* Type correctness alone, one step per action.                            *)
LEMMA TypeStep == TypeOK /\ [Next]_vars => TypeOK'
<1> SUFFICES ASSUME TypeOK, [Next]_vars PROVE TypeOK'
  OBVIOUS
<1> USE NotEmpty DEF TypeOK, happened
<1>1. ASSUME NEW g \in Goroutine, NEW k \in Key, StartRead(g, k) PROVE TypeOK'
  BY <1>1 DEF StartRead, Goto, cache, PC
<1>2. ASSUME NEW g \in Goroutine, NEW k \in Key, StartPrefetch(g, k) PROVE TypeOK'
  BY <1>2 DEF StartPrefetch, Goto, cache, PC
<1>3. ASSUME NEW g \in Goroutine, Get(g) PROVE TypeOK'
  BY <1>3 DEF Get, ToFront, Hit, Miss, Done, Goto, IsClean, IsFetching, PC
<1>4. ASSUME NEW g \in Goroutine, Wake(g) PROVE TypeOK'
  BY <1>4 DEF Wake, ToFront, Hit, Miss, Done, Goto, IsClean, PC
<1>5. ASSUME NEW g \in Goroutine, Reserve(g) PROVE TypeOK'
  <2>1. CASE Refused(g)
    BY <1>5, <2>1 DEF Reserve, Refused, Done, Goto, cache, PC
  <2>2. CASE Reserved(g)
    BY <1>5, <2>2 DEF Reserve, Reserved, DropThenAdd, KeepInLRU, Goto, PC
  <2> QED BY <1>5, <2>1, <2>2 DEF Reserve
<1>6. ASSUME NEW g \in Goroutine, Put(g) PROVE TypeOK'
  <2>1. CASE PutExisting(want[g])
    BY <1>6, <2>1 DEF Put, PutExisting, ToFront, DoneAndClose, WaitsFor, Released, PC
  <2>2. CASE PutNew(want[g])
    BY <1>6, <2>2 DEF Put, PutNew, DropThenAdd, ToFront, DoneAndClose, WaitsFor, Released, PC
  <2> QED BY <1>6, <2>1, <2>2 DEF Put
<1>7. ASSUME NEW g \in Goroutine, PutError(g) PROVE TypeOK'
  BY <1>7 DEF PutError, DoneAndClose, WaitsFor, Released, cache, PC
<1>8. ASSUME NEW l \in Link, Invalidate(l) PROVE TypeOK'
  BY <1>8, BoundAssumption DEF Invalidate, KeepInLRU, WaitsFor, Released, PC
<1>9. CASE UNCHANGED vars
  BY <1>9 DEF vars
<1> QED BY <1>1, <1>2, <1>3, <1>4, <1>5, <1>6, <1>7, <1>8, <1>9 DEF Next, Step

(* THEOREM: every variable keeps its type, for any constants.              *)
THEOREM TypeCorrect == SafetySpec => []TypeOK
<1>1. Init => TypeOK
  BY InitIInv DEF IInv
<1> QED BY <1>1, TypeStep, PTL DEF SafetySpec

-----------------------------------------------------------------------------
(* The strengthened invariant.                                             *)
LEMMA IInvStep == IInv /\ [Next]_vars => IInv'
<1> SUFFICES ASSUME IInv, [Next]_vars
             PROVE  FiledUnderOwnKey' /\ FetchingNotInLRU' /\ CleanSlotIsSettled' /\ FetchHasOwner'
  BY TypeStep DEF IInv
<1> USE NotEmpty, SlotFacts, VictimsInLRU
        DEF IInv, TypeOK, FiledUnderOwnKey, FetchingNotInLRU, CleanSlotIsSettled, FetchHasOwner,
            IsClean, IsFetching, WaitsFor, happened
<1>1. ASSUME NEW g \in Goroutine, NEW k \in Key, StartRead(g, k) \/ StartPrefetch(g, k)
      PROVE  FiledUnderOwnKey' /\ FetchingNotInLRU' /\ CleanSlotIsSettled' /\ FetchHasOwner'
  BY <1>1 DEF StartRead, StartPrefetch, Goto, cache
<1>2. ASSUME NEW g \in Goroutine, Get(g)
      PROVE  FiledUnderOwnKey' /\ FetchingNotInLRU' /\ CleanSlotIsSettled' /\ FetchHasOwner'
  BY <1>2 DEF Get, ToFront, Hit, Miss, Done, Goto
<1>3. ASSUME NEW g \in Goroutine, Wake(g)
      PROVE  FiledUnderOwnKey' /\ FetchingNotInLRU' /\ CleanSlotIsSettled' /\ FetchHasOwner'
  BY <1>3 DEF Wake, ToFront, Hit, Miss, Done, Goto
<1>4. ASSUME NEW g \in Goroutine, Reserve(g)
      PROVE  FiledUnderOwnKey' /\ FetchingNotInLRU' /\ CleanSlotIsSettled' /\ FetchHasOwner'
  <2>1. CASE Refused(g)
    BY <1>4, <2>1 DEF Reserve, Refused, Done, Goto, cache
  <2>2. CASE Reserved(g)
    <3>1. PICK V \in Victims, s \in Slot :
            /\ NewSlot(want[g], s)
            /\ DropThenAdd(V, want[g], s)
            /\ KeepInLRU(lru \ V)
            /\ clean' = clean \ Dropped(V)
      BY <2>2, Zenon DEF Reserved
    <3> USE <1>4, <2>2, <3>1 DEF Reserve, Reserved, Goto, NewSlot, Unreferenced, DropThenAdd, KeepInLRU, Dropped
    <3>2. s \notin clean /\ want[g] \in Key /\ \A v \in V : KeyOf(v) \in Key
      OBVIOUS
    <3>3. FiledUnderOwnKey'
      <4>1. \A k \in Key : slots'[k] # NoSlot => KeyOf(slots'[k]) = k
        BY <3>2
      <4>2. \A h \in Goroutine : pc'[h] \in Waiting => KeyOf(on'[h]) = want'[h]
        BY <3>2
      <4>3. \A t \in clean' : slots'[KeyOf(t)] = t
        BY <3>2
      <4> QED BY <4>1, <4>2, <4>3
    <3>4. FetchingNotInLRU'
      BY <3>2
    <3>5. CleanSlotIsSettled'
      BY <3>2
    <3>6. FetchHasOwner'
      BY <3>2
    <3> QED BY <3>3, <3>4, <3>5, <3>6
  <2> QED BY <1>4, <2>1, <2>2 DEF Reserve
<1>5. ASSUME NEW g \in Goroutine, Put(g)
      PROVE  FiledUnderOwnKey' /\ FetchingNotInLRU' /\ CleanSlotIsSettled' /\ FetchHasOwner'
  <2>1. CASE PutExisting(want[g])
    BY <1>5, <2>1 DEF Put, PutExisting, ToFront, DoneAndClose, Released
  <2>2. CASE PutNew(want[g])
    <3>1. PICK V \in Victims, s \in Slot :
            /\ NewSlot(want[g], s)
            /\ DropThenAdd(V, want[g], s)
            /\ ToFront(lru \ V, s)
            /\ clean' = (clean \ Dropped(V)) \cup {s}
      BY <2>2, Zenon DEF PutNew
    <3> USE <1>5, <2>2, <3>1
            DEF Put, PutNew, DoneAndClose, Released, NewSlot, Unreferenced, DropThenAdd, ToFront, Dropped
    <3>2. s \notin clean /\ want[g] \in Key /\ \A v \in V : KeyOf(v) \in Key
      OBVIOUS
    <3>3. FiledUnderOwnKey'
      <4>1. \A k \in Key : slots'[k] # NoSlot => KeyOf(slots'[k]) = k
        BY <3>2
      <4>2. \A h \in Goroutine : pc'[h] \in Waiting => KeyOf(on'[h]) = want'[h]
        BY <3>2
      <4>3. \A t \in clean' : slots'[KeyOf(t)] = t
        BY <3>2
      <4> QED BY <4>1, <4>2, <4>3
    <3>4. FetchingNotInLRU'
      BY <3>2
    <3>5. CleanSlotIsSettled'
      BY <3>2
    <3>6. FetchHasOwner'
      BY <3>2
    <3> QED BY <3>3, <3>4, <3>5, <3>6
  <2> QED BY <1>5, <2>1, <2>2 DEF Put
<1>6. ASSUME NEW g \in Goroutine, PutError(g)
      PROVE  FiledUnderOwnKey' /\ FetchingNotInLRU' /\ CleanSlotIsSettled' /\ FetchHasOwner'
  <2>1. CASE slots[want[g]] = NoSlot
    BY <1>6, <2>1 DEF PutError, DoneAndClose, Released, cache
  <2>2. CASE slots[want[g]] # NoSlot
    <3> USE <1>6, <2>2 DEF PutError, DoneAndClose, Released
    <3>1. FiledUnderOwnKey'
      OBVIOUS
    <3>2. FetchingNotInLRU' /\ CleanSlotIsSettled'
      OBVIOUS
    <3>3. FetchHasOwner'
      OBVIOUS
    <3> QED BY <3>1, <3>2, <3>3
  <2> QED BY <2>1, <2>2
<1>7. ASSUME NEW l \in Link, Invalidate(l)
      PROVE  FiledUnderOwnKey' /\ FetchingNotInLRU' /\ CleanSlotIsSettled' /\ FetchHasOwner'
  <2> DEFINE gone == {slots[k] : k \in {j \in Present : j[1] = l}}
  <2>0. /\ slots' = [k \in Key |-> IF k[1] = l THEN NoSlot ELSE slots[k]]
        /\ clean' = clean \ gone
        /\ lru' = lru \ gone
        /\ pc' = [h \in Goroutine |-> IF WaitsFor(h, gone) THEN Released(h) ELSE pc[h]]
        /\ on' = [h \in Goroutine |-> IF WaitsFor(h, gone) THEN NoSlot ELSE on[h]]
        /\ want' = want
    BY <1>7 DEF Invalidate, KeepInLRU
  <2>1. \A k \in Key : slots'[k] # NoSlot => slots'[k] = slots[k] /\ slots[k] \notin gone
    <3> SUFFICES ASSUME NEW k \in Key, slots'[k] # NoSlot
                 PROVE  slots'[k] = slots[k] /\ slots[k] \notin gone
      OBVIOUS
    <3>1. k[1] # l /\ slots'[k] = slots[k] /\ KeyOf(slots[k]) = k
      BY <2>0
    <3>2. \A j \in Present : slots[j] = slots[k] => j = k
      BY <3>1 DEF Present
    <3> QED BY <3>1, <3>2
  <2> HIDE DEF gone
  <2>2. \A h \in Goroutine :
          /\ ~WaitsFor(h, gone) => pc'[h] = pc[h] /\ on'[h] = on[h]
          /\ WaitsFor(h, gone) => pc'[h] \in Woken /\ pc[h] # "fetch"
    BY <2>0 DEF Released
  <2>3. FiledUnderOwnKey'
    <3>1. \A s \in clean' : s \notin gone /\ slots'[KeyOf(s)] = s
      BY <2>0 DEF gone, Present
    <3> QED BY <2>0, <2>1, <2>2, <3>1
  <2>4. FetchingNotInLRU' /\ CleanSlotIsSettled'
    BY <2>0, <2>1, <2>2
  <2>5. FetchHasOwner'
    BY <2>0, <2>1, <2>2
  <2> QED BY <2>3, <2>4, <2>5
<1>8. CASE UNCHANGED vars
  BY <1>8 DEF vars
<1> QED BY <1>1, <1>2, <1>3, <1>4, <1>5, <1>6, <1>7, <1>8 DEF Next, Step

(* THEOREM: in every environment, Get never finds a clean slot without LRU *)
(* element, and no goroutine is parked on a slot whose data is there.      *)
THEOREM CleanSlotsSettled == SafetySpec => []CleanSlotIsSettled
<1>1. IInv => CleanSlotIsSettled
  BY DEF IInv
<1> QED BY <1>1, InitIInv, IInvStep, PTL DEF SafetySpec

(* THEOREM: in every environment, each fetching slot of the map has a      *)
(* goroutine that will still answer for its key.                           *)
THEOREM FetchesOwned == SafetySpec => []FetchHasOwner
<1>1. IInv => FetchHasOwner
  BY DEF IInv
<1> QED BY <1>1, InitIInv, IInvStep, PTL DEF SafetySpec

-----------------------------------------------------------------------------
(* What holds as long as a failing fetch and an overwrite have not met:    *)
(* the list holds the clean slots of the map and nothing else. Without     *)
(* overwrites, a goroutine that fetches holds the slot it reserved.        *)
WaitersOnSlots == \A g \in Goroutine : pc[g] \in Waiting => slots[want[g]] = on[g]
FetcherHoldsSlot ==
  invalidations = 0 =>
    /\ \A g \in Goroutine : pc[g] = "fetch" => IsFetching(want[g])
    /\ \A g, h \in Goroutine :
         pc[g] = "fetch" /\ pc[h] = "fetch" /\ want[g] = want[h] => g = h
Core == lru = clean /\ WaitersOnSlots /\ FetcherHoldsSlot
CalmInv == IInv /\ (Calm => Core)

LEMMA CalmInit == Init => CalmInv
  BY InitIInv, NotEmpty DEF Init, CalmInv, Core, WaitersOnSlots, FetcherHoldsSlot

(* What has happened stays so.                                             *)
LEMMA CalmBefore == ASSUME TypeOK, [Next]_vars, Calm' PROVE Calm
<1> USE DEF TypeOK, Calm, happened
<1>1. ASSUME NEW g \in Goroutine, NEW k \in Key, StartRead(g, k) \/ StartPrefetch(g, k) PROVE Calm
  BY <1>1 DEF StartRead, StartPrefetch
<1>2. ASSUME NEW g \in Goroutine, Get(g) \/ Wake(g) \/ Reserve(g) \/ Put(g) PROVE Calm
  BY <1>2, Zenon DEF Get, Wake, Reserve, Put
<1>3. ASSUME NEW g \in Goroutine, PutError(g) PROVE Calm
  BY <1>3 DEF PutError
<1>4. ASSUME NEW l \in Link, Invalidate(l) PROVE Calm
  BY <1>4, BoundAssumption DEF Invalidate
<1>5. CASE UNCHANGED vars
  BY <1>5 DEF vars
<1> QED BY <1>1, <1>2, <1>3, <1>4, <1>5 DEF Next, Step

LEMMA CoreStep ==
  ASSUME IInv, Core, [Next]_vars, Calm'
  PROVE  Core'
<1> SUFFICES lru' = clean' /\ WaitersOnSlots' /\ FetcherHoldsSlot'
  BY DEF Core
<1>0. IInv /\ TypeOK /\ FiledUnderOwnKey /\ FetchingNotInLRU /\ CleanSlotIsSettled
  BY DEF IInv
<1> USE NotEmpty, SlotFacts, VictimsInLRU, <1>0
        DEF Core, TypeOK, FiledUnderOwnKey, FetchingNotInLRU, CleanSlotIsSettled,
            WaitersOnSlots, FetcherHoldsSlot, IsClean, IsFetching, WaitsFor, happened
<1>1. ASSUME NEW g \in Goroutine, NEW k \in Key, StartRead(g, k) \/ StartPrefetch(g, k)
      PROVE  lru' = clean' /\ WaitersOnSlots' /\ FetcherHoldsSlot'
  <2> USE <1>1 DEF StartRead, StartPrefetch, Goto, cache
  <2>1. lru' = clean' /\ WaitersOnSlots'
    OBVIOUS
  <2>2. FetcherHoldsSlot'
    OBVIOUS
  <2> QED BY <2>1, <2>2
<1>2. ASSUME NEW g \in Goroutine, Get(g)
      PROVE  lru' = clean' /\ WaitersOnSlots' /\ FetcherHoldsSlot'
  <2>0. IsClean(want[g]) => lru \cup {slots[want[g]]} = lru
    OBVIOUS
  <2>1. lru' = lru /\ clean' = clean
    BY <1>2, <2>0, Zenon DEF Get, ToFront
  <2>2. WaitersOnSlots'
    BY <1>2 DEF Get, Hit, Miss, Done, Goto
  <2>3. FetcherHoldsSlot'
    BY <1>2 DEF Get, Hit, Miss, Done, Goto
  <2> QED BY <2>1, <2>2, <2>3
<1>3. ASSUME NEW g \in Goroutine, Wake(g)
      PROVE  lru' = clean' /\ WaitersOnSlots' /\ FetcherHoldsSlot'
  <2>0. IsClean(want[g]) => lru \cup {slots[want[g]]} = lru
    OBVIOUS
  <2>1. lru' = lru /\ clean' = clean
    BY <1>3, <2>0, Zenon DEF Wake, ToFront
  <2>2. WaitersOnSlots'
    BY <1>3 DEF Wake, Hit, Miss, Done, Goto
  <2>3. FetcherHoldsSlot'
    BY <1>3 DEF Wake, Hit, Miss, Done, Goto
  <2> QED BY <2>1, <2>2, <2>3
<1>4. ASSUME NEW g \in Goroutine, Reserve(g)
      PROVE  lru' = clean' /\ WaitersOnSlots' /\ FetcherHoldsSlot'
  <2>1. CASE Refused(g)
    <3> USE <1>4, <2>1 DEF Reserve, Refused, Done, Goto, cache
    <3>1. lru' = clean' /\ WaitersOnSlots'
      OBVIOUS
    <3>2. FetcherHoldsSlot'
      OBVIOUS
    <3> QED BY <3>1, <3>2
  <2>2. CASE Reserved(g)
    <3>1. PICK V \in Victims, s \in Slot :
            /\ NewSlot(want[g], s)
            /\ DropThenAdd(V, want[g], s)
            /\ KeepInLRU(lru \ V)
            /\ clean' = clean \ Dropped(V)
      BY <2>2, Zenon DEF Reserved
    <3>2. Dropped(V) = V
      BY DEF Dropped
    <3> USE <1>4, <2>2, <3>1, <3>2
            DEF Reserve, Reserved, Goto, NewSlot, Unreferenced, DropThenAdd, KeepInLRU
    <3>3. lru' = clean'
      OBVIOUS
    <3>4. WaitersOnSlots'
      OBVIOUS
    <3>5. FetcherHoldsSlot'
      OBVIOUS
    <3> QED BY <3>3, <3>4, <3>5
  <2> QED BY <1>4, <2>1, <2>2 DEF Reserve
<1>5. ASSUME NEW g \in Goroutine, Put(g)
      PROVE  lru' = clean' /\ WaitersOnSlots' /\ FetcherHoldsSlot'
  <2>1. CASE PutExisting(want[g])
    BY <1>5, <2>1 DEF Put, PutExisting, ToFront, DoneAndClose, Released
  <2>2. CASE PutNew(want[g])
    <3>1. PICK V \in Victims, s \in Slot :
            /\ NewSlot(want[g], s)
            /\ DropThenAdd(V, want[g], s)
            /\ ToFront(lru \ V, s)
            /\ clean' = (clean \ Dropped(V)) \cup {s}
      BY <2>2, Zenon DEF PutNew
    <3>2. Dropped(V) = V
      BY DEF Dropped
    <3> USE <1>5, <2>2, <3>1, <3>2
            DEF Put, PutNew, DoneAndClose, Released, NewSlot, Unreferenced, DropThenAdd, ToFront
    <3>3. lru' = clean'
      OBVIOUS
    <3>4. WaitersOnSlots'
      OBVIOUS
    <3>5. FetcherHoldsSlot'
      OBVIOUS
    <3> QED BY <3>3, <3>4, <3>5
  <2> QED BY <1>5, <2>1, <2>2 DEF Put
<1>6. ASSUME NEW g \in Goroutine, PutError(g)
      PROVE  lru' = clean' /\ WaitersOnSlots' /\ FetcherHoldsSlot'
  <2>1. invalidations = 0 /\ IsFetching(want[g])
    BY <1>6 DEF PutError, Calm
  <2>0. clean \ {slots[want[g]]} = clean /\ slots[want[g]] # NoSlot
    BY <2>1
  <2>2. lru' = clean'
    BY <1>6, <2>0, Zenon DEF PutError
  <2> USE <1>6, <2>1 DEF PutError, DoneAndClose, Released, cache
  <2>3. WaitersOnSlots'
    OBVIOUS
  <2>4. FetcherHoldsSlot'
    OBVIOUS
  <2> QED BY <2>2, <2>3, <2>4
<1>7. ASSUME NEW l \in Link, Invalidate(l)
      PROVE  lru' = clean' /\ WaitersOnSlots' /\ FetcherHoldsSlot'
  <2>1. invalidations' # 0
    BY <1>7, BoundAssumption DEF Invalidate
  <2> DEFINE gone == {slots[k] : k \in {j \in Present : j[1] = l}}
  <2>2. lru' = clean' /\ FetcherHoldsSlot'
    BY <1>7, <2>1 DEF Invalidate, KeepInLRU
  <2>3. \A g \in Goroutine : pc'[g] \in Waiting =>
           pc'[g] = pc[g] /\ on'[g] = on[g] /\ ~WaitsFor(g, gone)
    BY <1>7 DEF Invalidate, Released
  <2>4. WaitersOnSlots'
    <3>1. ASSUME NEW g \in Goroutine, pc'[g] \in Waiting
          PROVE  slots'[want'[g]] = on'[g]
      <4>1. /\ on'[g] = on[g] /\ want'[g] = want[g]
            /\ slots[want[g]] = on[g] /\ on[g] \notin gone /\ want[g] \in Key
        BY <1>7, <2>3, <3>1 DEF Invalidate
      <4>2. want[g][1] # l
        BY <2>3, <3>1, <4>1 DEF Present
      <4> QED BY <1>7, <4>1, <4>2 DEF Invalidate
    <3> QED BY <3>1
  <2> QED BY <2>2, <2>4
<1>8. CASE UNCHANGED vars
  BY <1>8 DEF vars
<1> QED BY <1>1, <1>2, <1>3, <1>4, <1>5, <1>6, <1>7, <1>8 DEF Next, Step

LEMMA CalmStep == CalmInv /\ [Next]_vars => CalmInv'
  BY IInvStep, CalmBefore, CoreStep DEF CalmInv, IInv

(* THEOREM: until a failing fetch and an overwrite have met, no reader is  *)
(* left on a channel that nobody can close.                                *)
THEOREM NoReaderStranded == SafetySpec => []NoStrandedWaiter
<1>1. CalmInv => NoStrandedWaiter
  BY DEF CalmInv, Core, WaitersOnSlots, NoStrandedWaiter
<1> QED BY <1>1, CalmStep, CalmInit, PTL DEF SafetySpec

(* THEOREM: until then, bc.lru lists exactly the clean slots.              *)
THEOREM LRUExact == SafetySpec => []LRUHoldsCleanSlots
<1>1. CalmInv => LRUHoldsCleanSlots
  BY SlotFacts, NotEmpty
     DEF CalmInv, Core, IInv, TypeOK, FiledUnderOwnKey, LRUHoldsCleanSlots, IsClean
<1> QED BY <1>1, CalmStep, CalmInit, PTL DEF SafetySpec

(* THEOREM: until a file is overwritten, one goroutine fetches a block.    *)
THEOREM OneFetch == SafetySpec => []OneFetchPerBlock
<1>1. CalmInv => OneFetchPerBlock
  BY DEF CalmInv, Core, FetcherHoldsSlot, OneFetchPerBlock, Calm
<1> QED BY <1>1, CalmStep, CalmInit, PTL DEF SafetySpec

(* THEOREM: until a failing fetch and an overwrite have met, a fetching    *)
(* slot that leaves the map wakes whoever waits on it.                     *)
THEOREM FetchingSlotsKept == SafetySpec => FetchingKept
<1> DEFINE Wakes == Calm' => \A k \in Key, g \in Goroutine : WokenWhenGone(k, g)
<1>1. ASSUME CalmInv, [Next]_vars PROVE Wakes
  <2> SUFFICES ASSUME Calm', NEW k \in Key, NEW h \in Goroutine,
                      IsFetching(k), slots'[k] # slots[k], WaitsFor(h, {slots[k]})
               PROVE  pc'[h] \in Woken
    BY DEF WokenWhenGone
  <2>0. /\ TypeOK /\ FiledUnderOwnKey /\ lru = clean
        /\ slots[k] \in Slot /\ slots[k] \notin lru /\ pc[h] \in Waiting /\ KeyOf(slots[k]) = k
    BY <1>1, CalmBefore
       DEF CalmInv, Core, IInv, TypeOK, FiledUnderOwnKey, FetchingNotInLRU, IsFetching, WaitsFor
  <2>1. ~UNCHANGED slots
    OBVIOUS
  <2>2. PICK g \in Goroutine, l \in Link : Reserved(g) \/ Put(g) \/ PutError(g) \/ Invalidate(l)
    <3>1. CASE \E g \in Goroutine : Reserved(g) \/ Put(g) \/ PutError(g)
      BY <3>1 DEF Key
    <3>2. CASE \E l \in Link : Invalidate(l)
      BY <3>2
    <3> QED BY <1>1, <2>1, <3>1, <3>2
            DEF Next, Step, StartRead, StartPrefetch, Get, Wake, Reserve, Refused, cache, vars
  <2>3. CASE Reserved(g)
    <3>1. PICK V \in Victims, s \in Slot : DropThenAdd(V, want[g], s)
      BY <2>3, Zenon DEF Reserved
    <3>2. k # want[g]
      BY <2>3 DEF Reserved, IsFetching
    <3>3. \A v \in V : KeyOf(v) # k
      BY <2>0, VictimsInLRU DEF FiledUnderOwnKey
    <3> QED BY <3>1, <3>2, <3>3 DEF DropThenAdd
  <2>4. CASE Put(g)
    <3>1. CASE slots[want[g]] # NoSlot
      BY <2>4, <3>1 DEF Put, PutExisting, PutNew
    <3>2. CASE slots[want[g]] = NoSlot
      <4>1. PICK V \in Victims, s \in Slot : DropThenAdd(V, want[g], s)
        BY <2>4, <3>2, Zenon DEF Put, PutNew, PutExisting
      <4>2. k # want[g]
        BY <3>2 DEF IsFetching
      <4>3. \A v \in V : KeyOf(v) # k
        BY <2>0, VictimsInLRU DEF FiledUnderOwnKey
      <4> QED BY <4>1, <4>2, <4>3 DEF DropThenAdd
    <3> QED BY <3>1, <3>2
  <2>5. CASE PutError(g)
    <3>1. k = want[g] /\ h # g
      BY <2>0, <2>5 DEF PutError, cache, TypeOK
    <3> QED BY <2>0, <2>5, <3>1 DEF PutError, DoneAndClose, Released, WaitsFor, TypeOK
  <2>6. CASE Invalidate(l)
    <3>1. slots[k] \in {slots[j] : j \in {i \in Present : i[1] = l}}
      BY <2>6 DEF Invalidate, Present, IsFetching
    <3> QED BY <2>0, <2>6, <3>1 DEF Invalidate, Released, WaitsFor, TypeOK
  <2> QED BY <2>2, <2>3, <2>4, <2>5, <2>6
<1>2. CalmInv /\ [Next]_vars => [Wakes]_vars
  BY <1>1
<1> QED BY <1>2, CalmStep, CalmInit, PTL DEF SafetySpec, FetchingKept

-----------------------------------------------------------------------------
(* The capacity. Until a file is overwritten a Put finds the slot its      *)
(* goroutine reserved, so that only Reserve adds one; the element Reserve  *)
(* evicts is that of a clean slot of the map, which leaves it.             *)
Within == invalidations = 0 => IsFiniteSet(Present) /\ Cardinality(Present) <= Cap

LEMMA WithinStep ==
  ASSUME CalmInv, Within, [Next]_vars
  PROVE  Within'
<1> SUFFICES ASSUME invalidations' = 0
             PROVE  IsFiniteSet(Present') /\ Cardinality(Present') <= Cap
  BY DEF Within
<1>t. TypeOK /\ FiledUnderOwnKey
  BY DEF CalmInv, IInv
<1>0. invalidations = 0
  <2>1. ASSUME NEW l \in Link, Invalidate(l) PROVE FALSE
    BY <1>t, <2>1 DEF Invalidate, TypeOK
  <2>2. ASSUME NEW g \in Goroutine, Step(g) PROVE UNCHANGED invalidations
    <3>1. CASE Get(g) \/ Wake(g)
      BY <3>1, Zenon DEF Get, Wake, happened
    <3>2. CASE Reserve(g) \/ Put(g) \/ PutError(g)
      BY <3>2, Zenon DEF Reserve, Put, PutError, happened
    <3> QED BY <2>2, <3>1, <3>2 DEF Step
  <2>3. ASSUME NEW g \in Goroutine, NEW k \in Key, StartRead(g, k) \/ StartPrefetch(g, k)
        PROVE  UNCHANGED invalidations
    BY <2>3 DEF StartRead, StartPrefetch, happened
  <2>4. CASE UNCHANGED vars
    BY <2>4 DEF vars
  <2> QED BY <2>1, <2>2, <2>3, <2>4 DEF Next
<1>1. lru = clean /\ FetcherHoldsSlot
  BY <1>0 DEF CalmInv, Calm, Core
<1>f. IsFiniteSet(Present) /\ Cardinality(Present) \in Nat /\ Cardinality(Present) <= Cap
  BY <1>0, FS_CardinalityType DEF Within
<1>u. Present' \in SUBSET Present => IsFiniteSet(Present') /\ Cardinality(Present') <= Cap
  <2> SUFFICES ASSUME Present' \in SUBSET Present
               PROVE  IsFiniteSet(Present') /\ Cardinality(Present') <= Cap
    OBVIOUS
  <2>1. IsFiniteSet(Present') /\ Cardinality(Present') <= Cardinality(Present)
    BY <1>f, FS_Subset
  <2>2. Cardinality(Present') \in Nat
    BY <2>1, FS_CardinalityType
  <2> QED BY <1>f, <2>1, <2>2, CapAssumption
<1>s. UNCHANGED slots => Present' \in SUBSET Present
  BY DEF Present
<1>2. ASSUME NEW g \in Goroutine, NEW V \in Victims, NEW k \in Key, NEW s \in Slot,
             slots[k] = NoSlot, ~(Full /\ lru = {}), DropThenAdd(V, k, s)
      PROVE  IsFiniteSet(Present') /\ Cardinality(Present') <= Cap
  <2>0. s # NoSlot
    BY NotEmpty
  <2>1. CASE V = {}
    <3>1. Present' = Present \cup {k} /\ k \notin Present
      BY <1>2, <2>0, <2>1 DEF DropThenAdd, Present
    <3>2. ~Full
      BY <1>2, <2>1 DEF Victims
    <3>3. IsFiniteSet(Present \cup {k}) /\ Cardinality(Present \cup {k}) = Cardinality(Present) + 1
      BY <1>f, <3>1, FS_AddElement
    <3> QED BY <1>f, <3>1, <3>2, <3>3, CapAssumption DEF Full
  <2>2. CASE V # {}
    <3>1. PICK v \in lru : V = {v}
      BY <2>2 DEF Victims
    <3>2. KeyOf(v) \in Key /\ slots[KeyOf(v)] = v /\ v # NoSlot
      BY <1>1, <1>t, <3>1, SlotFacts, NotEmpty DEF FiledUnderOwnKey, TypeOK
    <3>3. KeyOf(v) \in Present /\ KeyOf(v) # k
      BY <1>2, <3>2 DEF Present
    <3>4. Present' = (Present \ {KeyOf(v)}) \cup {k} /\ k \notin Present
      BY <1>2, <2>0, <3>1, <3>3 DEF DropThenAdd, Present
    <3>5. /\ IsFiniteSet(Present \ {KeyOf(v)})
          /\ Cardinality(Present \ {KeyOf(v)}) = Cardinality(Present) - 1
      BY <1>f, <3>3, FS_RemoveElement
    <3>6. /\ IsFiniteSet((Present \ {KeyOf(v)}) \cup {k})
          /\ Cardinality((Present \ {KeyOf(v)}) \cup {k}) = Cardinality(Present) - 1 + 1
      BY <3>4, <3>5, FS_AddElement
    <3> QED BY <1>f, <3>4, <3>6
  <2> QED BY <2>1, <2>2
<1>3. ASSUME NEW g \in Goroutine, Reserve(g)
      PROVE  IsFiniteSet(Present') /\ Cardinality(Present') <= Cap
  <2>1. CASE UNCHANGED slots
    BY <1>s, <1>u, <2>1
  <2>2. CASE Reserved(g)
    <3>1. want[g] \in Key
      BY <1>3, <1>t DEF TypeOK, Reserve
    <3>2. PICK V \in Victims, s \in Slot : DropThenAdd(V, want[g], s)
      BY <2>2 DEF Reserved
    <3>3. slots[want[g]] = NoSlot /\ ~(Full /\ lru = {})
      BY <2>2 DEF Reserved
    <3> QED BY <1>2, <3>1, <3>2, <3>3
  <2> QED BY <1>3, <2>1, <2>2 DEF Reserve, Refused, cache
<1>4. ASSUME NEW g \in Goroutine, Put(g)
      PROVE  IsFiniteSet(Present') /\ Cardinality(Present') <= Cap
  <2>1. slots[want[g]] # NoSlot
    BY <1>0, <1>1, <1>4 DEF FetcherHoldsSlot, IsFetching, Put
  <2>2. UNCHANGED slots
    BY <1>4, <2>1 DEF Put, PutExisting, PutNew
  <2> QED BY <1>s, <1>u, <2>2
<1>5. ASSUME NEW g \in Goroutine, PutError(g)
      PROVE  IsFiniteSet(Present') /\ Cardinality(Present') <= Cap
  <2>1. Present' \in SUBSET Present
    BY <1>5, <1>t DEF PutError, Present, cache, TypeOK
  <2> QED BY <1>u, <2>1
<1>6. ASSUME NEW l \in Link, Invalidate(l) PROVE FALSE
  BY <1>0, <1>6 DEF Invalidate
<1>7. CASE UNCHANGED slots
  BY <1>s, <1>u, <1>7
<1> QED BY <1>3, <1>4, <1>5, <1>6, <1>7
        DEF Next, Step, StartRead, StartPrefetch, Get, Wake, cache, vars

(* THEOREM: until a file is overwritten the cache never holds more slots   *)
(* than its capacity, clean and fetching together, whatever fails.         *)
THEOREM NeverAboveCapacity == SafetySpec => []CapacityRespected
<1>1. Init => Within
  <2>1. Init => Present = {}
    BY DEF Init, Present
  <2> QED BY <2>1, FS_EmptySet, CapAssumption DEF Within
<1>2. CalmInv /\ Within /\ [Next]_vars => Within'
  BY WithinStep
<1>3. Within => CapacityRespected
  BY DEF Within, CapacityRespected
<1> QED BY <1>1, <1>2, <1>3, CalmInit, CalmStep, PTL DEF SafetySpec

(***************************************************************************)
(* Maps, selectors and what a text sets                                    *)
(***************************************************************************)
LEMMA SameMap ==
  ASSUME NEW f, NEW g, IsMap(f), IsMap(g), DOMAIN f = DOMAIN g, \A k \in DOMAIN f : f[k] = g[k]
  PROVE  f = g
  BY DEF IsMap
LEMMA OverrideMap ==
  ASSUME NEW f, NEW x, NEW v
  PROVE  /\ IsMap(Override(f, x, v))
         /\ \A k : k \in DOMAIN Override(f, x, v) <=> k \in DOMAIN f \/ k = x
         /\ Override(f, x, v)[x] = v /\ \A k \in DOMAIN f : k # x => Override(f, x, v)[k] = f[k]
  BY DEF IsMap, Override
LEMMA LessMap ==
  ASSUME NEW f, NEW S
  PROVE  /\ IsMap(Less(f, S))
         /\ \A k : k \in DOMAIN Less(f, S) <=> k \in DOMAIN f /\ k \notin S
         /\ \A k \in DOMAIN f : k \notin S => Less(f, S)[k] = f[k]
  BY DEF IsMap, Less, Restrict
LEMMA NothingMap == IsMap(Nothing) /\ DOMAIN Nothing = {}
  BY DEF IsMap, Nothing

LEMMA Names ==
  /\ \A sel \in Param : sel[1] # "share"
  /\ \A sel \in ShareParam :
       sel[1] = "share" /\ sel[2] \in ShareId /\ sel[3] \in shareFields /\ sel = <<"share", sel[2], sel[3]>>
  /\ \A s \in ShareId, f \in shareFields : <<"share", s, f>> \in ShareParam
  BY ServiceAssumption DEF Param, ShareParam
LEMMA DisabledMap ==
  IsMap(Disabled) /\ DOMAIN Disabled = shareFields /\ \A f \in shareFields : Disabled[f] = "disabled"
  BY DEF IsMap, Disabled, shareFields

(* What a text sets, by its selectors of either kind.                      *)
SetsParam(said, c) == \A sel \in Param :
  (sel \in DOMAIN said <=> sel \in DOMAIN c.value) /\ (sel \in DOMAIN said => said[sel] = c.value[sel])
Sets(said, c, s, f) ==
  /\ <<"share", s, f>> \in DOMAIN said <=> s \in DOMAIN c.shares /\ c.shares[s][f] # "disabled"
  /\ <<"share", s, f>> \in DOMAIN said => said[<<"share", s, f>>] = c.shares[s][f]
SetsShares(said, c) == \A s \in ShareId, f \in shareFields : Sets(said, c, s, f)
IsSettings(said) == IsMap(said) /\ DOMAIN said \subseteq Param \cup ShareParam

LEMMA SettingsSet ==
  ASSUME NEW c, IsText(c)
  PROVE  IsSettings(Settings(c)) /\ SetsParam(Settings(c), c) /\ SetsShares(Settings(c), c)
<1> DEFINE said == Settings(c)
<1>1. IsMap(said) /\ DOMAIN said = DOMAIN c.value \cup Enabled(c)
  BY DEF IsMap, Settings
<1>2. DOMAIN c.value \subseteq Param /\ DOMAIN c.shares \subseteq ShareId
  BY DEF IsText
<1>3. Enabled(c) \subseteq ShareParam
  BY <1>2 DEF Enabled, ShareParam
<1>4. SetsParam(said, c)
  <2> SUFFICES ASSUME NEW sel \in Param
               PROVE  (sel \in DOMAIN said <=> sel \in DOMAIN c.value) /\ (sel \in DOMAIN said => said[sel] = c.value[sel])
    BY DEF SetsParam
  <2>1. sel \notin Enabled(c) /\ sel[1] # "share"
    BY <1>3, Names
  <2> QED BY <1>1, <2>1 DEF Settings
<1>5. SetsShares(said, c)
  <2> SUFFICES ASSUME NEW s \in ShareId, NEW f \in shareFields PROVE Sets(said, c, s, f)
    BY DEF SetsShares
  <2> DEFINE sel == <<"share", s, f>>
  <2>1. sel \in ShareParam /\ sel[1] = "share" /\ sel[2] = s /\ sel[3] = f
    BY Names
  <2>2. sel \notin DOMAIN c.value
    BY <1>2, <2>1, Names
  <2>3. sel \in Enabled(c) <=> s \in DOMAIN c.shares /\ c.shares[s][f] # "disabled"
    BY <2>1 DEF Enabled
  <2>4. sel \in DOMAIN said => said[sel] = c.shares[s][f]
    BY <1>1, <2>1 DEF Settings
  <2> QED BY <1>1, <2>2, <2>3, <2>4 DEF Sets
<1> QED BY <1>1, <1>2, <1>3, <1>4, <1>5 DEF IsSettings
LEMMA SettingsOnly ==
  ASSUME NEW c, IsText(c), NEW said, IsSettings(said), SetsParam(said, c), SetsShares(said, c)
  PROVE  Settings(c) = said
<1> DEFINE t == Settings(c)
<1>1. IsSettings(t) /\ SetsParam(t, c) /\ SetsShares(t, c)
  BY SettingsSet
<1> HIDE DEF t
<1>2. ASSUME NEW sel \in Param PROVE (sel \in DOMAIN t <=> sel \in DOMAIN said) /\ (sel \in DOMAIN t => t[sel] = said[sel])
  BY <1>1 DEF SetsParam
<1>3. ASSUME NEW sel \in ShareParam PROVE (sel \in DOMAIN t <=> sel \in DOMAIN said) /\ (sel \in DOMAIN t => t[sel] = said[sel])
  <2>1. PICK s \in ShareId, f \in shareFields : sel = <<"share", s, f>>
    BY Names
  <2>2. Sets(t, c, s, f) /\ Sets(said, c, s, f)
    BY <1>1, <2>1 DEF SetsShares
  <2> QED BY <2>1, <2>2 DEF Sets
<1>4. DOMAIN t = DOMAIN said /\ \A sel \in DOMAIN t : t[sel] = said[sel]
  BY <1>1, <1>2, <1>3 DEF IsSettings
<1>5. t = said
  BY <1>1, <1>4, SameMap DEF IsSettings
<1> QED BY <1>5 DEF t

LEMMA FileText == ASSUME NEW d, IsFile(d) PROVE IsText(d)
<1>1. \A k : IsText(Blank(k))
  BY NothingMap DEF IsText, Blank
<1> QED BY <1>1 DEF IsFile
LEMMA Loaded ==
  ASSUME NEW d, IsFile(d)
  PROVE  IsConfig(Unmarshal(d)) /\ Settings(Unmarshal(d)) = Settings(d)
<1>1. IsText(d)
  BY FileText
<1>2. Unmarshal(d).value = d.value /\ Unmarshal(d).shares = d.shares
  BY DEF Unmarshal
<1>3. IsConfig(Unmarshal(d))
  BY <1>1, <1>2 DEF IsConfig, IsText, Unmarshal
<1> QED BY <1>2, <1>3 DEF Settings, Enabled
LEMMA Marshalled ==
  ASSUME NEW c, IsConfig(c)
  PROVE  IsFile(Marshal(c)) /\ Settings(Marshal(c)) = Settings(c) /\ Marshal(c).kind = "text"
<1>1. Marshal(c).kind = "text" /\ Marshal(c).value = Less(c.value, {}) /\ Marshal(c).shares = c.shares
  BY DEF Marshal, IsConfig
<1>2. Less(c.value, {}) = c.value
  <2>1. IsMap(c.value)
    BY DEF IsConfig, IsText
  <2>2. /\ IsMap(Less(c.value, {})) /\ DOMAIN Less(c.value, {}) = DOMAIN c.value
        /\ \A k \in DOMAIN c.value : Less(c.value, {})[k] = c.value[k]
    <3>1. DOMAIN c.value \ {} = DOMAIN c.value
      OBVIOUS
    <3>2. /\ IsMap(Less(c.value, {})) /\ DOMAIN Less(c.value, {}) = DOMAIN c.value \ {}
          /\ \A k \in DOMAIN c.value \ {} : Less(c.value, {})[k] = c.value[k]
      BY LessMap
    <3> QED BY <3>1, <3>2
  <2> QED BY <2>1, <2>2, SameMap
<1>3. IsFile(Marshal(c))
  BY <1>1, <1>2 DEF IsFile, IsText, IsConfig, Marshal
<1> QED BY <1>1, <1>2, <1>3 DEF Settings, Enabled

(***************************************************************************)
(* What a command asks, and what it makes of its configuration             *)
(***************************************************************************)
Named(said, c) == IF c.op = "all" THEN {sel \in DOMAIN said : MatchPrefix(sel, c.prefix)} ELSE {c.sel}
Gone(gone) == {"share"} \X gone \X shareFields
Puts(c, gone) == c.op = "set" /\ ~(c.sel[1] = "share" /\ (c.sel[2] \in gone \/ c.value = "disabled"))

Remaining(said, c, gone) == (DOMAIN said \ Gone(gone)) \ Named(said, c)
LEMMA AfterMap ==
  ASSUME NEW said, IsSettings(said), NEW c, NEW gone \in SUBSET ShareId,
         c.op \in {"set", "unset", "all"}, c.op # "all" => c.sel \in Param \cup ShareParam
  PROVE  /\ IsSettings(After(said, c, gone))
         /\ \A x : x \in DOMAIN After(said, c, gone) <=> x \in Remaining(said, c, gone) \/ (Puts(c, gone) /\ x = c.sel)
         /\ Puts(c, gone) => After(said, c, gone)[c.sel] = c.value
         /\ \A x \in Remaining(said, c, gone) : After(said, c, gone)[x] = said[x]
<1> DEFINE taken == {sel \in DOMAIN said : sel[1] = "share" /\ sel[2] \in gone}
           left == Less(said, taken)
           named == IF c.op = "all" THEN {sel \in DOMAIN left : MatchPrefix(sel, c.prefix)} ELSE {c.sel}
           kept == Less(left, named)
           rest == Remaining(said, c, gone)
<1>1. taken = DOMAIN said \cap Gone(gone)
  <2>1. DOMAIN said \subseteq Param \cup ShareParam
    BY DEF IsSettings
  <2> QED BY <2>1, Names DEF Gone
<1>2. DOMAIN left = DOMAIN said \ Gone(gone) /\ \A sel \in DOMAIN left : left[sel] = said[sel]
  <2>1. /\ \A sel : sel \in DOMAIN left <=> sel \in DOMAIN said /\ sel \notin taken
        /\ \A sel \in DOMAIN said : sel \notin taken => left[sel] = said[sel]
    BY LessMap
  <2> QED BY <1>1, <2>1
<1>3. DOMAIN left \ named = rest
  BY <1>2 DEF Named, Remaining
<1>4. IsMap(kept) /\ DOMAIN kept = rest /\ \A sel \in rest : kept[sel] = said[sel]
  <2>1. /\ IsMap(kept) /\ \A sel : sel \in DOMAIN kept <=> sel \in DOMAIN left /\ sel \notin named
        /\ \A sel \in DOMAIN left : sel \notin named => kept[sel] = left[sel]
    BY LessMap
  <2> QED BY <1>2, <1>3, <2>1
<1>5. After(said, c, gone) = IF Puts(c, gone) THEN Override(kept, c.sel, c.value) ELSE kept
  BY DEF After, Puts
<1>6. rest \subseteq Param \cup ShareParam
  BY DEF IsSettings, Remaining
<1> HIDE DEF kept, rest
<1>7. CASE Puts(c, gone)
  <2>1. /\ IsMap(Override(kept, c.sel, c.value)) /\ DOMAIN Override(kept, c.sel, c.value) = rest \cup {c.sel}
        /\ Override(kept, c.sel, c.value)[c.sel] = c.value
        /\ \A sel \in rest : sel # c.sel => Override(kept, c.sel, c.value)[sel] = kept[sel]
    <3>1. /\ IsMap(Override(kept, c.sel, c.value)) /\ DOMAIN Override(kept, c.sel, c.value) = DOMAIN kept \cup {c.sel}
          /\ Override(kept, c.sel, c.value)[c.sel] = c.value
          /\ \A sel \in DOMAIN kept : sel # c.sel => Override(kept, c.sel, c.value)[sel] = kept[sel]
      BY OverrideMap
    <3> QED BY <1>4, <3>1
  <2>2. c.sel \notin rest /\ c.sel \in Param \cup ShareParam
    BY <1>7 DEF Puts, Named, Remaining, rest
  <2> QED BY <1>4, <1>5, <1>6, <1>7, <2>1, <2>2 DEF IsSettings, rest
<1>8. CASE ~Puts(c, gone)
  BY <1>4, <1>5, <1>6, <1>8 DEF IsSettings, rest
<1> QED BY <1>7, <1>8

(* The same, one selector at a time.                                       *)
LEMMA AfterSet ==
  ASSUME NEW said, IsSettings(said), NEW c, NEW gone \in SUBSET ShareId,
         c.op \in {"set", "unset", "all"}, c.op # "all" => c.sel \in Param \cup ShareParam,
         NEW sel \in Param \cup ShareParam
  PROVE  LET t == After(said, c, gone)
         IN /\ Puts(c, gone) /\ sel = c.sel => sel \in DOMAIN t /\ t[sel] = c.value
            /\ ~(Puts(c, gone) /\ sel = c.sel) =>
                 /\ sel \in DOMAIN t <=> sel \in DOMAIN said /\ sel \notin Gone(gone) /\ sel \notin Named(said, c)
                 /\ sel \in DOMAIN t => t[sel] = said[sel]
<1> DEFINE t == After(said, c, gone)
           rest == Remaining(said, c, gone)
<1>1. /\ \A x : x \in DOMAIN t <=> x \in rest \/ (Puts(c, gone) /\ x = c.sel)
      /\ Puts(c, gone) => t[c.sel] = c.value
      /\ \A x \in rest : t[x] = said[x]
  BY AfterMap
<1>2. sel \in rest <=> sel \in DOMAIN said /\ sel \notin Gone(gone) /\ sel \notin Named(said, c)
  BY DEF Remaining
<1> HIDE DEF t, rest
<1>3. /\ Puts(c, gone) /\ sel = c.sel => sel \in DOMAIN t /\ t[sel] = c.value
      /\ ~(Puts(c, gone) /\ sel = c.sel) =>
           /\ sel \in DOMAIN t <=> sel \in DOMAIN said /\ sel \notin Gone(gone) /\ sel \notin Named(said, c)
           /\ sel \in DOMAIN t => t[sel] = said[sel]
  BY <1>1, <1>2
<1> QED BY <1>3 DEF t

Command(c) == c.op \in {"set", "unset", "all"} /\ (c.op # "all" => c.sel \in Param \cup ShareParam)

(* One field of a share's entry becomes v.                                 *)
Entry(c, s, f, v) == [Share(c, s) EXCEPT ![f] = v]
LEMMA EntryMap ==
  ASSUME NEW c, IsText(c), NEW s \in ShareId, NEW f \in shareFields, NEW v
  PROVE  /\ IsMap(Entry(c, s, f, v)) /\ DOMAIN Entry(c, s, f, v) = shareFields
         /\ Entry(c, s, f, v)[f] = v
         /\ \A g \in shareFields : g # f => Entry(c, s, f, v)[g] = Share(c, s)[g]
         /\ s \in DOMAIN c.shares => \A g \in shareFields : Share(c, s)[g] = c.shares[s][g]
         /\ s \notin DOMAIN c.shares => \A g \in shareFields : Share(c, s)[g] = "disabled"
<1>1. IsMap(Share(c, s)) /\ DOMAIN Share(c, s) = shareFields
  BY DisabledMap DEF Share, IsText
<1>2. /\ s \in DOMAIN c.shares => \A g \in shareFields : Share(c, s)[g] = c.shares[s][g]
      /\ s \notin DOMAIN c.shares => \A g \in shareFields : Share(c, s)[g] = "disabled"
  BY DisabledMap DEF Share
<1> QED BY <1>1, <1>2 DEF Entry, IsMap

IsValue(v) == IsMap(v) /\ DOMAIN v \subseteq Param
IsShares(s) ==
  /\ IsMap(s) /\ DOMAIN s \subseteq ShareId
  /\ \A x \in DOMAIN s : IsMap(s[x]) /\ DOMAIN s[x] = shareFields
LEMMA ConfigWith ==
  ASSUME NEW v, NEW s, IsValue(v), IsShares(s), NEW d, d = [value |-> v, cli |-> {}, shares |-> s]
  PROVE  IsConfig(d) /\ d.value = v /\ d.shares = s
<1>1. d.value = v /\ d.cli = {} /\ d.shares = s
  OBVIOUS
<1> QED BY <1>1 DEF IsConfig, IsText, IsValue, IsShares
LEMMA ConfigShape ==
  ASSUME NEW c, IsConfig(c)
  PROVE  c = [value |-> c.value, cli |-> {}, shares |-> c.shares] /\ IsValue(c.value) /\ IsShares(c.shares)
  BY DEF IsConfig, IsText, IsValue, IsShares
LEMMA OverrideValue ==
  ASSUME NEW v, IsValue(v), NEW sel \in Param, NEW x
  PROVE  IsValue(Override(v, sel, x))
<1>1. IsMap(Override(v, sel, x)) /\ \A k : k \in DOMAIN Override(v, sel, x) <=> k \in DOMAIN v \/ k = sel
  BY OverrideMap
<1> QED BY <1>1 DEF IsValue
LEMMA LessValue ==
  ASSUME NEW v, IsValue(v), NEW S
  PROVE  IsValue(Less(v, S))
<1>1. IsMap(Less(v, S)) /\ \A k : k \in DOMAIN Less(v, S) <=> k \in DOMAIN v /\ k \notin S
  BY LessMap
<1> QED BY <1>1 DEF IsValue
LEMMA OverrideShares ==
  ASSUME NEW s, IsShares(s), NEW x \in ShareId, NEW e, IsMap(e), DOMAIN e = shareFields
  PROVE  IsShares(Override(s, x, e))
<1>1. /\ IsMap(Override(s, x, e)) /\ \A k : k \in DOMAIN Override(s, x, e) <=> k \in DOMAIN s \/ k = x
      /\ Override(s, x, e)[x] = e /\ \A k \in DOMAIN s : k # x => Override(s, x, e)[k] = s[k]
  BY OverrideMap
<1> QED BY <1>1 DEF IsShares
LEMMA LessShares ==
  ASSUME NEW s, IsShares(s), NEW S
  PROVE  IsShares(Less(s, S))
<1>1. /\ IsMap(Less(s, S)) /\ \A k : k \in DOMAIN Less(s, S) <=> k \in DOMAIN s /\ k \notin S
      /\ \A k \in DOMAIN s : k \notin S => Less(s, S)[k] = s[k]
  BY LessMap
<1> QED BY <1>1 DEF IsShares
LEMMA RecordWith ==
  ASSUME NEW c, NEW v, NEW s, NEW a, NEW b, c = [value |-> v, cli |-> {}, shares |-> s]
  PROVE  [c EXCEPT !.value = a, !.cli = b] = [value |-> a, cli |-> b, shares |-> s]
<1>1. [c EXCEPT !.value = a] = [value |-> a, cli |-> {}, shares |-> s]
  OBVIOUS
<1>2. [[value |-> a, cli |-> {}, shares |-> s] EXCEPT !.cli = b] = [value |-> a, cli |-> b, shares |-> s]
  OBVIOUS
<1>3. [c EXCEPT !.value = a, !.cli = b] = [[c EXCEPT !.value = a] EXCEPT !.cli = b]
  OBVIOUS
<1> QED BY <1>1, <1>2, <1>3
LEMMA SetFileOf ==
  ASSUME NEW c, IsConfig(c), NEW sel \in Param, NEW x
  PROVE  /\ IsConfig(SetFile(c, sel, x)) /\ SetFile(c, sel, x).value = Override(c.value, sel, x)
         /\ SetFile(c, sel, x).shares = c.shares
<1>1. c = [value |-> c.value, cli |-> {}, shares |-> c.shares] /\ IsValue(c.value) /\ IsShares(c.shares)
  BY ConfigShape
<1>2. SetFile(c, sel, x) = [value |-> Override(c.value, sel, x), cli |-> {}, shares |-> c.shares]
  <2>1. c.cli \ {sel} = {}
    BY DEF IsConfig
  <2>2. SetFile(c, sel, x) = [c EXCEPT !.value = Override(c.value, sel, x), !.cli = c.cli \ {sel}]
    BY DEF SetFile
  <2> QED BY <1>1, <2>1, <2>2, RecordWith
<1>3. IsValue(Override(c.value, sel, x))
  BY <1>1, OverrideValue
<1> QED BY <1>1, <1>2, <1>3, ConfigWith
LEMMA ResetOf ==
  ASSUME NEW c, IsConfig(c), NEW sel \in Param
  PROVE  /\ IsConfig(Reset(c, sel)) /\ Reset(c, sel).value = Less(c.value, {sel})
         /\ Reset(c, sel).shares = c.shares
<1>1. c = [value |-> c.value, cli |-> {}, shares |-> c.shares] /\ IsValue(c.value) /\ IsShares(c.shares)
  BY ConfigShape
<1>2. Reset(c, sel) = [value |-> Less(c.value, {sel}), cli |-> {}, shares |-> c.shares]
  <2>1. c.cli \ {sel} = {}
    BY DEF IsConfig
  <2>2. Reset(c, sel) = [c EXCEPT !.value = Less(c.value, {sel}), !.cli = c.cli \ {sel}]
    BY DEF Reset
  <2> QED BY <1>1, <2>1, <2>2, RecordWith
<1>3. IsValue(Less(c.value, {sel}))
  BY <1>1, LessValue
<1> QED BY <1>1, <1>2, <1>3, ConfigWith
LEMMA WithoutOf ==
  ASSUME NEW c, IsConfig(c), NEW ids
  PROVE  /\ IsConfig(Without(c, ids)) /\ Without(c, ids).value = c.value
         /\ Without(c, ids).shares = Less(c.shares, ids)
<1>1. c = [value |-> c.value, cli |-> {}, shares |-> c.shares] /\ IsValue(c.value) /\ IsShares(c.shares)
  BY ConfigShape
<1>2. Without(c, ids) = [value |-> c.value, cli |-> {}, shares |-> Less(c.shares, ids)]
  <2>1. Without(c, ids) = [c EXCEPT !.shares = Less(c.shares, ids)]
    BY DEF Without
  <2> QED BY <1>1, <2>1
<1>3. IsShares(Less(c.shares, ids))
  BY <1>1, LessShares
<1> QED BY <1>1, <1>2, <1>3, ConfigWith
LEMMA PutShareOf ==
  ASSUME NEW c, IsConfig(c), NEW s \in ShareId, NEW e, IsMap(e), DOMAIN e = shareFields
  PROVE  /\ IsConfig(PutShare(c, s, e)) /\ PutShare(c, s, e).value = c.value
         /\ PutShare(c, s, e).shares = Override(c.shares, s, e)
<1>1. c = [value |-> c.value, cli |-> {}, shares |-> c.shares] /\ IsValue(c.value) /\ IsShares(c.shares)
  BY ConfigShape
<1>2. PutShare(c, s, e) = [value |-> c.value, cli |-> {}, shares |-> Override(c.shares, s, e)]
  <2>1. PutShare(c, s, e) = [c EXCEPT !.shares = Override(c.shares, s, e)]
    BY DEF PutShare
  <2> QED BY <1>1, <2>1
<1>3. IsShares(Override(c.shares, s, e))
  BY <1>1, OverrideShares
<1> QED BY <1>1, <1>2, <1>3, ConfigWith

(***************************************************************************)
(* What each operation does to the settings                                *)
(***************************************************************************)
(* A text that does, selector by selector, what a command asks.            *)
On(c, s, f) == s \in DOMAIN c.shares /\ c.shares[s][f] # "disabled"
Removed(said, k, gone, sel) == sel \in Gone(gone) \/ sel \in Named(said, k)
CarriedParam(c, d, k, sel) ==
  /\ k.op = "set" /\ sel = k.sel => sel \in DOMAIN d.value /\ d.value[sel] = k.value
  /\ ~(k.op = "set" /\ sel = k.sel) =>
       /\ sel \in DOMAIN d.value <=> sel \in DOMAIN c.value /\ sel \notin Named(Settings(c), k)
       /\ sel \in DOMAIN d.value => d.value[sel] = c.value[sel]
CarriedShare(c, d, k, gone, s, f) ==
  /\ Puts(k, gone) /\ k.sel = <<"share", s, f>> => On(d, s, f) /\ d.shares[s][f] = k.value
  /\ ~(Puts(k, gone) /\ k.sel = <<"share", s, f>>) =>
       /\ On(d, s, f) <=> On(c, s, f) /\ ~Removed(Settings(c), k, gone, <<"share", s, f>>)
       /\ On(d, s, f) => d.shares[s][f] = c.shares[s][f]
LEMMA Carried ==
  ASSUME NEW c, IsText(c), NEW d, IsText(d), NEW k, Command(k), NEW gone \in SUBSET ShareId,
         \A sel \in Param : CarriedParam(c, d, k, sel),
         \A s \in ShareId, f \in shareFields : CarriedShare(c, d, k, gone, s, f)
  PROVE  Settings(d) = After(Settings(c), k, gone)
<1> DEFINE said == Settings(c)
           t == After(said, k, gone)
<1>1. IsSettings(said) /\ SetsParam(said, c) /\ SetsShares(said, c)
  BY SettingsSet
<1> HIDE DEF said
<1>2. IsSettings(t)
  BY <1>1, AfterMap DEF Command
<1>3. ASSUME NEW sel \in Param \cup ShareParam
      PROVE  /\ Puts(k, gone) /\ sel = k.sel => sel \in DOMAIN t /\ t[sel] = k.value
             /\ ~(Puts(k, gone) /\ sel = k.sel) =>
                  /\ sel \in DOMAIN t <=> sel \in DOMAIN said /\ sel \notin Gone(gone) /\ sel \notin Named(said, k)
                  /\ sel \in DOMAIN t => t[sel] = said[sel]
  BY <1>1, AfterSet DEF Command
<1> HIDE DEF t
<1>4. SetsParam(t, d)
  <2> SUFFICES ASSUME NEW sel \in Param
               PROVE  (sel \in DOMAIN t <=> sel \in DOMAIN d.value) /\ (sel \in DOMAIN t => t[sel] = d.value[sel])
    BY DEF SetsParam
  <2>1. sel[1] # "share" /\ sel \notin Gone(gone)
    BY Names DEF Gone
  <2>2. Puts(k, gone) /\ sel = k.sel <=> k.op = "set" /\ sel = k.sel
    BY <2>1 DEF Puts
  <2>3. (sel \in DOMAIN said <=> sel \in DOMAIN c.value) /\ (sel \in DOMAIN said => said[sel] = c.value[sel])
    BY <1>1 DEF SetsParam
  <2>4. CarriedParam(c, d, k, sel)
    OBVIOUS
  <2> QED BY <1>3, <2>1, <2>2, <2>3, <2>4 DEF CarriedParam, said
<1>5. SetsShares(t, d)
  <2> SUFFICES ASSUME NEW s \in ShareId, NEW f \in shareFields PROVE Sets(t, d, s, f)
    BY DEF SetsShares
  <2> DEFINE sel == <<"share", s, f>>
  <2>1. sel \in Param \cup ShareParam
    BY Names
  <2>2. Sets(said, c, s, f)
    BY <1>1 DEF SetsShares
  <2>3. CarriedShare(c, d, k, gone, s, f)
    OBVIOUS
  <2>4. (sel \in DOMAIN t <=> On(d, s, f)) /\ (sel \in DOMAIN t => t[sel] = d.shares[s][f])
    <3> HIDE DEF sel
    <3>1. /\ Puts(k, gone) /\ sel = k.sel => On(d, s, f) /\ d.shares[s][f] = k.value
          /\ ~(Puts(k, gone) /\ sel = k.sel) =>
               /\ On(d, s, f) <=> On(c, s, f) /\ ~Removed(Settings(c), k, gone, sel)
               /\ On(d, s, f) => d.shares[s][f] = c.shares[s][f]
      BY <2>3 DEF CarriedShare, sel
    <3>2. (sel \in DOMAIN said <=> On(c, s, f)) /\ (sel \in DOMAIN said => said[sel] = c.shares[s][f])
      BY <2>2 DEF Sets, On, sel
    <3>3. Removed(said, k, gone, sel) <=> sel \in Gone(gone) \/ sel \in Named(said, k)
      BY DEF Removed
    <3>4. Settings(c) = said
      BY DEF said
    <3> HIDE DEF On
    <3> QED BY <1>3, <2>1, <3>1, <3>2, <3>3, <3>4
  <2> QED BY <2>4 DEF Sets, On
<1>6. Settings(d) = t
  BY <1>2, <1>4, <1>5, SettingsOnly
<1> QED BY <1>6 DEF t, said

(* `set` of a Param.                                                       *)
LEMMA SetParamCarried ==
  ASSUME NEW c, IsConfig(c), NEW k, Command(k), k.op = "set", k.sel \in Param
  PROVE  /\ IsConfig(Set(c, k.sel, k.value))
         /\ Settings(Set(c, k.sel, k.value)) = After(Settings(c), k, {})
<1> DEFINE d == Set(c, k.sel, k.value)
<1>1. IsConfig(d) /\ d.value = Override(c.value, k.sel, k.value) /\ d.shares = c.shares
  <2>1. d = SetFile(c, k.sel, k.value)
    BY Names DEF Set
  <2> HIDE DEF d
  <2> QED BY <2>1, SetFileOf
<1> HIDE DEF d
<1>2. IsText(c) /\ IsText(d)
  BY <1>1 DEF IsConfig
<1>3. ASSUME NEW sel \in Param PROVE CarriedParam(c, d, k, sel)
  <2>1. /\ \A x : x \in DOMAIN d.value <=> x \in DOMAIN c.value \/ x = k.sel
        /\ d.value[k.sel] = k.value /\ \A x \in DOMAIN c.value : x # k.sel => d.value[x] = c.value[x]
    BY <1>1, OverrideMap
  <2>2. Named(Settings(c), k) = {k.sel}
    BY DEF Named
  <2> QED BY <2>1, <2>2 DEF CarriedParam
<1>4. ASSUME NEW s \in ShareId, NEW f \in shareFields PROVE CarriedShare(c, d, k, {}, s, f)
  <2>1. k.sel # <<"share", s, f>>
    BY Names
  <2>2. ~Removed(Settings(c), k, {}, <<"share", s, f>>)
    BY <2>1 DEF Removed, Named, Gone
  <2> QED BY <1>1, <2>1, <2>2 DEF CarriedShare, On
<1>5. Settings(d) = After(Settings(c), k, {})
  BY <1>2, <1>3, <1>4, Carried
<1> QED BY <1>1, <1>5 DEF d

(* `unset` of a Param.                                                     *)
LEMMA UnsetParamCarried ==
  ASSUME NEW c, IsConfig(c), NEW k, Command(k), k.op = "unset", k.sel \in Param
  PROVE  /\ IsConfig(UnsetField(c, k.sel))
         /\ Settings(UnsetField(c, k.sel)) = After(Settings(c), k, {})
<1> DEFINE d == UnsetField(c, k.sel)
<1>1. IsConfig(d) /\ d.value = Less(c.value, {k.sel}) /\ d.shares = c.shares
  <2>1. d = Reset(c, k.sel)
    BY Names DEF UnsetField
  <2> HIDE DEF d
  <2> QED BY <2>1, ResetOf
<1> HIDE DEF d
<1>2. IsText(c) /\ IsText(d)
  BY <1>1 DEF IsConfig
<1>3. ASSUME NEW sel \in Param PROVE CarriedParam(c, d, k, sel)
  <2>1. /\ \A x : x \in DOMAIN d.value <=> x \in DOMAIN c.value /\ x \notin {k.sel}
        /\ \A x \in DOMAIN c.value : x \notin {k.sel} => d.value[x] = c.value[x]
    BY <1>1, LessMap
  <2>2. Named(Settings(c), k) = {k.sel}
    BY DEF Named
  <2> QED BY <2>1, <2>2 DEF CarriedParam
<1>4. ASSUME NEW s \in ShareId, NEW f \in shareFields PROVE CarriedShare(c, d, k, {}, s, f)
  <2>1. k.sel # <<"share", s, f>>
    BY Names
  <2>2. ~Removed(Settings(c), k, {}, <<"share", s, f>>)
    BY <2>1 DEF Removed, Named, Gone
  <2> QED BY <1>1, <2>1, <2>2 DEF CarriedShare, On
<1>5. Settings(d) = After(Settings(c), k, {})
  BY <1>2, <1>3, <1>4, Carried
<1> QED BY <1>1, <1>5 DEF d

(* A field of a share's entry becomes v; nothing else is set or unset.     *)
LEMMA EntryPut ==
  ASSUME NEW c, IsConfig(c), NEW s \in ShareId, NEW f \in shareFields, NEW v,
         NEW d, d = PutShare(c, s, Entry(c, s, f, v))
  PROVE  /\ IsConfig(d) /\ d.value = c.value
         /\ On(d, s, f) <=> v # "disabled"
         /\ d.shares[s][f] = v
         /\ \A x \in ShareId, g \in shareFields : ~(x = s /\ g = f) =>
              (On(d, x, g) <=> On(c, x, g)) /\ (On(d, x, g) => d.shares[x][g] = c.shares[x][g])
<1> DEFINE e == Entry(c, s, f, v)
<1>1. /\ IsMap(e) /\ DOMAIN e = shareFields /\ e[f] = v
      /\ \A g \in shareFields : g # f => e[g] = Share(c, s)[g]
      /\ s \in DOMAIN c.shares => \A g \in shareFields : Share(c, s)[g] = c.shares[s][g]
      /\ s \notin DOMAIN c.shares => \A g \in shareFields : Share(c, s)[g] = "disabled"
  BY EntryMap DEF IsConfig
<1> HIDE DEF e
<1>2. IsConfig(d) /\ d.value = c.value /\ d.shares = Override(c.shares, s, e)
  BY <1>1, PutShareOf DEF e
<1>3. /\ \A x : x \in DOMAIN d.shares <=> x \in DOMAIN c.shares \/ x = s
      /\ d.shares[s] = e /\ \A x \in DOMAIN c.shares : x # s => d.shares[x] = c.shares[x]
  BY <1>2, OverrideMap
<1>4. ASSUME NEW x \in ShareId, NEW g \in shareFields, ~(x = s /\ g = f)
      PROVE  (On(d, x, g) <=> On(c, x, g)) /\ (On(d, x, g) => d.shares[x][g] = c.shares[x][g])
  <2>1. CASE x = s
    BY <1>1, <1>3, <1>4, <2>1 DEF On
  <2>2. CASE x # s
    BY <1>3, <2>2 DEF On
  <2> QED BY <2>1, <2>2
<1> QED BY <1>1, <1>2, <1>3, <1>4 DEF On
(* `set` of a share's field.                                               *)
LEMMA SetShareCarried ==
  ASSUME NEW c, IsConfig(c), NEW k, Command(k), k.op = "set", k.sel \in ShareParam
  PROVE  /\ IsConfig(Set(c, k.sel, k.value))
         /\ Settings(Set(c, k.sel, k.value)) = After(Settings(c), k, {})
<1> DEFINE d == Set(c, k.sel, k.value)
<1>1. PICK s0 \in ShareId, f0 \in shareFields : k.sel = <<"share", s0, f0>>
  BY Names
<1>2. d = PutShare(c, s0, Entry(c, s0, f0, k.value))
  BY <1>1 DEF Set, setShareField, Entry
<1> HIDE DEF d
<1>3. /\ IsConfig(d) /\ d.value = c.value
      /\ On(d, s0, f0) <=> k.value # "disabled"
      /\ d.shares[s0][f0] = k.value
      /\ \A x \in ShareId, g \in shareFields : ~(x = s0 /\ g = f0) =>
           (On(d, x, g) <=> On(c, x, g)) /\ (On(d, x, g) => d.shares[x][g] = c.shares[x][g])
  BY <1>2, EntryPut
<1>4. IsText(c) /\ IsText(d)
  BY <1>3 DEF IsConfig
<1>5. Named(Settings(c), k) = {k.sel}
  BY DEF Named
<1>6. ASSUME NEW sel \in Param PROVE CarriedParam(c, d, k, sel)
  <2>1. sel # k.sel
    BY Names
  <2> QED BY <1>3, <1>5, <2>1 DEF CarriedParam
<1>7. ASSUME NEW s \in ShareId, NEW f \in shareFields PROVE CarriedShare(c, d, k, {}, s, f)
  <2>1. Removed(Settings(c), k, {}, <<"share", s, f>>) <=> s = s0 /\ f = f0
    BY <1>1, <1>5 DEF Removed, Gone
  <2>2. Puts(k, {}) <=> k.value # "disabled"
    BY <1>1 DEF Puts
  <2>3. k.sel = <<"share", s, f>> <=> s = s0 /\ f = f0
    BY <1>1
  <2>4. CASE s = s0 /\ f = f0
    BY <1>3, <2>1, <2>2, <2>3, <2>4 DEF CarriedShare
  <2>5. CASE ~(s = s0 /\ f = f0)
    BY <1>3, <2>1, <2>3, <2>5 DEF CarriedShare
  <2> QED BY <2>4, <2>5
<1>8. Settings(d) = After(Settings(c), k, {})
  BY <1>4, <1>6, <1>7, Carried
<1> QED BY <1>3, <1>8 DEF d

(* `unset` of a share's field: the entry goes with its last one.           *)
LEMMA UnsetShareCarried ==
  ASSUME NEW c, IsConfig(c), NEW k, Command(k), k.op = "unset", k.sel \in ShareParam
  PROVE  /\ IsConfig(UnsetField(c, k.sel))
         /\ Settings(UnsetField(c, k.sel)) = After(Settings(c), k, {})
<1> DEFINE d == UnsetField(c, k.sel)
<1>1. PICK s0 \in ShareId, f0 \in shareFields : k.sel = <<"share", s0, f0>>
  BY Names
<1> DEFINE e == Entry(c, s0, f0, "disabled")
<1>2. d = IF e = Disabled THEN Without(c, {s0}) ELSE PutShare(c, s0, e)
  BY <1>1 DEF UnsetField, unsetShareField, Entry
<1> HIDE DEF d
<1>3. /\ IsConfig(d) /\ d.value = c.value /\ ~On(d, s0, f0)
      /\ \A x \in ShareId, g \in shareFields : ~(x = s0 /\ g = f0) =>
           (On(d, x, g) <=> On(c, x, g)) /\ (On(d, x, g) => d.shares[x][g] = c.shares[x][g])
  <2>1. CASE e = Disabled
    <3>1. /\ \A g \in shareFields : g # f0 => e[g] = Share(c, s0)[g]
          /\ s0 \in DOMAIN c.shares => \A g \in shareFields : Share(c, s0)[g] = c.shares[s0][g]
      BY EntryMap DEF IsConfig
    <3> HIDE DEF e
    <3>2. \A g \in shareFields : e[g] = "disabled"
      BY <2>1, DisabledMap
    <3>3. ASSUME NEW g \in shareFields, g # f0 PROVE ~On(c, s0, g)
      BY <3>1, <3>2, <3>3 DEF On
    <3>4. d = Without(c, {s0})
      BY <1>2, <2>1
    <3>5. IsConfig(d) /\ d.value = c.value /\ d.shares = Less(c.shares, {s0})
      BY <3>4, WithoutOf
    <3>6. /\ \A x : x \in DOMAIN d.shares <=> x \in DOMAIN c.shares /\ x \notin {s0}
          /\ \A x \in DOMAIN c.shares : x \notin {s0} => d.shares[x] = c.shares[x]
      BY <3>5, LessMap
    <3>7. ASSUME NEW x \in ShareId, NEW g \in shareFields, ~(x = s0 /\ g = f0)
          PROVE  (On(d, x, g) <=> On(c, x, g)) /\ (On(d, x, g) => d.shares[x][g] = c.shares[x][g])
      <4>1. CASE x = s0
        BY <3>3, <3>6, <3>7, <4>1 DEF On
      <4>2. CASE x # s0
        BY <3>6, <4>2 DEF On
      <4> QED BY <4>1, <4>2
    <3> QED BY <3>5, <3>6, <3>7 DEF On
  <2>2. CASE e # Disabled
    BY <1>2, <2>2, EntryPut
  <2> QED BY <2>1, <2>2
<1>4. IsText(c) /\ IsText(d)
  BY <1>3 DEF IsConfig
<1>5. Named(Settings(c), k) = {k.sel}
  BY DEF Named
<1>6. ASSUME NEW sel \in Param PROVE CarriedParam(c, d, k, sel)
  <2>1. sel # k.sel
    BY Names
  <2> QED BY <1>3, <1>5, <2>1 DEF CarriedParam
<1>7. ASSUME NEW s \in ShareId, NEW f \in shareFields PROVE CarriedShare(c, d, k, {}, s, f)
  <2>1. Removed(Settings(c), k, {}, <<"share", s, f>>) <=> s = s0 /\ f = f0
    BY <1>1, <1>5 DEF Removed, Gone
  <2>2. ~Puts(k, {})
    BY DEF Puts
  <2>3. CASE s = s0 /\ f = f0
    BY <1>3, <2>1, <2>2, <2>3 DEF CarriedShare
  <2>4. CASE ~(s = s0 /\ f = f0)
    BY <1>3, <2>1, <2>2, <2>4 DEF CarriedShare
  <2> QED BY <2>3, <2>4
<1>8. Settings(d) = After(Settings(c), k, {})
  BY <1>4, <1>6, <1>7, Carried
<1> QED BY <1>3, <1>8 DEF d

(* `unset --all`.                                                          *)
LEMMA UnsetAllCarried ==
  ASSUME NEW c, IsConfig(c), NEW k, k.op = "all"
  PROVE  /\ IsConfig(runUnsetAll(c, k.prefix))
         /\ Settings(runUnsetAll(c, k.prefix)) = After(Settings(c), k, {})
<1> DEFINE said == Settings(c)
           named == {sel \in DOMAIN List(c) : MatchPrefix(sel, k.prefix)}
           left(s) == [f \in shareFields |->
                         IF <<"share", s, f>> \in named THEN "disabled" ELSE c.shares[s][f]]
           gone == {s \in DOMAIN c.shares :
                      left(s) = Disabled /\ \E f \in shareFields : <<"share", s, f>> \in named}
           shares == [s \in DOMAIN c.shares \ gone |-> left(s)]
           d == runUnsetAll(c, k.prefix)
<1>1. named = Named(said, k)
  BY Marshalled DEF Named, List
<1>2. d = [value |-> Less(c.value, named), cli |-> c.cli \ named, shares |-> shares]
  BY DEF runUnsetAll
<1> HIDE DEF d
<1>3. IsText(c) /\ c.cli = {}
  BY DEF IsConfig
<1>4. IsSettings(said) /\ SetsParam(said, c) /\ SetsShares(said, c)
  BY <1>3, SettingsSet
<1>5. d.value = Less(c.value, named) /\ d.shares = shares /\ d = [value |-> d.value, cli |-> {}, shares |-> d.shares]
  BY <1>2, <1>3
<1>6. /\ IsMap(shares) /\ DOMAIN shares = DOMAIN c.shares \ gone
      /\ \A s \in DOMAIN c.shares \ gone : shares[s] = left(s)
  BY DEF IsMap
<1>7. \A s : /\ IsMap(left(s)) /\ DOMAIN left(s) = shareFields
             /\ \A f \in shareFields : left(s)[f] = IF <<"share", s, f>> \in named THEN "disabled" ELSE c.shares[s][f]
  BY DEF IsMap
<1>8. \A s : s \in gone <=> s \in DOMAIN c.shares /\ left(s) = Disabled /\ \E f \in shareFields : <<"share", s, f>> \in named
  OBVIOUS
<1>9. /\ IsMap(d.value) /\ \A x : x \in DOMAIN d.value <=> x \in DOMAIN c.value /\ x \notin named
      /\ \A x \in DOMAIN c.value : x \notin named => d.value[x] = c.value[x]
  BY <1>5, LessMap
<1> HIDE DEF shares, left, gone, said, named
<1>10. IsText(d) /\ IsConfig(d)
  BY <1>3, <1>5, <1>6, <1>7, <1>9 DEF IsText, IsConfig
<1>11. ASSUME NEW sel \in Param PROVE CarriedParam(c, d, k, sel)
  BY <1>1, <1>9 DEF CarriedParam, said
<1>12. ASSUME NEW s \in ShareId, NEW f \in shareFields PROVE CarriedShare(c, d, k, {}, s, f)
  <2>1. Removed(Settings(c), k, {}, <<"share", s, f>>) <=> <<"share", s, f>> \in named
    BY <1>1 DEF Removed, Gone, said
  <2>2. ~Puts(k, {})
    BY DEF Puts
  <2>3. /\ On(d, s, f) <=> On(c, s, f) /\ <<"share", s, f>> \notin named
        /\ On(d, s, f) => d.shares[s][f] = c.shares[s][f]
    <3>1. CASE s \in gone
      <4>1. ~On(d, s, f)
        BY <1>5, <1>6, <3>1 DEF On
      <4>2. left(s)[f] = "disabled"
        BY <1>8, <3>1, DisabledMap
      <4> QED BY <1>7, <4>1, <4>2 DEF On
    <3>2. CASE s \notin gone
      BY <1>5, <1>6, <1>7, <3>2 DEF On
    <3> QED BY <3>1, <3>2
  <2> QED BY <2>1, <2>2, <2>3 DEF CarriedShare
<1>13. Settings(d) = After(Settings(c), k, {})
  BY <1>3, <1>10, <1>11, <1>12, Carried DEF Command
<1> QED BY <1>10, <1>13 DEF d

(* The cleanup of the shares the server no longer has: the request that    *)
(* was to be carried out in said, and the entries of those shares.            *)
LEMMA WithoutCarried ==
  ASSUME NEW c, IsConfig(c), NEW gone \in SUBSET ShareId, NEW said, IsSettings(said),
         NEW k, k.op = "set", k.sel \in ShareParam, Settings(c) = After(said, k, {})
  PROVE  IsConfig(Without(c, gone)) /\ Settings(Without(c, gone)) = After(said, k, gone)
<1> DEFINE d == Without(c, gone)
           u == After(said, k, {})
           t == After(said, k, gone)
<1>1. IsConfig(d) /\ d.value = c.value /\ d.shares = Less(c.shares, gone)
  BY WithoutOf
<1> HIDE DEF d
<1>2. IsText(c) /\ IsText(d)
  BY <1>1 DEF IsConfig
<1>3. SetsParam(u, c) /\ SetsShares(u, c)
  BY <1>2, SettingsSet
<1>4. IsSettings(t)
  BY AfterMap
<1>5. ASSUME NEW sel \in Param \cup ShareParam
      PROVE  /\ Puts(k, {}) /\ sel = k.sel => sel \in DOMAIN u /\ u[sel] = k.value
             /\ ~(Puts(k, {}) /\ sel = k.sel) =>
                  /\ sel \in DOMAIN u <=> sel \in DOMAIN said /\ sel \notin Gone({}) /\ sel \notin Named(said, k)
                  /\ sel \in DOMAIN u => u[sel] = said[sel]
  BY AfterSet
<1>6. ASSUME NEW sel \in Param \cup ShareParam
      PROVE  /\ Puts(k, gone) /\ sel = k.sel => sel \in DOMAIN t /\ t[sel] = k.value
             /\ ~(Puts(k, gone) /\ sel = k.sel) =>
                  /\ sel \in DOMAIN t <=> sel \in DOMAIN said /\ sel \notin Gone(gone) /\ sel \notin Named(said, k)
                  /\ sel \in DOMAIN t => t[sel] = said[sel]
  BY AfterSet
<1> HIDE DEF u, t
<1>7. Gone({}) = {} /\ (Puts(k, gone) <=> Puts(k, {}) /\ k.sel \notin Gone(gone)) /\ Named(said, k) = {k.sel}
  BY Names DEF Gone, Puts, Named
<1>8. ASSUME NEW sel \in Param \cup ShareParam
      PROVE  (sel \in DOMAIN t <=> sel \in DOMAIN u /\ sel \notin Gone(gone)) /\ (sel \in DOMAIN t => t[sel] = u[sel])
  <2>1. CASE sel = k.sel
    BY <1>5, <1>6, <1>7, <2>1
  <2>2. CASE sel # k.sel
    BY <1>5, <1>6, <1>7, <2>2
  <2> QED BY <2>1, <2>2
<1>9. SetsParam(t, d)
  <2> SUFFICES ASSUME NEW sel \in Param
               PROVE  (sel \in DOMAIN t <=> sel \in DOMAIN d.value) /\ (sel \in DOMAIN t => t[sel] = d.value[sel])
    BY DEF SetsParam
  <2>1. sel \notin Gone(gone)
    BY Names DEF Gone
  <2> QED BY <1>1, <1>3, <1>8, <2>1 DEF SetsParam
<1>10. SetsShares(t, d)
  <2> SUFFICES ASSUME NEW s \in ShareId, NEW f \in shareFields PROVE Sets(t, d, s, f)
    BY DEF SetsShares
  <2>1. <<"share", s, f>> \in ShareParam /\ (<<"share", s, f>> \in Gone(gone) <=> s \in gone)
    BY Names DEF Gone
  <2>2. Sets(u, c, s, f)
    BY <1>3 DEF SetsShares
  <2>3. /\ \A x : x \in DOMAIN d.shares <=> x \in DOMAIN c.shares /\ x \notin gone
        /\ \A x \in DOMAIN c.shares : x \notin gone => d.shares[x] = c.shares[x]
    BY <1>1, LessMap
  <2> QED BY <1>8, <2>1, <2>2, <2>3 DEF Sets
<1>11. Settings(d) = t
  BY <1>2, <1>4, <1>9, <1>10, SettingsOnly
<1> QED BY <1>1, <1>11 DEF d, t

(***************************************************************************)
(* The invariant, of programs that write one at a time                     *)
(***************************************************************************)
(* At most one program is at work.                                         *)
Solo == \A p, q \in Proc : doing[p] # "idle" /\ doing[q] # "idle" => p = q
(* What the program at work will save is what its request makes of the     *)
(* settings, in memory first, then in the temporary file.                  *)
Doing(p) ==
  /\ doing[p] # "idle" => Command(cmd[p])
  /\ doing[p] \in {"idle", "resolve", "cleanup"} => dropped[p] = {}
  /\ doing[p] = "resolve" => cmd[p].op # "all" /\ (cmd[p].op = "unset" => Settings(cfg[p]) = wanted)
  /\ doing[p] = "cleanup" => cmd[p].op = "set" /\ cmd[p].sel \in ShareParam
  /\ doing[p] \in {"cleanup", "open", "write"} => Settings(cfg[p]) = After(wanted, cmd[p], dropped[p])
  /\ doing[p] = "write" => tmp # 0 /\ fd[p] = tmp /\ inode[tmp].kind = "empty"
  /\ doing[p] # "write" => fd[p] = 0
  /\ doing[p] = "rename" => tmp # 0 /\ Settings(inode[tmp]) = After(wanted, cmd[p], dropped[p])
ConfigInv ==
  /\ ConfigTypeOK /\ FileIsWhatWasAsked
  /\ Solo /\ \A p \in Proc : Doing(p)
  /\ tmp # 0 => tmp # path

LEMMA Inodes == Inode \subseteq Nat /\ {1, 2} \subseteq Inode /\ 0 \notin Inode
<1>1. Cardinality(Proc) \in Nat
  BY ProcAssumption, FS_CardinalityType
<1> QED BY <1>1 DEF Inode
LEMMA BlankFile == \A k \in {"none", "empty", "torn"} : IsFile(Blank(k)) /\ Settings(Blank(k)) = Settings(DefaultConfig)
  BY DEF IsFile, Blank, Settings, Enabled, DefaultConfig
LEMMA DefaultText == IsConfig(DefaultConfig)
  BY NothingMap DEF IsConfig, IsText, DefaultConfig
LEMMA ContentFile ==
  ASSUME ConfigTypeOK, FileIsWhatWasAsked
  PROVE  IsFile(Content) /\ IsConfig(LoadConfig) /\ Settings(LoadConfig) = wanted /\ IsSettings(wanted)
<1>1. IsFile(Content)
  BY BlankFile DEF Content, ConfigTypeOK
<1>2. IsConfig(LoadConfig) /\ Settings(LoadConfig) = Settings(Content)
  BY <1>1, Loaded DEF LoadConfig
<1> QED BY <1>1, <1>2 DEF FileIsWhatWasAsked, ConfigTypeOK, IsSettings

LEMMA ConfigInitInv == ConfigInit => ConfigInv
<1> SUFFICES ASSUME ConfigInit PROVE ConfigInv
  OBVIOUS
<1>1. PICK world \in Worlds :
        /\ inode = [i \in Inode |-> IF i = 1 THEN world.file ELSE Blank("empty")]
        /\ path = (IF world.file.kind = "none" THEN 0 ELSE 1)
        /\ wanted = Settings(world.file)
  BY DEF ConfigInit
<1>2. IsFile(world.file)
  BY WorldAssumption
<1>3. DOMAIN inode = Inode /\ \A i \in Inode : IsFile(inode[i])
  BY <1>1, <1>2, BlankFile
<1>4. Content = world.file
  BY <1>1, <1>2, Inodes DEF Content, IsFile
<1>5. IsSettings(wanted)
  BY <1>1, <1>2, FileText, SettingsSet
<1>6. /\ tmp = 0 /\ doing = [p \in Proc |-> "idle"] /\ cfg = [p \in Proc |-> DefaultConfig]
      /\ fd = [p \in Proc |-> 0] /\ dropped = [p \in Proc |-> {}] /\ accessible = ShareId
      /\ commands = 0 /\ faults = 0 /\ DOMAIN cmd = Proc
  BY DEF ConfigInit
<1>7. ConfigTypeOK
  BY <1>1, <1>3, <1>5, <1>6, Inodes, DefaultText, ConfigBoundAssumption DEF ConfigTypeOK, IsSettings
<1>8. FileIsWhatWasAsked
  BY <1>1, <1>4 DEF FileIsWhatWasAsked
<1>9. Solo /\ \A p \in Proc : Doing(p)
  BY <1>6 DEF Solo, Doing
<1> QED BY <1>6, <1>7, <1>8, <1>9 DEF ConfigInv

(* The other programs are idle and stay so.                                *)
LEMMA OthersStay ==
  ASSUME ConfigInv, NEW p \in Proc, doing[p] # "idle" \/ \A q \in Proc : doing[q] = "idle",
         \A q \in Proc : q # p => doing'[q] = doing[q] /\ fd'[q] = fd[q] /\ dropped'[q] = dropped[q],
         Doing(p)'
  PROVE  Solo' /\ \A q \in Proc : Doing(q)'
<1>1. ASSUME NEW q \in Proc, q # p
      PROVE  doing[q] = "idle" /\ doing'[q] = "idle" /\ fd'[q] = 0 /\ dropped'[q] = {}
  BY <1>1 DEF ConfigInv, Solo, Doing
<1>2. Solo'
  BY <1>1 DEF Solo
<1>3. ASSUME NEW q \in Proc, q # p PROVE Doing(q)'
  BY <1>1, <1>3 DEF Doing
<1> QED BY <1>2, <1>3

LEMMA BeginKeeps ==
  ASSUME ConfigInv, ~Overlap, NEW p \in Proc, NEW c, NEW l \in {"resolve", "open"}, NEW config,
         Begin(p, c, l, config), Command(c), IsConfig(config),
         l = "resolve" => c.op # "all" /\ (c.op = "unset" => Settings(config) = wanted),
         l = "open" => Settings(config) = After(wanted, c, {})
  PROVE  ConfigInv'
<1> USE DEF disk
<1>1. /\ doing[p] = "idle" /\ commands < MaxCommands /\ \A q \in Proc : doing[q] = "idle"
      /\ commands' = commands + 1
      /\ cmd' = [cmd EXCEPT ![p] = c] /\ cfg' = [cfg EXCEPT ![p] = config]
      /\ doing' = [doing EXCEPT ![p] = l]
      /\ inode' = inode /\ path' = path /\ tmp' = tmp /\ accessible' = accessible /\ fd' = fd
      /\ dropped' = dropped /\ wanted' = wanted /\ faults' = faults
  BY DEF Begin, MoveTo
<1>2. ConfigTypeOK'
  BY <1>1, ConfigBoundAssumption DEF ConfigInv, ConfigTypeOK
<1>3. FileIsWhatWasAsked'
  BY <1>1 DEF ConfigInv, FileIsWhatWasAsked, Content
<1>4. doing'[p] = l /\ cmd'[p] = c /\ cfg'[p] = config /\ dropped'[p] = {} /\ fd'[p] = 0
  BY <1>1 DEF ConfigInv, ConfigTypeOK, Doing
<1>5. Doing(p)'
  BY <1>1, <1>4 DEF Doing
<1>6. \A q \in Proc : q # p => doing'[q] = doing[q] /\ fd'[q] = fd[q] /\ dropped'[q] = dropped[q]
  BY <1>1 DEF ConfigInv, ConfigTypeOK
<1>7. Solo' /\ \A q \in Proc : Doing(q)'
  BY <1>1, <1>5, <1>6, OthersStay
<1> QED BY <1>1, <1>2, <1>3, <1>7 DEF ConfigInv

LEMMA ExitKeeps ==
  ASSUME ConfigInv, NEW p \in Proc, Exit(p), doing[p] # "idle", tmp' \in {0, tmp},
         UNCHANGED <<inode, path, accessible, wanted, commands>>, faults' \in 0..MaxFaults
  PROVE  ConfigInv'
<1>1. /\ doing' = [doing EXCEPT ![p] = "idle"] /\ cmd' = [cmd EXCEPT ![p] = NoCommand]
      /\ cfg' = [cfg EXCEPT ![p] = DefaultConfig] /\ fd' = [fd EXCEPT ![p] = 0]
      /\ dropped' = [dropped EXCEPT ![p] = {}]
  BY DEF Exit, MoveTo
<1>2. ConfigTypeOK'
  BY <1>1, DefaultText DEF ConfigInv, ConfigTypeOK
<1>3. FileIsWhatWasAsked'
  BY <1>1 DEF ConfigInv, FileIsWhatWasAsked, Content
<1>4. doing'[p] = "idle" /\ dropped'[p] = {} /\ fd'[p] = 0
  BY <1>1 DEF ConfigInv, ConfigTypeOK
<1>5. Doing(p)'
  BY <1>4 DEF Doing
<1>6. \A q \in Proc : q # p => doing'[q] = doing[q] /\ fd'[q] = fd[q] /\ dropped'[q] = dropped[q]
  BY <1>1 DEF ConfigInv, ConfigTypeOK
<1>7. Solo' /\ \A q \in Proc : Doing(q)'
  BY <1>5, <1>6, OthersStay
<1> QED BY <1>2, <1>3, <1>7 DEF ConfigInv

LEMMA TypedSelector ==
  ASSUME NEW sel \in Typed
  PROVE  sel \in Param \cup ShareParam /\ (sel[1] = "share" <=> sel \in ShareParam)
  BY Names DEF Typed

Holds(p, c) == DOMAIN cfg' = Proc /\ cfg'[p] = c /\ \A q \in Proc : q # p => cfg'[q] = cfg[q]
LEMMA EditKeeps ==
  ASSUME ConfigInv, NEW p \in Proc, doing[p] \in {"resolve", "cleanup"}, NEW c, IsConfig(c),
         NEW l \in {"cleanup", "open"}, Holds(p, c), doing' = [doing EXCEPT ![p] = l],
         UNCHANGED <<inode, path, tmp, accessible, wanted, commands, cmd, fd>>, faults' \in 0..MaxFaults,
         NEW gone \in SUBSET ShareId, dropped' = [dropped EXCEPT ![p] = gone],
         l = "cleanup" => gone = {} /\ cmd[p].op = "set" /\ cmd[p].sel \in ShareParam,
         Settings(c) = After(wanted, cmd[p], gone)
  PROVE  ConfigInv'
<1>1. ConfigTypeOK'
  BY DEF ConfigInv, ConfigTypeOK, Holds
<1>2. FileIsWhatWasAsked'
  BY DEF ConfigInv, FileIsWhatWasAsked, Content
<1>3. doing'[p] = l /\ cmd'[p] = cmd[p] /\ cfg'[p] = c /\ dropped'[p] = gone /\ fd'[p] = 0 /\ Command(cmd[p])
  BY DEF ConfigInv, ConfigTypeOK, Doing, Holds
<1>4. Doing(p)'
  BY <1>3 DEF Doing
<1>5. \A q \in Proc : q # p => doing'[q] = doing[q] /\ fd'[q] = fd[q] /\ dropped'[q] = dropped[q]
  BY DEF ConfigInv, ConfigTypeOK
<1>6. Solo' /\ \A q \in Proc : Doing(q)'
  BY <1>4, <1>5, OthersStay
<1> QED BY <1>1, <1>2, <1>6 DEF ConfigInv

LEMMA BeginsKeep ==
  ASSUME ConfigInv, ~Overlap, NEW p \in Proc, BeginSet(p) \/ BeginUnset(p) \/ BeginUnsetAll(p)
  PROVE  ConfigInv'
<1>1. IsConfig(LoadConfig) /\ Settings(LoadConfig) = wanted
  BY ContentFile DEF ConfigInv
<1>2. CASE BeginSet(p)
  <2>0. PICK sel \in Typed, named \in BOOLEAN : \E v :
          Begin(p, [op |-> "set", sel |-> sel, value |-> v, named |-> named], "resolve", DefaultConfig)
    BY <1>2 DEF BeginSet
  <2>1. PICK v : Begin(p, [op |-> "set", sel |-> sel, value |-> v, named |-> named], "resolve", DefaultConfig)
    BY <2>0
  <2> DEFINE c == [op |-> "set", sel |-> sel, value |-> v, named |-> named]
  <2>2. Command(c) /\ c.op = "set"
    BY TypedSelector DEF Command
  <2> HIDE DEF c
  <2> QED BY <2>1, <2>2, BeginKeeps, DefaultText DEF c
<1>3. CASE BeginUnset(p)
  <2>1. PICK sel \in Typed, named \in BOOLEAN :
          Begin(p, [op |-> "unset", sel |-> sel, named |-> named], "resolve", LoadConfig)
    BY <1>3 DEF BeginUnset
  <2> DEFINE c == [op |-> "unset", sel |-> sel, named |-> named]
  <2>2. Command(c) /\ c.op = "unset"
    BY TypedSelector DEF Command
  <2>3. Begin(p, c, "resolve", LoadConfig)
    BY <2>1
  <2> HIDE DEF c
  <2> QED BY <1>1, <2>2, <2>3, BeginKeeps
<1>4. CASE BeginUnsetAll(p)
  <2>1. PICK prefix \in GivenPrefix :
          Begin(p, [op |-> "all", prefix |-> prefix], "open", runUnsetAll(LoadConfig, prefix))
    BY <1>4 DEF BeginUnsetAll
  <2> DEFINE c == [op |-> "all", prefix |-> prefix]
  <2>2. Command(c) /\ c.op = "all" /\ c.prefix = prefix
    BY DEF Command
  <2>3. Begin(p, c, "open", runUnsetAll(LoadConfig, c.prefix))
    BY <2>1
  <2> HIDE DEF c
  <2>4. IsConfig(runUnsetAll(LoadConfig, c.prefix))
        /\ Settings(runUnsetAll(LoadConfig, c.prefix)) = After(wanted, c, {})
    BY <1>1, <2>2, UnsetAllCarried
  <2> QED BY <2>2, <2>3, <2>4, BeginKeeps
<1> QED BY <1>2, <1>3, <1>4

LEMMA LoadAndSetKeeps ==
  ASSUME ConfigInv, NEW p \in Proc, LoadAndSet(p)
  PROVE  ConfigInv'
<1> DEFINE k == cmd[p]
<1>1. doing[p] = "resolve" /\ k.op = "set" /\ UNCHANGED <<inode, path, tmp, accessible, wanted, commands, faults>>
  BY DEF LoadAndSet, Resolves, disk
<1>2. Command(k) /\ k.sel \in Param \cup ShareParam /\ dropped[p] = {}
  BY <1>1 DEF ConfigInv, Doing, Command
<1>3. IsConfig(LoadConfig) /\ Settings(LoadConfig) = wanted
  BY ContentFile DEF ConfigInv
<1>4. faults \in 0..MaxFaults
  BY DEF ConfigInv, ConfigTypeOK
<1>5. CASE Exit(p)
  BY <1>1, <1>4, <1>5, ExitKeeps
<1>6. CASE Edit(p, Set(LoadConfig, k.sel, k.value), IF k.sel[1] = "share" THEN "cleanup" ELSE "open")
  <2> DEFINE c == Set(LoadConfig, k.sel, k.value)
             l == IF k.sel[1] = "share" THEN "cleanup" ELSE "open"
  <2>1. IsConfig(c) /\ Settings(c) = After(wanted, k, {})
    BY <1>1, <1>2, <1>3, SetParamCarried, SetShareCarried
  <2>2. cfg' = [cfg EXCEPT ![p] = c] /\ doing' = [doing EXCEPT ![p] = l] /\ UNCHANGED <<cmd, fd, dropped>>
    BY <1>6 DEF Edit, MoveTo
  <2>3. l \in {"cleanup", "open"} /\ (l = "cleanup" => k.sel \in ShareParam)
    BY <1>2, Names
  <2>4. dropped' = [dropped EXCEPT ![p] = {}]
    BY <1>2, <2>2 DEF ConfigInv, ConfigTypeOK
  <2> HIDE DEF c, l
  <2>5. Holds(p, c)
    BY <2>2 DEF ConfigInv, ConfigTypeOK, Holds
  <2> QED BY <1>1, <1>4, <2>1, <2>2, <2>3, <2>4, <2>5, EditKeeps
<1> QED BY <1>5, <1>6 DEF LoadAndSet

LEMMA UnsetKeeps ==
  ASSUME ConfigInv, NEW p \in Proc, Unset(p)
  PROVE  ConfigInv'
<1> DEFINE k == cmd[p]
           c == UnsetField(cfg[p], k.sel)
<1>1. /\ doing[p] = "resolve" /\ k.op = "unset"
      /\ UNCHANGED <<inode, path, tmp, accessible, wanted, commands, faults, cmd, fd, dropped>>
      /\ cfg' = [cfg EXCEPT ![p] = c] /\ doing' = [doing EXCEPT ![p] = "open"]
  BY DEF Unset, Resolves, Edit, MoveTo, disk
<1>2. Command(k) /\ k.sel \in Param \cup ShareParam /\ dropped[p] = {} /\ Settings(cfg[p]) = wanted
  BY <1>1 DEF ConfigInv, Doing, Command
<1>3. IsConfig(cfg[p]) /\ faults \in 0..MaxFaults
  BY DEF ConfigInv, ConfigTypeOK
<1>4. IsConfig(c) /\ Settings(c) = After(wanted, k, {})
  BY <1>1, <1>2, <1>3, UnsetParamCarried, UnsetShareCarried
<1>5. dropped' = [dropped EXCEPT ![p] = {}]
  BY <1>1, <1>2 DEF ConfigInv, ConfigTypeOK
<1> HIDE DEF c
<1>6. Holds(p, c)
  BY <1>1 DEF ConfigInv, ConfigTypeOK, Holds
<1> QED BY <1>1, <1>3, <1>4, <1>5, <1>6, EditKeeps

LEMMA CleanUpKeeps ==
  ASSUME ConfigInv, NEW p \in Proc, CleanUp(p) \/ SkipCleanUp(p)
  PROVE  ConfigInv'
<1> DEFINE k == cmd[p]
<1>1. doing[p] = "cleanup" /\ UNCHANGED <<inode, path, tmp, accessible, wanted, commands, cmd, fd>>
      /\ doing' = [doing EXCEPT ![p] = "open"]
  BY DEF CleanUp, SkipCleanUp, MoveTo, disk, own
<1>2. /\ k.op = "set" /\ k.sel \in ShareParam /\ dropped[p] = {}
      /\ Settings(cfg[p]) = After(wanted, k, dropped[p])
  BY <1>1 DEF ConfigInv, Doing
<1>3. IsConfig(cfg[p]) /\ faults \in 0..MaxFaults /\ DOMAIN cfg = Proc /\ dropped \in [Proc -> SUBSET ShareId]
  BY DEF ConfigInv, ConfigTypeOK
<1>4. faults' \in 0..MaxFaults
  <2>1. faults' = faults \/ Fault
    BY DEF CleanUp, SkipCleanUp
  <2> QED BY <1>3, <2>1, ConfigBoundAssumption DEF Fault
<1>5. CASE CleanUp(p)
  <2>1. PICK lost \in SUBSET accessible :
          /\ cfg' = [cfg EXCEPT ![p] = Without(cfg[p], DOMAIN cfg[p].shares \ ListShares(lost))]
          /\ dropped' = [dropped EXCEPT ![p] = DOMAIN cfg[p].shares \ ListShares(lost)]
    BY <1>5 DEF CleanUp
  <2> DEFINE gone == DOMAIN cfg[p].shares \ ListShares(lost)
  <2>2. gone \in SUBSET ShareId
    BY <1>3 DEF IsConfig, IsText
  <2>3. IsSettings(wanted)
    BY ContentFile DEF ConfigInv
  <2> HIDE DEF gone
  <2>4. IsConfig(Without(cfg[p], gone)) /\ Settings(Without(cfg[p], gone)) = After(wanted, k, gone)
    BY <1>2, <1>3, <2>2, <2>3, WithoutCarried
  <2>5. cfg' = [cfg EXCEPT ![p] = Without(cfg[p], gone)] /\ dropped' = [dropped EXCEPT ![p] = gone]
    BY <2>1 DEF gone
  <2>6. Holds(p, Without(cfg[p], gone))
    BY <1>3, <2>5 DEF Holds
  <2> QED BY <1>1, <1>4, <2>2, <2>4, <2>5, <2>6, EditKeeps
<1>6. CASE SkipCleanUp(p)
  <2>1. cfg' = cfg /\ dropped' = dropped
    BY <1>6 DEF SkipCleanUp, own
  <2>2. dropped' = [dropped EXCEPT ![p] = {}] /\ Holds(p, cfg[p])
    BY <1>2, <1>3, <2>1 DEF Holds
  <2> QED BY <1>1, <1>2, <1>3, <1>4, <2>1, <2>2, EditKeeps
<1> QED BY <1>5, <1>6

LEMMA OpenTmpKeeps ==
  ASSUME ConfigInv, NEW p \in Proc, OpenTmp(p)
  PROVE  ConfigInv'
<1> DEFINE free == Inode \ ({path, tmp} \cup Open)
           i == IF tmp # 0 THEN tmp ELSE CHOOSE n \in free : \A m \in free : n <= m
<1>1. /\ doing[p] = "open" /\ tmp' = i /\ inode' = [inode EXCEPT ![i] = Blank("empty")]
      /\ fd' = [fd EXCEPT ![p] = i] /\ doing' = [doing EXCEPT ![p] = "write"]
      /\ UNCHANGED <<path, accessible, cmd, cfg, dropped, wanted, commands, faults>>
  BY DEF OpenTmp, MoveTo
<1>2. tmp \in {0} \cup Inode /\ path \in {0} \cup Inode /\ (tmp # 0 => tmp # path)
  BY DEF ConfigInv, ConfigTypeOK
<1>3. i \in Inode /\ i # path /\ i # 0
  <2>1. CASE tmp # 0
    BY <1>2, <2>1, Inodes
  <2>2. CASE tmp = 0
    <3>1. ASSUME NEW q \in Proc PROVE fd[q] = 0
      <4>1. CASE q = p
        BY <1>1, <4>1 DEF ConfigInv, Doing
      <4>2. CASE q # p
        BY <1>1, <4>2 DEF ConfigInv, Solo, Doing
      <4> QED BY <4>1, <4>2
    <3>2. Open \subseteq {0}
      BY <3>1 DEF Open
    <3>3. free = Inode \ {path}
      BY <2>2, <3>2, Inodes
    <3>4. \E n \in free : \A m \in free : n <= m
      <4>1. \A n \in Inode : 1 <= n /\ (n # 1 => 2 <= n)
        BY Inodes
      <4>2. CASE path # 1
        <5>1. 1 \in free
          BY <3>3, <4>2, Inodes
        <5> QED BY <3>3, <4>1, <5>1
      <4>3. CASE path = 1
        <5>1. 2 \in free
          BY <3>3, <4>3, Inodes
        <5> QED BY <3>3, <4>1, <4>3, <5>1
      <4> QED BY <4>2, <4>3
    <3> HIDE DEF free
    <3>5. i \in free
      BY <2>2, <3>4
    <3> QED BY <3>3, <3>5, Inodes
  <2> QED BY <2>1, <2>2
<1> HIDE DEF i
<1>4. /\ DOMAIN inode' = Inode /\ inode'[i] = Blank("empty")
      /\ \A j \in Inode : j # i => inode'[j] = inode[j]
  BY <1>1, <1>3 DEF ConfigInv, ConfigTypeOK
<1>5. ConfigTypeOK'
  BY <1>1, <1>3, <1>4, BlankFile DEF ConfigInv, ConfigTypeOK
<1>6. FileIsWhatWasAsked'
  <2>1. path # 0 => inode'[path] = inode[path]
    BY <1>2, <1>3, <1>4
  <2> QED BY <1>1, <2>1 DEF ConfigInv, FileIsWhatWasAsked, Content
<1>7. /\ doing'[p] = "write" /\ fd'[p] = i /\ cfg'[p] = cfg[p] /\ cmd'[p] = cmd[p] /\ dropped'[p] = dropped[p]
      /\ Command(cmd[p]) /\ Settings(cfg[p]) = After(wanted, cmd[p], dropped[p])
  BY <1>1 DEF ConfigInv, ConfigTypeOK, Doing
<1>8. Doing(p)'
  BY <1>1, <1>3, <1>4, <1>7 DEF Doing, Blank
<1>9. \A q \in Proc : q # p => doing'[q] = doing[q] /\ fd'[q] = fd[q] /\ dropped'[q] = dropped[q]
  BY <1>1 DEF ConfigInv, ConfigTypeOK
<1>10. Solo' /\ \A q \in Proc : Doing(q)'
  BY <1>1, <1>8, <1>9, OthersStay
<1> QED BY <1>1, <1>3, <1>5, <1>6, <1>10 DEF ConfigInv

LEMMA WriteTmpKeeps ==
  ASSUME ConfigInv, NEW p \in Proc, WriteTmp(p)
  PROVE  ConfigInv'
<1>1. /\ doing[p] = "write" /\ fd' = [fd EXCEPT ![p] = 0] /\ doing' = [doing EXCEPT ![p] = "rename"]
      /\ UNCHANGED <<path, tmp, accessible, cmd, cfg, dropped, wanted, commands, faults>>
  BY DEF WriteTmp, MoveTo
<1>2. /\ tmp # 0 /\ fd[p] = tmp /\ inode[tmp].kind = "empty" /\ tmp # path /\ Command(cmd[p])
      /\ Settings(cfg[p]) = After(wanted, cmd[p], dropped[p])
  BY <1>1 DEF ConfigInv, Doing
<1>3. tmp \in Inode /\ path \in {0} \cup Inode /\ IsConfig(cfg[p])
  BY <1>2 DEF ConfigInv, ConfigTypeOK
<1>4. inode' = [inode EXCEPT ![tmp] = Marshal(cfg[p])]
  BY <1>2 DEF WriteTmp
<1>5. IsFile(Marshal(cfg[p])) /\ Settings(Marshal(cfg[p])) = Settings(cfg[p])
  BY <1>3, Marshalled
<1>6. /\ DOMAIN inode' = Inode /\ inode'[tmp] = Marshal(cfg[p])
      /\ \A j \in Inode : j # tmp => inode'[j] = inode[j]
  BY <1>3, <1>4 DEF ConfigInv, ConfigTypeOK
<1>7. ConfigTypeOK'
  BY <1>1, <1>5, <1>6 DEF ConfigInv, ConfigTypeOK
<1>8. FileIsWhatWasAsked'
  <2>1. path # 0 => inode'[path] = inode[path]
    BY <1>2, <1>3, <1>6
  <2> QED BY <1>1, <2>1 DEF ConfigInv, FileIsWhatWasAsked, Content
<1>9. doing'[p] = "rename" /\ fd'[p] = 0 /\ cmd'[p] = cmd[p] /\ dropped'[p] = dropped[p]
  BY <1>1 DEF ConfigInv, ConfigTypeOK
<1>10. Doing(p)'
  BY <1>1, <1>2, <1>5, <1>6, <1>9 DEF Doing
<1>11. \A q \in Proc : q # p => doing'[q] = doing[q] /\ fd'[q] = fd[q] /\ dropped'[q] = dropped[q]
  BY <1>1 DEF ConfigInv, ConfigTypeOK
<1>12. Solo' /\ \A q \in Proc : Doing(q)'
  BY <1>1, <1>10, <1>11, OthersStay
<1> QED BY <1>1, <1>2, <1>7, <1>8, <1>12 DEF ConfigInv

LEMMA RenameKeeps ==
  ASSUME ConfigInv, NEW p \in Proc, Rename(p)
  PROVE  ConfigInv'
<1>1. /\ doing[p] = "rename" /\ tmp # 0 /\ path' = tmp /\ tmp' = 0
      /\ inode' = [i \in Inode |-> IF i = path /\ i \notin Open THEN Blank("empty") ELSE inode[i]]
      /\ wanted' = After(wanted, cmd[p], dropped[p])
      /\ doing' = [doing EXCEPT ![p] = "idle"] /\ cmd' = [cmd EXCEPT ![p] = NoCommand]
      /\ cfg' = [cfg EXCEPT ![p] = DefaultConfig] /\ fd' = [fd EXCEPT ![p] = 0]
      /\ dropped' = [dropped EXCEPT ![p] = {}] /\ UNCHANGED <<accessible, commands, faults>>
  BY DEF Rename, Exit, MoveTo
<1>2. Settings(inode[tmp]) = wanted' /\ tmp # path /\ tmp \in Inode /\ IsFile(inode[tmp])
  BY <1>1 DEF ConfigInv, ConfigTypeOK, Doing
<1>3. inode'[tmp] = inode[tmp]
  BY <1>1, <1>2
<1>4. FileIsWhatWasAsked'
  BY <1>1, <1>2, <1>3 DEF FileIsWhatWasAsked, Content
<1>5. IsSettings(wanted')
  BY <1>2, FileText, SettingsSet
<1>6. DOMAIN inode' = Inode /\ \A i \in Inode : IsFile(inode'[i])
  BY <1>1, BlankFile DEF ConfigInv, ConfigTypeOK
<1>7. ConfigTypeOK'
  BY <1>1, <1>2, <1>5, <1>6, DefaultText DEF ConfigInv, ConfigTypeOK, IsSettings
<1>8. doing'[p] = "idle" /\ dropped'[p] = {} /\ fd'[p] = 0
  BY <1>1 DEF ConfigInv, ConfigTypeOK
<1>9. Doing(p)'
  BY <1>8 DEF Doing
<1>10. \A q \in Proc : q # p => doing'[q] = doing[q] /\ fd'[q] = fd[q] /\ dropped'[q] = dropped[q]
  BY <1>1 DEF ConfigInv, ConfigTypeOK
<1>11. Solo' /\ \A q \in Proc : Doing(q)'
  BY <1>1, <1>9, <1>10, OthersStay
<1> QED BY <1>1, <1>4, <1>7, <1>11 DEF ConfigInv

LEMMA FaultBound == ConfigTypeOK /\ (Fault \/ UNCHANGED faults) => faults' \in 0..MaxFaults
  BY ConfigBoundAssumption DEF ConfigTypeOK, Fault
LEMMA FailuresKeep ==
  ASSUME ConfigInv, NEW p \in Proc, ResolveFails(p) \/ RemoveTmp(p) \/ SaveFails(p) \/ Dies(p)
  PROVE  ConfigInv'
<1>1. Exit(p) /\ doing[p] # "idle" /\ (Fault \/ UNCHANGED faults) /\ tmp' \in {0, tmp}
      /\ UNCHANGED <<inode, path, accessible, wanted, commands>>
  BY DEF ResolveFails, RemoveTmp, SaveFails, Dies, disk
<1> QED BY <1>1, FaultBound, ExitKeeps DEF ConfigInv
LEMMA RenameFailsKeeps ==
  ASSUME ConfigInv, NEW p \in Proc, RenameFails(p)
  PROVE  ConfigInv'
<1>1. /\ doing[p] = "rename" /\ (Fault \/ UNCHANGED faults) /\ doing' = [doing EXCEPT ![p] = "remove"]
      /\ UNCHANGED <<inode, path, tmp, accessible, cmd, cfg, fd, dropped, wanted, commands>>
  BY DEF RenameFails, MoveTo, disk, own
<1>2. ConfigTypeOK'
  BY <1>1, FaultBound DEF ConfigInv, ConfigTypeOK
<1>3. FileIsWhatWasAsked'
  BY <1>1 DEF ConfigInv, FileIsWhatWasAsked, Content
<1>4. doing'[p] = "remove" /\ Command(cmd[p]) /\ fd[p] = 0
  BY <1>1 DEF ConfigInv, ConfigTypeOK, Doing
<1>5. Doing(p)'
  BY <1>1, <1>4 DEF Doing
<1>6. \A q \in Proc : q # p => doing'[q] = doing[q] /\ fd'[q] = fd[q] /\ dropped'[q] = dropped[q]
  BY <1>1 DEF ConfigInv, ConfigTypeOK
<1>7. Solo' /\ \A q \in Proc : Doing(q)'
  BY <1>1, <1>5, <1>6, OthersStay
<1> QED BY <1>1, <1>2, <1>3, <1>7 DEF ConfigInv
LEMMA QuietKeeps ==
  ASSUME ConfigInv, UNCHANGED <<disk, doing, own, wanted, commands, faults>>, accessible' \subseteq accessible
  PROVE  ConfigInv'
<1> USE DEF disk, own
<1>1. ConfigTypeOK'
  BY DEF ConfigInv, ConfigTypeOK
<1>2. FileIsWhatWasAsked' /\ Solo' /\ \A p \in Proc : Doing(p)'
  BY DEF ConfigInv, FileIsWhatWasAsked, Content, Solo, Doing
<1> QED BY <1>1, <1>2 DEF ConfigInv
LEMMA ConfigStep == ~Overlap /\ ConfigInv /\ [ConfigNext]_configVars => ConfigInv'
<1> SUFFICES ASSUME ~Overlap, ConfigInv, [ConfigNext]_configVars PROVE ConfigInv'
  OBVIOUS
<1>1. CASE UNCHANGED configVars
  BY <1>1, QuietKeeps DEF configVars
<1>2. ASSUME NEW s \in ShareId, ShareGoes(s) PROVE ConfigInv'
  BY <1>2, QuietKeeps DEF ShareGoes
<1>3. ASSUME NEW p \in Proc,
             \/ BeginSet(p) \/ BeginUnset(p) \/ BeginUnsetAll(p)
             \/ ResolveFails(p) \/ LoadAndSet(p) \/ Unset(p)
             \/ CleanUp(p) \/ SkipCleanUp(p)
             \/ OpenTmp(p) \/ WriteTmp(p) \/ Rename(p) \/ RenameFails(p) \/ RemoveTmp(p)
             \/ SaveFails(p) \/ Dies(p)
      PROVE  ConfigInv'
  BY <1>3, BeginsKeep, FailuresKeep, LoadAndSetKeeps, UnsetKeeps, CleanUpKeeps, OpenTmpKeeps,
     WriteTmpKeeps, RenameKeeps, RenameFailsKeeps
<1> QED BY <1>1, <1>2, <1>3 DEF ConfigNext
(* While programs that write do so one at a time, what each will save is   *)
(* what its request makes of the settings, at every step of its way.       *)
THEOREM ConfigInvariant == ASSUME ~Overlap PROVE ConfigSpec => []ConfigInv
<1>1. ConfigInv /\ [ConfigNext]_configVars => ConfigInv'
  BY ConfigStep
<1> QED BY <1>1, ConfigInitInv, PTL DEF ConfigSpec
(* The files hold texts of known selectors, and the rest has its type.     *)
THEOREM ConfigTypes == ASSUME ~Overlap PROVE ConfigSpec => []ConfigTypeOK
<1>1. ConfigInv => ConfigTypeOK
  BY DEF ConfigInv
<1> QED BY <1>1, ConfigInvariant, PTL
(* `set`, `unset` and `unset --all` (SaveConfig, config.go:263): the file  *)
(* says what the completed requests add up to, wherever a program died or  *)
(* a write or a rename failed.                                             *)
THEOREM FileIsWhatWasAskedAlways == ASSUME ~Overlap PROVE ConfigSpec => []FileIsWhatWasAsked
<1>1. ConfigInv => FileIsWhatWasAsked
  BY DEF ConfigInv
<1> QED BY <1>1, ConfigInvariant, PTL

(***************************************************************************)
(* What programs that read the file make of it                             *)
(***************************************************************************)
LEMMA FirstOfOne ==
  ASSUME NEW a, NEW d
  PROVE  FirstOf(<<a>>, d) = IF a \in DOMAIN wanted THEN wanted[a] ELSE d
<1> DEFINE sels == <<a>>
           set == {i \in DOMAIN sels : sels[i] \in DOMAIN wanted}
<1>1. set = IF a \in DOMAIN wanted THEN {1} ELSE {}
  OBVIOUS
<1>2. set = {1} => (CHOOSE i \in set : \A j \in set : i <= j) = 1
  OBVIOUS
<1>3. FirstOf(sels, d) = IF set = {} THEN d ELSE wanted[sels[CHOOSE i \in set : \A j \in set : i <= j]]
  BY DEF FirstOf
<1>4. sels[1] = a
  OBVIOUS
<1> HIDE DEF set, sels
<1>5. FirstOf(sels, d) = IF a \in DOMAIN wanted THEN wanted[a] ELSE d
  BY <1>1, <1>2, <1>3, <1>4
<1> QED BY <1>5 DEF sels
LEMMA FirstOfTwo ==
  ASSUME NEW a, NEW b, NEW d
  PROVE  FirstOf(<<a, b>>, d) = IF a \in DOMAIN wanted THEN wanted[a]
                               ELSE IF b \in DOMAIN wanted THEN wanted[b] ELSE d
<1> DEFINE sels == <<a, b>>
           set == {i \in DOMAIN sels : sels[i] \in DOMAIN wanted}
           least == CHOOSE i \in set : \A j \in set : i <= j
<1>1. /\ set \subseteq {1, 2} /\ (1 \in set <=> a \in DOMAIN wanted) /\ (2 \in set <=> b \in DOMAIN wanted)
  OBVIOUS
<1>2. 1 \in set => least = 1
  <2> HIDE DEF set
  <2>1. ASSUME 1 \in set PROVE \A j \in set : 1 <= j
    BY <1>1
  <2>2. ASSUME 1 \in set PROVE least \in set /\ \A j \in set : least <= j
    BY <2>1, <2>2
  <2> HIDE DEF least
  <2>3. ASSUME 1 \in set PROVE least \in {1, 2} /\ least <= 1
    BY <1>1, <2>2, <2>3
  <2> QED BY <2>3
<1>3. set = {2} => least = 2
  OBVIOUS
<1>4. FirstOf(sels, d) = IF set = {} THEN d ELSE wanted[sels[least]]
  BY DEF FirstOf
<1>5. sels[1] = a /\ sels[2] = b
  OBVIOUS
<1> HIDE DEF least, set, sels
<1>6. CASE 1 \in set
  BY <1>1, <1>2, <1>4, <1>5, <1>6 DEF sels
<1>7. CASE 1 \notin set /\ 2 \in set
  <2>1. set = {2}
    BY <1>1, <1>7
  <2> QED BY <1>1, <1>3, <1>4, <1>5, <1>7, <2>1 DEF sels
<1>8. CASE 1 \notin set /\ 2 \notin set
  <2>1. set = {}
    BY <1>1, <1>8
  <2> QED BY <1>1, <1>4, <1>8, <2>1 DEF sels
<1> QED BY <1>6, <1>7, <1>8

(* A field of a service.                                                   *)
LEMMA ServiceField ==
  ASSUME NEW svc \in Service, NEW f \in coreFields
  PROVE  /\ <<svc, f>> \in Param /\ <<"core", f>> \in Param
         /\ Last(<<svc, f>>) = f /\ Last(<<"core", f>>) = f
         /\ \A c : GetField(c, <<svc, f>>) =
              IF <<svc, f>> \in DOMAIN c.value THEN c.value[<<svc, f>>]
              ELSE IF <<"core", f>> \in DOMAIN c.value THEN c.value[<<"core", f>>] ELSE Default(f)
<1>1. /\ <<svc, f>> \in Param /\ <<"core", f>> \in Param
      /\ Last(<<svc, f>>) = f /\ Last(<<"core", f>>) = f
  BY DEF Param, Last
<1>2. svc # "share"
  BY ServiceAssumption
<1>3. ASSUME NEW c PROVE GetField(c, <<svc, f>>) = getSubsystemField(c, <<svc, f>>)
  BY <1>2 DEF GetField
<1> QED BY <1>1, <1>3 DEF getSubsystemField, Value, IsSet

LEMMA SettingsField ==
  ASSUME NEW c, IsConfig(c), Settings(c) = wanted, NEW svc \in Service, NEW f \in coreFields
  PROVE  GetField(c, <<svc, f>>) = FirstOf(<<<<svc, f>>, <<"core", f>>>>, Default(f))
<1>1. SetsParam(wanted, c)
  BY SettingsSet DEF IsConfig
<1>2. /\ \A sel \in {<<svc, f>>, <<"core", f>>} :
           (sel \in DOMAIN wanted <=> sel \in DOMAIN c.value) /\ (sel \in DOMAIN wanted => wanted[sel] = c.value[sel])
  BY <1>1, ServiceField DEF SetsParam
<1> DEFINE a == <<svc, f>>
           b == <<"core", f>>
<1>3. FirstOf(<<a, b>>, Default(f)) = IF a \in DOMAIN wanted THEN wanted[a]
                                     ELSE IF b \in DOMAIN wanted THEN wanted[b] ELSE Default(f)
  BY FirstOfTwo
<1>4. GetField(c, a) = IF a \in DOMAIN c.value THEN c.value[a]
                       ELSE IF b \in DOMAIN c.value THEN c.value[b] ELSE Default(f)
  BY ServiceField
<1> QED BY <1>2, <1>3, <1>4

LEMMA RuntimeSettings ==
  ASSUME ConfigTypeOK, FileIsWhatWasAsked
  PROVE  IsConfig(Runtime(NoFlag)) /\ Settings(Runtime(NoFlag)) = wanted
<1>1. CASE Readable
  BY <1>1, ContentFile DEF Runtime
<1>2. CASE ~Readable
  <2>1. Content = Blank("torn")
    BY <1>2, ContentFile DEF Readable, IsFile
  <2> QED BY <1>2, <2>1, BlankFile, DefaultText DEF Runtime, FileIsWhatWasAsked
<1> QED BY <1>1, <1>2

LEMMA ReadersTellIt ==
  ASSUME ConfigTypeOK, FileIsWhatWasAsked
  PROVE  ReadersTell
<1> DEFINE c == Runtime(NoFlag)
<1>1. IsConfig(c) /\ Settings(c) = wanted
  BY RuntimeSettings
<1> HIDE DEF c
<1>2. SetsParam(wanted, c) /\ SetsShares(wanted, c) /\ DOMAIN wanted \subseteq Param \cup ShareParam
  BY <1>1, SettingsSet DEF IsConfig, IsSettings
<1>3. List(c) = wanted
  BY <1>1, Marshalled DEF List
<1>4. ASSUME NEW sel \in DOMAIN wanted PROVE sel \in DOMAIN Show(c) /\ Show(c)[sel] = wanted[sel]
  <2>1. CASE sel \in Param
    <3>1. IsSet(c, sel) /\ wanted[sel] = c.value[sel] /\ sel[1] # "share"
      BY <1>2, <2>1, Names DEF SetsParam, IsSet
    <3>2. GetField(c, sel) = c.value[sel]
      BY <3>1 DEF GetField, getSubsystemField, Value
    <3> QED BY <2>1, <3>1, <3>2 DEF Show
  <2>2. CASE sel \in ShareParam
    <3>1. PICK s \in ShareId, f \in shareFields : sel = <<"share", s, f>>
      BY <2>2, Names
    <3>2. sel[1] = "share" /\ sel[2] = s /\ sel[3] = f
      BY <3>1
    <3>3. s \in DOMAIN c.shares /\ wanted[sel] = c.shares[s][f]
      BY <1>2, <3>1 DEF SetsShares, Sets
    <3>4. GetField(c, sel) = c.shares[s][f]
      <4>1. GetField(c, sel) = Share(c, s)[f]
        <5>1. GetField(c, sel) = getShareField(c, sel)
          BY <3>2, ServiceAssumption DEF GetField
        <5> QED BY <3>2, <5>1 DEF getShareField
      <4> QED BY <3>3, <4>1 DEF Share
    <3> QED BY <2>2, <3>2, <3>3, <3>4 DEF Show
  <2> QED BY <1>2, <2>1, <2>2
<1>5. ASSUME NEW sel \in Typed, sel[1] \in Service
      PROVE  GetField(c, sel) = FirstOf(<<sel, <<"core", sel[2]>>>>, Default(sel[2]))
  <2>1. sel[1] \notin {"core", "protonfs", "share"}
    BY <1>5, ServiceAssumption
  <2>2. PICK svc \in Service, f \in coreFields : sel = <<svc, f>>
    BY <2>1 DEF Typed, Param, ShareParam
  <2>3. sel[2] = f
    BY <2>2
  <2> QED BY <1>1, <2>2, <2>3, SettingsField
<1>6. /\ List(c) = wanted
      /\ \A sel \in DOMAIN wanted : sel \in DOMAIN Show(c) /\ Show(c)[sel] = wanted[sel]
      /\ \A sel \in Typed : sel[1] \in Service =>
           GetField(c, sel) = FirstOf(<<sel, <<"core", sel[2]>>>>, Default(sel[2]))
  BY <1>3, <1>4, <1>5
<1> QED BY <1>6 DEF ReadersTell, c

LEMMA CommandsObeyIt ==
  ASSUME ConfigTypeOK, FileIsWhatWasAsked
  PROVE  CommandsObey
<1> SUFFICES ASSUME NEW svc \in Service, NEW jobs \in Jobs, NEW version \in Version
             PROVE  Obeys(SetupSession(Runtime(jobs), svc, jobs, version), svc, jobs, version)
  BY DEF CommandsObey
<1> DEFINE c == Runtime(NoFlag)
           d == Runtime(jobs)
           used == SetupSession(d, svc, jobs, version)
<1>1. IsConfig(c) /\ Settings(c) = wanted /\ {"max_jobs", "app_version"} \subseteq coreFields
  BY RuntimeSettings DEF coreFields
<1>2. d = IF jobs = NoFlag THEN c ELSE SetCLI(c, <<"core", "max_jobs">>, jobs)
  BY DEF Runtime
<1> HIDE DEF c, d
<1>3. /\ used.session.max_jobs = IF jobs # NoFlag THEN jobs ELSE GetField(d, <<svc, "max_jobs">>)
      /\ used.app_version = IF version # NoFlag THEN version ELSE GetField(d, <<svc, "app_version">>)
  BY DEF SetupSession, BuildSessionConfig, resolveMaxJobs, resolveVersionRC
<1>4. GetField(d, <<svc, "app_version">>) = GetField(c, <<svc, "app_version">>)
  <2>1. CASE jobs = NoFlag
    BY <1>2, <2>1
  <2>2. CASE jobs # NoFlag
    <3>1. d.value = Override(c.value, <<"core", "max_jobs">>, jobs)
      BY <1>1, <1>2, <2>2 DEF SetCLI, IsConfig
    <3>2. /\ \A k : k \in DOMAIN d.value <=> k \in DOMAIN c.value \/ k = <<"core", "max_jobs">>
          /\ \A k \in DOMAIN c.value : k # <<"core", "max_jobs">> => d.value[k] = c.value[k]
      BY <3>1, OverrideMap
    <3>3. \A k \in {<<svc, "app_version">>, <<"core", "app_version">>} :
            (k \in DOMAIN d.value <=> k \in DOMAIN c.value) /\ (k \in DOMAIN d.value => d.value[k] = c.value[k])
      BY <3>2
    <3> QED BY <1>1, <3>3, ServiceField
  <2> QED BY <2>1, <2>2
<1>5. Default("max_jobs") = Workers
  BY DEF Default
<1>6. /\ GetField(c, <<svc, "max_jobs">>) = FirstOf(<<<<svc, "max_jobs">>, <<"core", "max_jobs">>>>, Workers)
      /\ GetField(c, <<svc, "app_version">>) = FirstOf(<<<<svc, "app_version">>, <<"core", "app_version">>>>,
                                 Default("app_version"))
  <2>1. \A f \in coreFields :
          GetField(c, <<svc, f>>) = FirstOf(<<<<svc, f>>, <<"core", f>>>>, Default(f))
    BY <1>1, SettingsField
  <2> QED BY <1>1, <1>5, <2>1
<1>7. jobs = NoFlag => d = c
  BY <1>2
<1>8. Obeys(used, svc, jobs, version)
  <2> HIDE DEF used
  <2> QED BY <1>3, <1>4, <1>6, <1>7 DEF Obeys
<1> QED BY <1>8 DEF d

LEMMA CachedIt ==
  ASSUME NEW c, IsConfig(c), Settings(c) = wanted, NEW used, used.session.disk_cache = applyShareConfig(c)
  PROVE  CachedOnRequest(used)
<1> SUFFICES ASSUME NEW s \in ShareId, used.session.disk_cache[s] = "objectstore"
             PROVE  s \notin Private /\ FirstOf(<<<<"share", s, "disk_cache">>>>, "disabled") = "objectstore"
  BY DEF CachedOnRequest
<1>1. s \notin Private /\ Share(c, s).disk_cache = "objectstore"
  BY DEF applyShareConfig
<1>2. s \in DOMAIN c.shares /\ c.shares[s]["disk_cache"] = "objectstore"
  BY <1>1 DEF Share, Disabled
<1>3. SetsShares(wanted, c) /\ "disk_cache" \in shareFields
  BY SettingsSet DEF IsConfig, shareFields
<1>4. Sets(wanted, c, s, "disk_cache")
  BY <1>3 DEF SetsShares
<1>5. /\ <<"share", s, "disk_cache">> \in DOMAIN wanted
      /\ wanted[<<"share", s, "disk_cache">>] = "objectstore"
  BY <1>2, <1>4 DEF Sets
<1> QED BY <1>1, <1>5, FirstOfOne

LEMMA ProgramsObeyIt ==
  ASSUME ConfigTypeOK, FileIsWhatWasAsked
  PROVE  ProgramsObey
<1>1. IsConfig(Runtime(NoFlag)) /\ Settings(Runtime(NoFlag)) = wanted
  BY RuntimeSettings
<1>2. ASSUME NEW svc \in Service PROVE CachedOnRequest(SetupSession(Runtime(NoFlag), svc, NoFlag, NoFlag))
  <2>1. SetupSession(Runtime(NoFlag), svc, NoFlag, NoFlag).session.disk_cache = applyShareConfig(Runtime(NoFlag))
    BY DEF SetupSession, BuildSessionConfig
  <2> QED BY <1>1, <2>1, CachedIt
<1>3. CachedOnRequest(DaemonConfig(LoadConfig))
  <2>1. DaemonConfig(LoadConfig).session.disk_cache = applyShareConfig(LoadConfig)
    BY DEF DaemonConfig, BuildSessionConfig
  <2> QED BY <2>1, ContentFile, CachedIt
<1> QED BY <1>2, <1>3, ReadersTellIt, CommandsObeyIt DEF ProgramsObey
(* `get`, `list`, `show`, the commands of every service with their flags,  *)
(* and the daemon obey those requests.                                     *)
THEOREM ProgramsObeyAlways == ASSUME ~Overlap PROVE ConfigSpec => []ProgramsObey
<1>1. ConfigInv => ProgramsObey
  BY ProgramsObeyIt DEF ConfigInv
<1> QED BY <1>1, ConfigInvariant, PTL
=============================================================================
