--------------------------- MODULE JsonlLogProofs ---------------------------
(***************************************************************************)
(* Theorems about JsonlLog, for any number of processes, records, kills    *)
(* and tears: no acknowledged record is destroyed, the readable records    *)
(* are numbered by position, and the file implements AppendOnlyLog.        *)
(***************************************************************************)
EXTENDS JsonlLog, SequenceTheorems, TLAPS

-----------------------------------------------------------------------------
(* What the operators on files yield.                                      *)

\* The first n lines of f parse, and the next one, if there is one, does not.
Cut(f, n) ==
    /\ n \in 0..Len(f)
    /\ \A i \in 1..n : f[i].good
    /\ n < Len(f) => ~f[n + 1].good

\* A line that parses holds a record.
Lines(f) == f \in Seq(Line) /\ \A i \in DOMAIN f : f[i].good => f[i].recs # <<>>

\* There is one place where the readable part of a file ends: the one that
\* read_jsonl_prefix finds.
LEMMA CutIsValidLines ==
    ASSUME NEW f, Len(f) \in Nat, NEW n, Cut(f, n)
    PROVE  ValidLines(f) = n
<1>1. ASSUME NEW m, Cut(f, m)
      PROVE  m = n
  <2>1. ~(m < n)
    <3>1. SUFFICES ASSUME m < n PROVE FALSE
      OBVIOUS
    <3>2. m + 1 \in 1..n /\ m < Len(f)
      BY <1>1, <3>1 DEF Cut
    <3> QED
      BY <1>1, <3>2 DEF Cut
  <2>2. ~(n < m)
    <3>1. SUFFICES ASSUME n < m PROVE FALSE
      OBVIOUS
    <3>2. n + 1 \in 1..m /\ n < Len(f)
      BY <1>1, <3>1 DEF Cut
    <3> QED
      BY <1>1, <3>2 DEF Cut
  <2> QED
    BY <1>1, <2>1, <2>2 DEF Cut
<1>2. \E m \in 0..Len(f) : Cut(f, m)
  BY DEF Cut
<1>3. Cut(f, ValidLines(f))
  BY <1>2 DEF ValidLines, Cut
<1> QED
  BY <1>1, <1>3

\* The readable part of a file, and whether it is all of it.
LEMMA CutIsReadable ==
    ASSUME NEW f, Lines(f), NEW n, Cut(f, n)
    PROVE  /\ Readable(f) = [i \in 1..n |-> f[i].recs[1]]
           /\ Readable(f) \in Seq(Record)
           /\ Len(Readable(f)) = n
           /\ Corrupt(f) <=> n # Len(f)
<1>1. Len(f) \in Nat /\ DOMAIN f = 1..Len(f) /\ n \in Nat
  BY DEF Lines, Cut
<1>2. ValidLines(f) = n
  BY <1>1, CutIsValidLines
<1>3. Readable(f) = [i \in 1..n |-> f[i].recs[1]]
  BY <1>2 DEF Readable
<1>4. ASSUME NEW i \in 1..n
      PROVE  f[i].recs[1] \in Record
  <2>1. f[i] \in Line /\ f[i].recs # <<>>
    BY <1>1 DEF Lines, Cut
  <2>2. f[i].recs \in Seq(Record)
    BY <2>1 DEF Line
  <2> QED
    BY <2>1, <2>2
<1>5. Corrupt(f) <=> n # Len(f)
  <2>1. n \in 0..Len(f)
    BY DEF Cut
  <2>2. Len(f) \in Nat /\ n \in Nat /\ n <= Len(f)
    BY <1>1, <2>1
  <2>3. n < Len(f) <=> n # Len(f)
    BY ONLY <2>2
  <2> QED
    BY <1>2, <2>3 DEF Corrupt
<1>6. Readable(f) \in [1..n -> Record]
  BY <1>3, <1>4
<1>7. Readable(f) \in Seq(Record) /\ Len(Readable(f)) = n
  BY ONLY <1>1, <1>6
<1> QED
  BY <1>3, <1>5, <1>7

\* The bytes of one write are a line, whose record is r when it parses.
LEMMA PieceIsLine ==
    ASSUME NEW r \in Record, NEW tear \in TearKinds
    PROVE  /\ Piece(r, tear) \in Line
           /\ Piece(r, tear).good <=> tear \in {"body", "full"}
           /\ tear \in {"body", "full"} => Piece(r, tear).recs = <<r>>
           /\ tear \notin {"body", "full"} => Piece(r, tear).recs = <<>>
           /\ Piece(r, tear).nl <=> tear = "full"
<1>1. r \in Record /\ <<r>> \in Seq(Record) /\ <<>> \in Seq(Record)
  OBVIOUS
<1>2. /\ (tear \in {"body", "full"}) \in BOOLEAN
      /\ (tear = "full") \in BOOLEAN /\ (tear # "char") \in BOOLEAN
  OBVIOUS
<1>3. (IF tear \in {"body", "full"} THEN <<r>> ELSE <<>>) \in Seq(Record)
  BY <1>1
<1>4. Piece(r, tear) \in Line
  BY <1>2, <1>3 DEF Piece, Line
<1> QED
  BY <1>4 DEF Piece

\* The three ways the bytes of a write reach the file.
LEMMA AppendBytesForms ==
    ASSUME NEW f, Lines(f), NEW r \in Record, NEW tear \in TearKinds
    PROVE  \/ tear = "none" /\ AppendBytes(f, r, tear) = f
           \/ /\ tear # "none" /\ Len(f) > 0 /\ ~f[Len(f)].nl
              /\ \E l \in Line :
                     /\ AppendBytes(f, r, tear) = [f EXCEPT ![Len(f)] = l]
                     /\ l.recs = f[Len(f)].recs \o Piece(r, tear).recs
                     /\ ~l.good
           \/ /\ tear # "none" /\ (Len(f) > 0 => f[Len(f)].nl)
              /\ AppendBytes(f, r, tear) = Append(f, Piece(r, tear))
<1>1. CASE tear = "none"
  BY <1>1 DEF AppendBytes
<1>2. CASE tear # "none" /\ f # <<>> /\ ~f[Len(f)].nl
  <2> DEFINE l == [recs |-> f[Len(f)].recs \o Piece(r, tear).recs,
                   good |-> FALSE,
                   nl   |-> Piece(r, tear).nl,
                   dec  |-> f[Len(f)].dec /\ Piece(r, tear).dec]
  <2>1. f \in Seq(Line) /\ Len(f) > 0 /\ f[Len(f)] \in Line
    BY <1>2 DEF Lines
  <2>2. f[Len(f)].recs \in Seq(Record) /\ Piece(r, tear).recs \in Seq(Record)
    BY <2>1, PieceIsLine DEF Line
  <2>3. f[Len(f)].recs \o Piece(r, tear).recs \in Seq(Record)
    BY <2>2
  <2>4. Piece(r, tear).nl \in BOOLEAN
    BY PieceIsLine DEF Line
  <2>5. l \in Line
    BY <2>3, <2>4 DEF Line
  <2>6. AppendBytes(f, r, tear) = [f EXCEPT ![Len(f)] = l]
    BY <1>2 DEF AppendBytes
  <2> QED
    BY <1>2, <2>1, <2>5, <2>6
<1>3. CASE tear # "none" /\ ~(f # <<>> /\ ~f[Len(f)].nl)
  <2>1. AppendBytes(f, r, tear) = Append(f, Piece(r, tear))
    BY <1>3 DEF AppendBytes
  <2>2. f \in Seq(Line) /\ (Len(f) > 0 => f # <<>>)
    BY DEF Lines
  <2> QED
    BY <1>3, <2>1, <2>2
<1> QED
  BY <1>1, <1>2, <1>3

\* What is in a file, line by line.
LEMMA UidsInside ==
    ASSUME NEW f, NEW x
    PROVE  x \in UidsIn(f) <=> \E i \in DOMAIN f : \E j \in DOMAIN f[i].recs : f[i].recs[j].uid = x
BY DEF UidsIn

\* A write takes no record out of the file, puts the new one in when all of
\* it arrives, and adds no other.
LEMMA UidsGrow ==
    ASSUME NEW f, Lines(f), NEW r \in Record, NEW tear \in TearKinds
    PROVE  /\ UidsIn(f) \subseteq UidsIn(AppendBytes(f, r, tear))
           /\ tear \in {"body", "full"} => r.uid \in UidsIn(AppendBytes(f, r, tear))
           /\ UidsIn(AppendBytes(f, r, tear)) \subseteq UidsIn(f) \cup {r.uid}
<1> DEFINE g == AppendBytes(f, r, tear)
           new == Piece(r, tear).recs
<1>1. f \in Seq(Line) /\ Len(f) \in Nat /\ DOMAIN f = 1..Len(f)
  BY DEF Lines
<1>2. new \in Seq(Record) /\ (new = <<>> \/ new = <<r>>)
       /\ (tear \in {"body", "full"} => new = <<r>>)
  BY PieceIsLine DEF Line
<1>3. CASE g = f /\ tear = "none"
  BY <1>3
<1>4. CASE /\ Len(f) > 0
           /\ \E l \in Line : g = [f EXCEPT ![Len(f)] = l] /\ l.recs = f[Len(f)].recs \o new
  <2>1. PICK l \in Line : g = [f EXCEPT ![Len(f)] = l] /\ l.recs = f[Len(f)].recs \o new
    BY <1>4
  <2> DEFINE old == f[Len(f)].recs
  <2> HIDE DEF new, g
  <2>2. old \in Seq(Record)
    <3>1. f[Len(f)] \in Line
      BY <1>1, <1>4
    <3> QED
      BY <3>1 DEF Line
  <2>3. /\ Len(l.recs) = Len(old) + Len(new)
        /\ \A j \in 1..Len(old) : l.recs[j] = old[j]
        /\ \A j \in 1..Len(new) : l.recs[Len(old) + j] = new[j]
        /\ DOMAIN l.recs = 1..(Len(old) + Len(new)) /\ DOMAIN old = 1..Len(old)
        /\ Len(old) \in Nat /\ Len(new) \in Nat
    BY <1>2, <2>1, <2>2
  <2>4. /\ DOMAIN g = DOMAIN f /\ g[Len(f)] = l
        /\ \A i \in DOMAIN f : i # Len(f) => g[i] = f[i]
    BY <1>1, <1>4, <2>1
  <2>5. ASSUME NEW x \in UidsIn(f) PROVE x \in UidsIn(g)
    <3>0. PICK i \in DOMAIN f : \E j \in DOMAIN f[i].recs : f[i].recs[j].uid = x
      BY <2>5, UidsInside
    <3>1. PICK j \in DOMAIN f[i].recs : f[i].recs[j].uid = x
      BY <3>0
    <3>2. j \in DOMAIN g[i].recs /\ g[i].recs[j].uid = x
      <4>1. CASE i = Len(f)
        <5>1. j \in 1..Len(old) /\ j \in 1..(Len(old) + Len(new))
          BY <2>3, <3>1, <4>1
        <5> QED
          BY <2>3, <2>4, <3>1, <4>1, <5>1
      <4>2. CASE i # Len(f)
        BY <2>4, <3>1, <4>2
      <4> QED
        BY <4>1, <4>2
    <3> QED
      BY <2>4, <3>2, UidsInside
  <2>6. ASSUME new = <<r>> PROVE r.uid \in UidsIn(g)
    <3>1. Len(old) + 1 \in DOMAIN l.recs /\ l.recs[Len(old) + 1] = r
      BY <2>3, <2>6
    <3>2. /\ Len(f) \in DOMAIN g /\ Len(old) + 1 \in DOMAIN g[Len(f)].recs
          /\ g[Len(f)].recs[Len(old) + 1].uid = r.uid
      BY <1>1, <1>4, <2>4, <3>1
    <3> QED
      BY <3>2, UidsInside
  <2>7. ASSUME NEW x \in UidsIn(g) PROVE x \in UidsIn(f) \cup {r.uid}
    <3>0. PICK i \in DOMAIN f : \E j \in DOMAIN g[i].recs : g[i].recs[j].uid = x
      BY <2>4, <2>7, UidsInside
    <3>1. PICK j \in DOMAIN g[i].recs : g[i].recs[j].uid = x
      BY <3>0
    <3>2. CASE i # Len(f)
      BY <2>4, <3>1, <3>2, UidsInside
    <3>3. CASE i = Len(f) /\ j \in 1..Len(old)
      <4>1. j \in DOMAIN f[i].recs /\ f[i].recs[j].uid = x
        BY <2>3, <2>4, <3>1, <3>3
      <4> QED
        BY <4>1, UidsInside
    <3>4. CASE i = Len(f) /\ j \notin 1..Len(old)
      <4>1. j \in 1..(Len(old) + Len(new))
        BY <2>3, <2>4, <3>1, <3>4
      <4>2. j - Len(old) \in 1..Len(new)
        BY <2>3, <3>4, <4>1
      <4>3. new = <<r>> /\ j - Len(old) = 1
        <5>1. CASE new = <<>>
          BY <4>2, <5>1
        <5>2. CASE new = <<r>>
          BY <2>3, <4>2, <5>2
        <5> QED
          BY <1>2, <5>1, <5>2
      <4>4. l.recs[j] = r
        <5>1. l.recs[Len(old) + 1] = new[1] /\ Len(old) + 1 = j
          BY <2>3, <4>1, <4>2, <4>3
        <5> QED
          BY <4>3, <5>1
      <4> QED
        BY <2>4, <3>1, <3>4, <4>4
    <3> QED
      BY <3>2, <3>3, <3>4
  <2>8. UidsIn(f) \subseteq UidsIn(g) /\ UidsIn(g) \subseteq UidsIn(f) \cup {r.uid}
    BY <2>5, <2>7
  <2>9. ASSUME tear \in {"body", "full"} PROVE r.uid \in UidsIn(g)
    BY <1>2, <2>6, <2>9
  <2> QED
    BY <2>8, <2>9 DEF g
<1>5. CASE g = Append(f, Piece(r, tear))
  <2>1. /\ DOMAIN g = 1..(Len(f) + 1) /\ g[Len(f) + 1] = Piece(r, tear)
        /\ \A i \in 1..Len(f) : g[i] = f[i]
    BY <1>1, <1>5, PieceIsLine
  <2> HIDE DEF g
  <2>2. ASSUME NEW x \in UidsIn(f) PROVE x \in UidsIn(g)
    <3>0. PICK i \in DOMAIN f : \E j \in DOMAIN f[i].recs : f[i].recs[j].uid = x
      BY <2>2, UidsInside
    <3>1. PICK j \in DOMAIN f[i].recs : f[i].recs[j].uid = x
      BY <3>0
    <3>2. i \in DOMAIN g /\ g[i] = f[i]
      BY <1>1, <2>1, <3>1
    <3> QED
      BY <3>1, <3>2, UidsInside
  <2>3. ASSUME new = <<r>> PROVE r.uid \in UidsIn(g)
    <3>1. Len(f) + 1 \in DOMAIN g /\ 1 \in DOMAIN g[Len(f) + 1].recs
          /\ g[Len(f) + 1].recs[1].uid = r.uid
      BY <1>1, <2>1, <2>3
    <3> QED
      BY <3>1, UidsInside
  <2>4. ASSUME NEW x \in UidsIn(g) PROVE x \in UidsIn(f) \cup {r.uid}
    <3>0. PICK i \in DOMAIN g : \E j \in DOMAIN g[i].recs : g[i].recs[j].uid = x
      BY <2>4, UidsInside
    <3>1. PICK j \in DOMAIN g[i].recs : g[i].recs[j].uid = x
      BY <3>0
    <3>2. CASE i \in 1..Len(f)
      BY <1>1, <2>1, <3>1, <3>2, UidsInside
    <3>3. CASE i = Len(f) + 1
      <4>1. j \in DOMAIN new /\ new[j].uid = x
        BY <2>1, <3>1, <3>3
      <4>2. new = <<r>> /\ j = 1
        BY <1>2, <4>1
      <4> QED
        BY <4>1, <4>2
    <3> QED
      BY <1>1, <2>1, <3>1, <3>2, <3>3
  <2>5. UidsIn(f) \subseteq UidsIn(g) /\ UidsIn(g) \subseteq UidsIn(f) \cup {r.uid}
    BY <2>2, <2>4
  <2>6. ASSUME tear \in {"body", "full"} PROVE r.uid \in UidsIn(g)
    BY <1>2, <2>3, <2>6
  <2> QED
    BY <2>5, <2>6 DEF g
<1> QED
  BY <1>3, <1>4, <1>5, AppendBytesForms

\* A write to a file that parses as a whole: a reader gets what it got, or the
\* new record besides, or no longer what was on the last line, when that line
\* had no newline.
LEMMA WriteEffect ==
    ASSUME NEW f, Lines(f), Cut(f, Len(f)), NEW r \in Record, NEW tear \in TearKinds
    PROVE  /\ Lines(AppendBytes(f, r, tear))
           /\ \E n \in Nat : Cut(AppendBytes(f, r, tear), n)
           /\ \/ Readable(AppendBytes(f, r, tear)) = Readable(f)
              \/ /\ tear \in {"body", "full"}
                 /\ Readable(AppendBytes(f, r, tear)) = Append(Readable(f), r)
              \/ /\ Len(f) > 0 /\ ~f[Len(f)].nl
                 /\ Readable(AppendBytes(f, r, tear)) = [i \in 1..(Len(f) - 1) |-> f[i].recs[1]]
<1> DEFINE g == AppendBytes(f, r, tear)
           new == Piece(r, tear)
<1>1. f \in Seq(Line) /\ Len(f) \in Nat /\ DOMAIN f = 1..Len(f)
  BY DEF Lines
<1>2. /\ new \in Line /\ (new.good <=> tear \in {"body", "full"})
      /\ new.good => new.recs = <<r>>
  BY PieceIsLine
<1>3. Readable(f) = [i \in 1..Len(f) |-> f[i].recs[1]] /\ Readable(f) \in Seq(Record)
      /\ Len(Readable(f)) = Len(f)
  BY CutIsReadable
<1>4. CASE g = f
  BY <1>1, <1>4
<1>5. CASE Len(f) > 0 /\ ~f[Len(f)].nl /\ \E l \in Line : g = [f EXCEPT ![Len(f)] = l] /\ ~l.good
  <2>1. PICK l \in Line : g = [f EXCEPT ![Len(f)] = l] /\ ~l.good
    BY <1>5
  <2> HIDE DEF g
  <2>2. /\ g \in Seq(Line) /\ Len(g) = Len(f) /\ DOMAIN g = 1..Len(f)
        /\ g[Len(f)] = l
        /\ \A i \in 1..Len(f) : i # Len(f) => g[i] = f[i]
    BY <1>1, <1>5, <2>1
  <2>3. Lines(g)
    BY <1>1, <2>1, <2>2 DEF Lines
  <2>4. Len(f) - 1 \in Nat /\ Len(f) - 1 \in 0..Len(f)
        /\ \A i \in 1..(Len(f) - 1) : i \in 1..Len(f) /\ i # Len(f)
    <3>1. \A k \in Nat : k > 0 => /\ k - 1 \in Nat /\ k - 1 \in 0..k
                                  /\ \A i \in 1..(k - 1) : i \in 1..k /\ i # k
      OBVIOUS
    <3> QED
      BY <1>1, <1>5, <3>1
  <2>5. Cut(g, Len(f) - 1)
    <3>1. \A i \in 1..Len(f) : f[i].good
      BY DEF Cut
    <3>2. \A i \in 1..(Len(f) - 1) : g[i].good
      BY <2>2, <2>4, <3>1
    <3>3. (Len(f) - 1) + 1 = Len(f)
      BY <1>1
    <3> QED
      BY <2>1, <2>2, <2>4, <3>2, <3>3 DEF Cut
  <2>6. Readable(g) = [i \in 1..(Len(f) - 1) |-> g[i].recs[1]]
    BY <2>3, <2>5, CutIsReadable
  <2>7. Readable(g) = [i \in 1..(Len(f) - 1) |-> f[i].recs[1]]
    BY <2>2, <2>4, <2>6
  <2> QED
    BY <1>5, <2>3, <2>4, <2>5, <2>7 DEF g
<1>6. CASE g = Append(f, new)
  <2> HIDE DEF new
  <2>1. /\ g \in Seq(Line) /\ Len(g) = Len(f) + 1 /\ DOMAIN g = 1..(Len(f) + 1)
        /\ g[Len(f) + 1] = new
        /\ \A i \in 1..Len(f) : g[i] = f[i]
    BY <1>1, <1>2, <1>6
  <2> HIDE DEF g
  <2>2. <<r>> # <<>> /\ <<r>>[1] = r
    OBVIOUS
  <2>3. Lines(g)
    <3>1. ASSUME NEW i \in 1..(Len(f) + 1), g[i].good
          PROVE  g[i].recs # <<>>
      <4>1. CASE i \in 1..Len(f)
        BY <1>1, <2>1, <3>1, <4>1 DEF Lines
      <4>2. CASE i = Len(f) + 1
        BY <1>2, <2>1, <2>2, <3>1, <4>2
      <4> QED
        BY <1>1, <4>1, <4>2
    <3> QED
      BY <2>1, <3>1 DEF Lines
  <2>4. \A i \in 1..Len(f) : g[i].good
    BY <2>1 DEF Cut
  <2>5. CASE new.good
    <3>1. \A i \in 1..(Len(f) + 1) : g[i].good
      BY <1>1, <2>1, <2>4, <2>5
    <3>2. Cut(g, Len(f) + 1)
      BY <1>1, <2>1, <3>1 DEF Cut
    <3>3. Readable(g) = [i \in 1..(Len(f) + 1) |-> g[i].recs[1]]
          /\ Readable(g) \in Seq(Record) /\ Len(Readable(g)) = Len(f) + 1
      BY <2>3, <3>2, CutIsReadable
    <3>4. r \in Record /\ Append(Readable(f), r) \in Seq(Record)
          /\ Len(Append(Readable(f), r)) = Len(f) + 1
          /\ Append(Readable(f), r)[Len(f) + 1] = r
          /\ \A i \in 1..Len(f) : Append(Readable(f), r)[i] = Readable(f)[i]
      BY <1>1, <1>3
    <3>5. ASSUME NEW i \in 1..(Len(f) + 1)
          PROVE  Readable(g)[i] = Append(Readable(f), r)[i]
      <4>1. CASE i \in 1..Len(f)
        BY <1>3, <2>1, <3>3, <3>4, <4>1
      <4>2. CASE i = Len(f) + 1
        BY <1>2, <2>1, <2>2, <2>5, <3>3, <3>4, <4>2
      <4>3. i \in 1..Len(f) \/ i = Len(f) + 1
        BY <1>1
      <4> QED
        BY <4>1, <4>2, <4>3
    <3>6. Readable(g) = Append(Readable(f), r)
      BY ONLY <1>1, <3>3, <3>4, <3>5, SeqEqual
    <3>7. tear \in {"body", "full"} /\ Len(f) + 1 \in Nat
      BY <1>1, <1>2, <2>5
    <3> QED
      BY <2>3, <3>2, <3>6, <3>7 DEF g
  <2>6. CASE ~new.good
    <3>1. Cut(g, Len(f))
      BY <1>1, <2>1, <2>4, <2>6 DEF Cut
    <3>2. Readable(g) = [i \in 1..Len(f) |-> g[i].recs[1]]
      BY <2>3, <3>1, CutIsReadable
    <3>3. Readable(g) = Readable(f)
      BY <1>3, <2>1, <3>2
    <3> QED
      BY <1>1, <2>3, <3>1, <3>3 DEF g
  <2> QED
    BY <2>5, <2>6
<1> QED
  BY <1>4, <1>5, <1>6, AppendBytesForms

\* The file that a recovery writes holds the records it was given.
LEMMA RewrittenIsReadable ==
    ASSUME NEW s \in Seq(Record)
    PROVE  /\ Lines(Rewritten(s))
           /\ Cut(Rewritten(s), Len(s)) /\ Len(Rewritten(s)) = Len(s)
           /\ Readable(Rewritten(s)) = s
           /\ UidsIn(Rewritten(s)) = {s[i].uid : i \in 1..Len(s)}
           /\ \A i \in 1..Len(s) : Rewritten(s)[i].nl
<1> DEFINE g == Rewritten(s)
<1>1. Len(s) \in Nat /\ DOMAIN s = 1..Len(s) /\ \A i \in 1..Len(s) : s[i] \in Record
  OBVIOUS
<1>2. g = [i \in 1..Len(s) |-> Piece(s[i], "full")]
  BY <1>1 DEF Rewritten
<1>3. ASSUME NEW i \in 1..Len(s)
      PROVE  /\ g[i] \in Line /\ g[i].good /\ g[i].nl
             /\ g[i].recs = <<s[i]>> /\ g[i].recs # <<>> /\ g[i].recs[1] = s[i]
             /\ DOMAIN g[i].recs = {1}
  <2>1. g[i] = Piece(s[i], "full")
    BY <1>2
  <2>2. "full" \in TearKinds
    BY DEF TearKinds
  <2>3. g[i] \in Line /\ g[i].good /\ g[i].nl /\ g[i].recs = <<s[i]>>
    BY <1>1, <2>1, <2>2, PieceIsLine
  <2>4. <<s[i]>> # <<>> /\ <<s[i]>>[1] = s[i] /\ DOMAIN <<s[i]>> = {1}
    OBVIOUS
  <2> QED
    BY <2>3, <2>4
<1>4. g \in [1..Len(s) -> Line]
  BY <1>2, <1>3
<1>5. g \in Seq(Line) /\ Len(g) = Len(s) /\ DOMAIN g = 1..Len(s)
  BY ONLY <1>1, <1>4
<1>6. Lines(g)
  BY <1>3, <1>5 DEF Lines
<1>7. Cut(g, Len(s))
  BY <1>1, <1>3, <1>5 DEF Cut
<1>8. Readable(g) = [i \in 1..Len(s) |-> g[i].recs[1]] /\ Readable(g) \in Seq(Record)
      /\ Len(Readable(g)) = Len(s)
  BY <1>6, <1>7, CutIsReadable
<1>9. Readable(g) = s
  <2>1. \A i \in 1..Len(s) : Readable(g)[i] = s[i]
    BY <1>3, <1>8
  <2> QED
    BY ONLY s \in Seq(Record), <1>8, <2>1, SeqEqual
<1>10. \A x : x \in UidsIn(g) <=> \E i \in 1..Len(s) : s[i].uid = x
  BY <1>3, <1>5, UidsInside
<1> QED
  BY <1>3, <1>5, <1>6, <1>7, <1>9, <1>10
-----------------------------------------------------------------------------
(* The inductive invariant.                                                *)

\* Where a process holds exclusive_file_lock.
Critical == {"locked", "corrupt", "quarantined", "write", "written"}

\* The lock belongs to the process that is where it needs it.
Holding == \A p \in Procs : logPc[p] \in Critical <=> lock = p

\* The file is a sequence of lines with a place where its readable part ends.
Parsed ==
    /\ Lines(file)
    /\ \E n \in 0..Len(file) : Cut(file, n)
    /\ UidsIn(file) \subseteq 1..MaxRecords

\* A line that parses lacks its newline only after a tear.
Terminated == torn = {} => \A i \in DOMAIN file : file[i].good => file[i].nl

\* What a process found out about the file is still so when it uses it.
Current ==
    \A p \in Procs :
        /\ logPc[p] # "idle" => cur[p].uid \in 1..MaxRecords
        /\ logPc[p] \in {"corrupt", "quarantined", "write"} => cur[p].id = Len(Readable(file)) + 1
        /\ logPc[p] \in {"corrupt", "quarantined"} => seen[p] = Readable(file)
        /\ logPc[p] = "write" => Cut(file, Len(file))

\* A file is replaced only after everything in it was copied, and a record is
\* returned only after it was written.
Copied ==
    \A p \in Procs :
        /\ logPc[p] = "quarantined" => UidsIn(file) \subseteq backups
        /\ logPc[p] = "written" => cur[p].uid \in UidsIn(file) \cup backups \cup torn

LogInv ==
    LogTypeOK /\ Holding /\ Parsed /\ Terminated /\ Current /\ Copied /\ PrefixNumbered /\ EvidencePreserved

\* The lock excludes: where one process is inside, no other is.
LEMMA Alone ==
    ASSUME LogInv, NEW p \in Procs, NEW q \in Procs, logPc[p] \in Critical, logPc[q] \in Critical
    PROVE  p = q
BY DEF LogInv, Holding

\* A write, complete or not, keeps the file a file.
LEMMA WriteKeeps ==
    ASSUME LogInv, NEW p \in Procs, logPc[p] = "write",
           NEW tear \in TearKinds, file' = AppendBytes(file, cur[p], tear)
    PROVE  /\ Parsed' /\ PrefixNumbered'
           /\ UidsIn(file) \subseteq UidsIn(file')
           /\ tear \in {"body", "full"} => cur[p].uid \in UidsIn(file')
           /\ torn = {} => \/ Readable(file') = Readable(file)
                           \/ /\ tear \in {"body", "full"}
                              /\ Readable(file') = Append(Readable(file), cur[p])
           /\ torn = {} /\ tear # "body" => \A i \in DOMAIN file' : file'[i].good => file'[i].nl
<1>1. /\ Lines(file) /\ Cut(file, Len(file)) /\ cur[p] \in Record
      /\ cur[p].id = Len(Readable(file)) + 1 /\ cur[p].uid \in 1..MaxRecords
      /\ UidsIn(file) \subseteq 1..MaxRecords /\ PrefixNumbered
      /\ torn = {} => \A i \in DOMAIN file : file[i].good => file[i].nl
  BY DEF LogInv, LogTypeOK, Parsed, Terminated, Current
<1>2. /\ file \in Seq(Line) /\ Len(file) \in Nat /\ DOMAIN file = 1..Len(file)
      /\ \A i \in 1..Len(file) : file[i].good
  BY <1>1 DEF Lines, Cut
<1>3. /\ Lines(file')
      /\ \E n \in Nat : Cut(file', n)
      /\ \/ Readable(file') = Readable(file)
         \/ tear \in {"body", "full"} /\ Readable(file') = Append(Readable(file), cur[p])
         \/ /\ Len(file) > 0 /\ ~file[Len(file)].nl
            /\ Readable(file') = [i \in 1..(Len(file) - 1) |-> file[i].recs[1]]
  BY <1>1, WriteEffect
<1>4. /\ UidsIn(file) \subseteq UidsIn(file')
      /\ tear \in {"body", "full"} => cur[p].uid \in UidsIn(file')
      /\ UidsIn(file') \subseteq UidsIn(file) \cup {cur[p].uid}
  BY <1>1, UidsGrow
<1>5. Parsed'
  <2>1. PICK n \in Nat : Cut(file', n)
    BY <1>3
  <2>2. n \in 0..Len(file')
    BY <2>1 DEF Cut
  <2>3. UidsIn(file') \subseteq 1..MaxRecords
    BY <1>1, <1>4
  <2> QED
    BY <1>3, <2>1, <2>2, <2>3 DEF Parsed
<1>6. PrefixNumbered'
  <2>1. /\ Readable(file) = [i \in 1..Len(file) |-> file[i].recs[1]]
        /\ Readable(file) \in Seq(Record) /\ Len(Readable(file)) = Len(file)
        /\ \A i \in 1..Len(file) : Readable(file)[i].id = i
    <3>1. /\ Readable(file) = [i \in 1..Len(file) |-> file[i].recs[1]]
          /\ Readable(file) \in Seq(Record) /\ Len(Readable(file)) = Len(file)
      BY <1>1, CutIsReadable
    <3> QED
      BY <1>1, <3>1 DEF PrefixNumbered
  <2>2. CASE Readable(file') = Readable(file)
    BY <1>1, <2>2 DEF PrefixNumbered
  <2>3. CASE Readable(file') = Append(Readable(file), cur[p])
    <3>1. /\ DOMAIN Append(Readable(file), cur[p]) = 1..(Len(file) + 1)
          /\ Append(Readable(file), cur[p])[Len(file) + 1] = cur[p]
          /\ \A i \in 1..Len(file) : Append(Readable(file), cur[p])[i] = Readable(file)[i]
      BY <1>1, <1>2, <2>1
    <3>2. ASSUME NEW i \in 1..(Len(file) + 1)
          PROVE  Append(Readable(file), cur[p])[i].id = i
      <4>1. i \in 1..Len(file) \/ i = Len(file) + 1
        BY <1>2
      <4> QED
        BY <1>1, <2>1, <3>1, <4>1
    <3> QED
      BY <2>3, <3>1, <3>2 DEF PrefixNumbered
  <2>4. CASE /\ Len(file) > 0
             /\ Readable(file') = [i \in 1..(Len(file) - 1) |-> file[i].recs[1]]
    <3>1. \A i \in 1..(Len(file) - 1) : i \in 1..Len(file)
      BY <1>2
    <3>2. \A i \in 1..(Len(file) - 1) : Readable(file')[i] = Readable(file)[i]
      BY <2>1, <2>4, <3>1
    <3>3. DOMAIN Readable(file') = 1..(Len(file) - 1)
      BY <2>4
    <3> QED
      BY <2>1, <3>1, <3>2, <3>3 DEF PrefixNumbered
  <2> QED
    BY <1>3, <2>2, <2>3, <2>4
<1>7. ASSUME torn = {}
      PROVE  \A i \in 1..Len(file) : file[i].nl
  BY <1>1, <1>2, <1>7
<1>8. ASSUME torn = {}
      PROVE  \/ Readable(file') = Readable(file)
             \/ tear \in {"body", "full"} /\ Readable(file') = Append(Readable(file), cur[p])
  <2>1. Len(file) > 0 => file[Len(file)].nl
    BY <1>2, <1>7, <1>8
  <2> QED
    BY <1>3, <2>1
<1>9. ASSUME torn = {}, tear # "body"
      PROVE  \A i \in DOMAIN file' : file'[i].good => file'[i].nl
  <2>1. Len(file) > 0 => file[Len(file)].nl
    BY <1>2, <1>7, <1>9
  <2>2. file' = file \/ file' = Append(file, Piece(cur[p], tear))
    BY <1>1, <2>1, AppendBytesForms
  <2>3. CASE file' = file
    BY <1>2, <1>7, <1>9, <2>3
  <2>4. CASE file' = Append(file, Piece(cur[p], tear))
    <3>1. Piece(cur[p], tear) \in Line
          /\ (Piece(cur[p], tear).good => Piece(cur[p], tear).nl)
      BY <1>1, <1>9, PieceIsLine
    <3> DEFINE l == Piece(cur[p], tear)
    <3> HIDE DEF l
    <3>2. /\ DOMAIN Append(file, l) = 1..(Len(file) + 1)
          /\ Append(file, l)[Len(file) + 1] = l
          /\ \A i \in 1..Len(file) : Append(file, l)[i] = file[i]
      BY <1>2, <3>1 DEF l
    <3>3. ASSUME NEW i \in 1..(Len(file) + 1), Append(file, l)[i].good
          PROVE  Append(file, l)[i].nl
      <4>1. i \in 1..Len(file) \/ i = Len(file) + 1
        BY <1>2
      <4> QED
        BY <1>7, <1>9, <3>1, <3>2, <3>3, <4>1 DEF l
    <3> QED
      BY <2>4, <3>2, <3>3 DEF l
  <2> QED
    BY <2>2, <2>3, <2>4
<1> QED
  BY <1>4, <1>5, <1>6, <1>8, <1>9

\* A recovery leaves a file that parses as a whole and reads as before.
LEMMA RestoreKeeps ==
    ASSUME LogInv, NEW p \in Procs, RestorePrefix(p)
    PROVE  /\ Parsed' /\ PrefixNumbered' /\ Terminated'
           /\ Readable(file') = Readable(file)
           /\ Cut(file', Len(file'))
           /\ UidsIn(file) \subseteq backups'
<1>1. /\ logPc[p] = "quarantined" /\ file' = Rewritten(seen[p])
      /\ backups' = backups /\ torn' = torn
  BY DEF RestorePrefix
<1>2. /\ seen[p] = Readable(file) /\ seen[p] \in Seq(Record)
      /\ UidsIn(file) \subseteq backups /\ Parsed /\ PrefixNumbered
  BY <1>1 DEF LogInv, LogTypeOK, Current, Copied
<1>3. /\ Lines(file') /\ Cut(file', Len(seen[p])) /\ Len(file') = Len(seen[p])
      /\ Readable(file') = seen[p]
      /\ UidsIn(file') = {seen[p][i].uid : i \in 1..Len(seen[p])}
      /\ \A i \in 1..Len(seen[p]) : file'[i].nl
  BY <1>1, <1>2, RewrittenIsReadable
<1>4. UidsIn(file') \subseteq 1..MaxRecords
  <2>1. PICK n \in 0..Len(file) : Cut(file, n)
    BY <1>2 DEF Parsed
  <2>2. Readable(file) = [i \in 1..n |-> file[i].recs[1]] /\ Len(Readable(file)) = n
    BY <1>2, <2>1, CutIsReadable DEF Parsed
  <2>3. ASSUME NEW i \in 1..n
        PROVE  seen[p][i].uid \in 1..MaxRecords
    <3>1. /\ file \in Seq(Line) /\ i \in DOMAIN file /\ file[i].good
          /\ file[i].recs # <<>>
      BY <1>2, <2>1 DEF Parsed, Lines, Cut
    <3>2. file[i].recs \in Seq(Record)
      <4>1. file[i] \in Line
        BY <3>1
      <4> QED
        BY <4>1 DEF Line
    <3>3. 1 \in DOMAIN file[i].recs
      BY <3>1, <3>2
    <3>4. file[i].recs[1].uid \in UidsIn(file)
      BY <3>1, <3>3, UidsInside
    <3> QED
      BY <1>2, <2>2, <3>4 DEF Parsed
  <2> QED
    BY <1>2, <1>3, <2>2, <2>3
<1>5. Parsed'
  <2>1. Len(seen[p]) \in 0..Len(file')
    BY <1>2, <1>3
  <2> QED
    BY <1>3, <1>4, <2>1 DEF Parsed
<1>6. Terminated'
  <2>1. DOMAIN file' = 1..Len(seen[p])
    BY <1>3 DEF Lines
  <2> QED
    BY <1>3, <2>1 DEF Terminated
<1>7. PrefixNumbered'
  BY <1>2, <1>3 DEF PrefixNumbered
<1> QED
  BY <1>1, <1>2, <1>3, <1>5, <1>6, <1>7

\* Kills and failing writes leave tears of these kinds.
LEMMA TearsAreTears == "none" \in TearKinds /\ "full" \in TearKinds /\ Tears \subseteq TearKinds
                       /\ ShortTears \subseteq TearKinds
BY LogAssumption DEF TearKinds

\* The invariant holds of an empty file.
LEMMA InitHolds == LogInit => LogInv
<1> SUFFICES ASSUME LogInit PROVE LogInv
  OBVIOUS
<1>1. /\ <<>> \in Seq(Line) /\ Len(<<>>) = 0 /\ DOMAIN <<>> = {}
      /\ <<>> \in Seq(Record)
  OBVIOUS
<1>2. Lines(file) /\ Cut(file, 0)
  BY <1>1 DEF LogInit, Lines, Cut
<1>3. Readable(file) = [i \in 1..0 |-> file[i].recs[1]] /\ DOMAIN Readable(file) = {}
  BY <1>2, CutIsReadable
<1>4. UidsIn(file) = {}
  BY <1>1, UidsInside DEF LogInit
<1>5. LogTypeOK
  BY <1>1, LogAssumption DEF LogInit, LogTypeOK, PcValues, Record, NoRec
<1>6. Parsed
  <2>1. 0 \in 0..Len(file)
    BY <1>1 DEF LogInit
  <2> QED
    BY <1>2, <1>4, <2>1 DEF Parsed
<1>7. Holding
  BY LogAssumption DEF LogInit, Holding, Critical
<1>8. Terminated /\ PrefixNumbered
  BY <1>1, <1>3 DEF LogInit, Terminated, PrefixNumbered
<1>9. Current /\ Copied /\ EvidencePreserved
  BY DEF LogInit, Current, Copied, EvidencePreserved
<1> QED
  BY <1>5, <1>6, <1>7, <1>8, <1>9 DEF LogInv

\* What a step does to the file: nothing, a write or a recovery.
FileStep(p) ==
    \/ UNCHANGED file /\ torn \subseteq torn'
    \/ RestorePrefix(p)
    \/ /\ logPc[p] = "write" /\ torn \subseteq torn'
       /\ \E tear \in TearKinds :
              /\ file' = AppendBytes(file, cur[p], tear)
              /\ tear = "body" => torn' # {}

LEMMA StepOnFile ==
    ASSUME LogInv, NEW p \in Procs, Drop(p) \/ Start(p) \/ Progress(p) \/ Crash(p)
    PROVE  FileStep(p)
<1>1. CASE Drop(p) \/ Start(p) \/ Acquire(p) \/ ReadPrefix(p) \/ ReadRaises(p) \/ Quarantine(p)
           \/ Return(p)
  BY <1>1 DEF Drop, Start, Acquire, ReadPrefix, ReadRaises, Quarantine, Return, FileStep
<1>2. CASE RestorePrefix(p)
  BY <1>2 DEF FileStep
<1>3. CASE WriteLine(p)
  <2>1. PICK tear \in {"full"} \cup ShortTears :
            /\ file' = AppendBytes(file, cur[p], tear)
            /\ torn' = IF tear = "full" THEN torn ELSE torn \cup {cur[p].uid}
    BY <1>3 DEF WriteLine
  <2>2. tear \in TearKinds /\ torn \subseteq torn' /\ (tear = "body" => torn' # {})
    BY <2>1, TearsAreTears
  <2> QED
    BY <1>3, <2>1, <2>2 DEF FileStep, WriteLine
<1>4. CASE WriteFails(p)
  <2>1. PICK tear \in {"none", "full"} : file' = AppendBytes(file, cur[p], tear)
    BY <1>4 DEF WriteFails
  <2>2. tear \in TearKinds /\ tear # "body"
    BY TearsAreTears
  <2> QED
    BY <1>4, <2>1, <2>2 DEF FileStep, WriteFails
<1>5. CASE Crash(p)
  <2>1. CASE logPc[p] # "write"
    BY <1>5, <2>1 DEF FileStep, Crash, Killed
  <2>2. CASE logPc[p] = "write"
    <3>1. PICK tear \in Tears : Tear(p, tear)
      BY <1>5, <2>2 DEF Crash, Killed
    <3>2. /\ tear \in TearKinds /\ file' = AppendBytes(file, cur[p], tear)
          /\ torn' = IF tear \in {"body", "char"} THEN torn \cup {cur[p].uid} ELSE torn
      BY <3>1, TearsAreTears DEF Tear
    <3> QED
      BY <2>2, <3>2 DEF FileStep
  <2> QED
    BY <2>1, <2>2
<1> QED
  BY <1>1, <1>2, <1>3, <1>4, <1>5 DEF Progress

\* The file stays a file, numbered and terminated, and no step destroys evidence.
LEMMA FileKept ==
    ASSUME LogInv, NEW p \in Procs, FileStep(p)
    PROVE  /\ Parsed' /\ PrefixNumbered' /\ Terminated'
           /\ UidsIn(file) \subseteq UidsIn(file') \cup backups'
<1>1. CASE UNCHANGED file /\ torn \subseteq torn'
  BY <1>1 DEF LogInv, Parsed, PrefixNumbered, Terminated
<1>2. CASE RestorePrefix(p)
  BY <1>2, RestoreKeeps
<1>3. CASE /\ logPc[p] = "write" /\ torn \subseteq torn'
           /\ \E tear \in TearKinds :
                  file' = AppendBytes(file, cur[p], tear) /\ (tear = "body" => torn' # {})
  <2>1. PICK tear \in TearKinds :
            file' = AppendBytes(file, cur[p], tear) /\ (tear = "body" => torn' # {})
    BY <1>3
  <2>2. /\ Parsed' /\ PrefixNumbered' /\ UidsIn(file) \subseteq UidsIn(file')
        /\ torn = {} /\ tear # "body" => \A i \in DOMAIN file' : file'[i].good => file'[i].nl
    BY <1>3, <2>1, WriteKeeps
  <2>3. Terminated'
    BY <1>3, <2>1, <2>2 DEF Terminated
  <2> QED
    BY <2>2, <2>3
<1> QED
  BY <1>1, <1>2, <1>3 DEF FileStep

\* What is read of a parsed file is a sequence of records.
LEMMA ReadableTyped ==
    ASSUME Parsed
    PROVE  Readable(file) \in Seq(Record) /\ (~Corrupt(file) => Cut(file, Len(file)))
<1>1. PICK n \in 0..Len(file) : Cut(file, n)
  BY DEF Parsed
<1> QED
  BY <1>1, CutIsReadable DEF Parsed

\* Each step keeps the types.
LEMMA TypeStep ==
    ASSUME LogInv, NEW p \in Procs, Drop(p) \/ Start(p) \/ Progress(p) \/ Crash(p)
    PROVE  LogTypeOK'
<1> USE DEF LogTypeOK, PcValues, Record
<1>1. LogTypeOK /\ MaxRecords \in Nat /\ MaxCrashes \in Nat /\ NoRec \in Record
  BY LogAssumption DEF LogInv, NoRec
<1>2. file' \in Seq(Line)
  BY StepOnFile, FileKept DEF Parsed, Lines
<1>3. CASE Drop(p)
  BY <1>1, <1>2, <1>3 DEF Drop
<1>4. CASE Start(p)
  <2>1. started + 1 \in 0..MaxRecords /\ [id |-> 0, uid |-> started + 1] \in Record
    BY <1>1, <1>4 DEF Start
  <2> QED
    BY <1>1, <1>2, <1>4, <2>1 DEF Start
<1>5. CASE Acquire(p)
  BY <1>1, <1>2, <1>5 DEF Acquire
<1>6. CASE ReadPrefix(p)
  <2>1. Readable(file) \in Seq(Record) /\ cur[p] \in Record
    BY <1>1, ReadableTyped DEF LogInv
  <2>2. Len(Readable(file)) + 1 \in Nat
    BY <2>1
  <2>3. NewRecord(p, Readable(file)) \in Record
    BY <2>1, <2>2 DEF NewRecord
  <2> QED
    BY <1>1, <1>2, <1>6, <2>1, <2>3 DEF ReadPrefix
<1>7. CASE ReadRaises(p)
  BY <1>1, <1>2, <1>7 DEF ReadRaises, Over
<1>8. CASE Quarantine(p)
  <2>1. UidsIn(file) \subseteq 1..MaxRecords
    BY DEF LogInv, Parsed
  <2> QED
    BY <1>1, <1>2, <1>8, <2>1 DEF Quarantine
<1>9. CASE RestorePrefix(p)
  BY <1>1, <1>2, <1>9 DEF RestorePrefix
<1>10. CASE WriteLine(p)
  <2>1. torn' \subseteq torn \cup {cur[p].uid} /\ cur[p].uid \in 1..MaxRecords
    BY <1>10 DEF WriteLine, LogInv, Current
  <2> QED
    BY <1>1, <1>2, <1>10, <2>1 DEF WriteLine
<1>11. CASE WriteFails(p)
  BY <1>1, <1>2, <1>11 DEF WriteFails, Over
<1>12. CASE Return(p)
  BY <1>1, <1>2, <1>12 DEF Return, Over
<1>13. CASE Crash(p)
  <2>1. torn' \subseteq 1..MaxRecords
    <3>1. CASE logPc[p] # "write"
      BY <1>1, <1>13, <3>1 DEF Crash, Killed
    <3>2. CASE logPc[p] = "write"
      <4>1. PICK tear \in Tears : Tear(p, tear)
        BY <1>13, <3>2 DEF Crash, Killed
      <4>2. torn' \subseteq torn \cup {cur[p].uid} /\ cur[p].uid \in 1..MaxRecords
        BY <3>2, <4>1 DEF Tear, LogInv, Current
      <4> QED
        BY <1>1, <4>2
    <3> QED
      BY <3>1, <3>2
  <2>2. crashes' \in 0..MaxCrashes
    BY <1>1, <1>13 DEF Crash, Killed
  <2> QED
    BY <1>1, <1>2, <1>13, <2>1, <2>2 DEF Crash, Killed, Over
<1> QED
  BY <1>3, <1>4, <1>5, <1>6, <1>7, <1>8, <1>9, <1>10, <1>11, <1>12, <1>13 DEF Progress

\* Each step leaves the lock with the process that needs it.
LEMMA HoldingStep ==
    ASSUME LogInv, NEW p \in Procs, Drop(p) \/ Start(p) \/ Progress(p) \/ Crash(p)
    PROVE  Holding'
<1> USE DEF Holding, Critical
<1>1. Holding /\ logPc \in [Procs -> PcValues] /\ NoProc \notin Procs
  BY LogAssumption DEF LogInv, LogTypeOK
<1>2. CASE Drop(p)
  BY <1>1, <1>2 DEF Drop
<1>3. CASE Start(p)
  BY <1>1, <1>3 DEF Start
<1>4. CASE Acquire(p)
  BY <1>1, <1>4 DEF Acquire
<1>5. CASE ReadPrefix(p)
  BY <1>1, <1>5 DEF ReadPrefix
<1>6. CASE ReadRaises(p)
  BY <1>1, <1>6 DEF ReadRaises, Over
<1>7. CASE Quarantine(p)
  BY <1>1, <1>7 DEF Quarantine
<1>8. CASE RestorePrefix(p)
  BY <1>1, <1>8 DEF RestorePrefix
<1>9. CASE WriteLine(p)
  BY <1>1, <1>9 DEF WriteLine
<1>10. CASE WriteFails(p)
  BY <1>1, <1>10 DEF WriteFails, Over
<1>11. CASE Return(p)
  BY <1>1, <1>11 DEF Return, Over
<1>12. CASE Crash(p)
  BY <1>1, <1>12 DEF Crash, Killed, Over
<1> QED
  BY <1>2, <1>3, <1>4, <1>5, <1>6, <1>7, <1>8, <1>9, <1>10, <1>11, <1>12 DEF Progress

\* A process that is not the one at work keeps its locals, and what it knows
\* of the file, unless it is inside, where only one can be.
LEMMA OthersStay ==
    ASSUME LogInv, NEW p \in Procs, Drop(p) \/ Start(p) \/ Progress(p) \/ Crash(p),
           NEW q \in Procs, q # p
    PROVE  /\ logPc'[q] = logPc[q] /\ cur'[q] = cur[q] /\ seen'[q] = seen[q]
           /\ logPc[q] \in Critical => UNCHANGED file
<1> USE DEF Drop, Start, Progress, Acquire, ReadPrefix, ReadRaises, Quarantine, RestorePrefix,
            WriteLine, WriteFails, Return, Crash, Killed, Over
<1>1. /\ logPc \in [Procs -> PcValues] /\ cur \in [Procs -> Record] /\ seen \in [Procs -> Seq(Record)]
  BY DEF LogInv, LogTypeOK
<1>2. logPc'[q] = logPc[q] /\ cur'[q] = cur[q] /\ seen'[q] = seen[q]
  BY <1>1
<1>3. ASSUME logPc[q] \in Critical
      PROVE  UNCHANGED file
  <2>1. logPc[p] \notin Critical
    BY <1>3, Alone
  <2> QED
    BY <2>1 DEF Critical
<1> QED
  BY <1>2, <1>3

\* Each step keeps what the processes know of the file.
LEMMA CurrentStep ==
    ASSUME LogInv, NEW p \in Procs, Drop(p) \/ Start(p) \/ Progress(p) \/ Crash(p)
    PROVE  Current'
<1>1. /\ logPc \in [Procs -> PcValues] /\ cur \in [Procs -> Record] /\ seen \in [Procs -> Seq(Record)]
      /\ started \in 0..MaxRecords /\ MaxRecords \in Nat
      /\ Current /\ Parsed
  BY LogAssumption DEF LogInv, LogTypeOK
<1> SUFFICES ASSUME NEW q \in Procs
             PROVE  /\ logPc'[q] # "idle" => cur'[q].uid \in 1..MaxRecords
                    /\ logPc'[q] \in {"corrupt", "quarantined", "write"} =>
                           cur'[q].id = Len(Readable(file')) + 1
                    /\ logPc'[q] \in {"corrupt", "quarantined"} => seen'[q] = Readable(file')
                    /\ logPc'[q] = "write" => Cut(file', Len(file'))
  BY DEF Current
<1>2. CASE q # p
  <2>1. /\ logPc'[q] = logPc[q] /\ cur'[q] = cur[q] /\ seen'[q] = seen[q]
        /\ logPc[q] \in Critical => file' = file
    BY <1>2, OthersStay
  <2> QED
    BY <1>1, <2>1 DEF Current, Critical
<1>3. CASE q = p /\ Start(p)
  <2>1. logPc'[p] = "waiting" /\ cur'[p].uid = started + 1 /\ started < MaxRecords
    BY <1>1, <1>3 DEF Start
  <2> QED
    BY <1>1, <1>3, <2>1
<1>4. CASE q = p /\ Drop(p)
  BY <1>1, <1>4 DEF Drop, Current
<1>5. CASE q = p /\ Acquire(p)
  BY <1>1, <1>5 DEF Acquire, Current
<1>6. CASE q = p /\ ReadPrefix(p)
  <2>1. /\ logPc'[p] = (IF Corrupt(file) THEN "corrupt" ELSE "write")
        /\ seen'[p] = Readable(file) /\ file' = file /\ logPc[p] = "locked"
        /\ cur'[p] = NewRecord(p, Readable(file))
    BY <1>1, <1>6 DEF ReadPrefix
  <2>2. cur'[p].id = Len(Readable(file)) + 1 /\ cur'[p].uid = cur[p].uid
    BY <1>1, <2>1 DEF NewRecord, Record
  <2>3. cur[p].uid \in 1..MaxRecords
    BY <1>1, <2>1 DEF Current
  <2>4. ~Corrupt(file) => Cut(file, Len(file))
    BY <1>1, ReadableTyped
  <2> QED
    BY <1>6, <2>1, <2>2, <2>3, <2>4
<1>7. CASE q = p /\ Quarantine(p)
  BY <1>1, <1>7 DEF Quarantine, Current
<1>8. CASE q = p /\ RestorePrefix(p)
  <2>1. /\ logPc[p] = "quarantined" /\ logPc'[p] = "write" /\ cur' = cur
    BY <1>1, <1>8 DEF RestorePrefix
  <2>2. Readable(file') = Readable(file) /\ Cut(file', Len(file'))
    BY <1>8, RestoreKeeps
  <2> QED
    BY <1>1, <1>8, <2>1, <2>2 DEF Current
<1>9. CASE q = p /\ WriteLine(p)
  <2>1. logPc[p] = "write" /\ logPc'[p] = "written" /\ cur' = cur
    BY <1>1, <1>9 DEF WriteLine
  <2> QED
    BY <1>1, <1>9, <2>1 DEF Current
<1>10. CASE q = p /\ (ReadRaises(p) \/ WriteFails(p) \/ Return(p) \/ Crash(p))
  <2>1. logPc'[p] = "idle"
    BY <1>1, <1>10 DEF ReadRaises, WriteFails, Return, Crash, Killed, Over
  <2> QED
    BY <1>10, <2>1
<1> QED
  BY <1>2, <1>3, <1>4, <1>5, <1>6, <1>7, <1>8, <1>9, <1>10 DEF Progress

\* Each step keeps the copies before the replacements, and the bytes before
\* the acknowledgements.
LEMMA CopiedStep ==
    ASSUME LogInv, NEW p \in Procs, Drop(p) \/ Start(p) \/ Progress(p) \/ Crash(p)
    PROVE  Copied' /\ EvidencePreserved'
<1>1. /\ logPc \in [Procs -> PcValues] /\ cur \in [Procs -> Record]
      /\ Copied /\ EvidencePreserved
  BY DEF LogInv, LogTypeOK
<1>2. FileStep(p)
  BY StepOnFile
<1>3. backups \subseteq backups'
  BY DEF Drop, Start, Progress, Acquire, ReadPrefix, ReadRaises, Quarantine, RestorePrefix,
         WriteLine, WriteFails, Return, Crash, Killed, Over
<1>4. UidsIn(file) \cup backups \cup torn \subseteq UidsIn(file') \cup backups' \cup torn'
  <2>1. UidsIn(file) \subseteq UidsIn(file') \cup backups'
    BY <1>2, FileKept
  <2>2. torn \subseteq torn'
    BY <1>2 DEF FileStep, RestorePrefix
  <2> QED
    BY <1>3, <2>1, <2>2
<1>5. EvidencePreserved'
  <2>1. acked' = acked \/ (Return(p) /\ acked' = acked \cup {cur[p]})
    BY DEF Drop, Start, Progress, Acquire, ReadPrefix, ReadRaises, Quarantine, RestorePrefix,
           WriteLine, WriteFails, Return, Crash, Killed, Over
  <2>2. Return(p) => cur[p].uid \in UidsIn(file) \cup backups \cup torn
    BY <1>1 DEF Copied, Return
  <2> QED
    BY <1>1, <1>4, <2>1, <2>2 DEF EvidencePreserved
<1>6. ASSUME NEW q \in Procs, logPc'[q] = "quarantined"
      PROVE  UidsIn(file') \subseteq backups'
  <2>1. CASE q # p
    <3>1. logPc[q] = "quarantined" /\ file' = file
      BY <1>6, <2>1, OthersStay DEF Critical
    <3> QED
      BY <1>1, <1>3, <3>1 DEF Copied
  <2>2. CASE q = p /\ Quarantine(p)
    BY <2>2 DEF Quarantine
  <2>3. CASE q = p /\ Drop(p)
    BY <1>1, <1>6, <2>3 DEF Drop
  <2>4. CASE q = p /\ ~Quarantine(p) /\ ~Drop(p)
    BY <1>1, <1>6, <2>4 DEF Start, Progress, Acquire, ReadPrefix, ReadRaises, RestorePrefix,
         WriteLine, WriteFails, Return, Crash, Killed, Over
  <2> QED
    BY <2>1, <2>2, <2>3, <2>4
<1>7. ASSUME NEW q \in Procs, logPc'[q] = "written"
      PROVE  cur'[q].uid \in UidsIn(file') \cup backups' \cup torn'
  <2>1. CASE q # p
    <3>1. logPc[q] = "written" /\ cur'[q] = cur[q]
      BY <1>7, <2>1, OthersStay
    <3> QED
      BY <1>1, <1>4, <3>1 DEF Copied
  <2>2. CASE q = p /\ WriteLine(p)
    <3>1. PICK tear \in {"full"} \cup ShortTears :
              /\ file' = AppendBytes(file, cur[p], tear)
              /\ torn' = IF tear = "full" THEN torn ELSE torn \cup {cur[p].uid}
      BY <2>2 DEF WriteLine
    <3>2. logPc[p] = "write" /\ cur' = cur /\ tear \in TearKinds
      BY <2>2, TearsAreTears DEF WriteLine
    <3>3. tear = "full" => cur[p].uid \in UidsIn(file')
      BY <3>1, <3>2, WriteKeeps
    <3> QED
      BY <2>2, <3>1, <3>2, <3>3
  <2>3. CASE q = p /\ Drop(p)
    BY <1>1, <1>7, <2>3 DEF Drop
  <2>4. CASE q = p /\ ~WriteLine(p) /\ ~Drop(p)
    BY <1>1, <1>7, <2>4 DEF Start, Progress, Acquire, ReadPrefix, ReadRaises, Quarantine,
         RestorePrefix, WriteFails, Return, Crash, Killed, Over
  <2> QED
    BY <2>1, <2>2, <2>3, <2>4
<1>8. Copied'
  BY <1>6, <1>7 DEF Copied
<1> QED
  BY <1>5, <1>8

\* The invariant is inductive.
LEMMA StepHolds == LogInv /\ [LogNext]_logVars => LogInv'
<1> SUFFICES ASSUME LogInv, [LogNext]_logVars PROVE LogInv'
  OBVIOUS
<1>1. CASE LogNext
  <2>1. PICK p \in Procs : Drop(p) \/ Start(p) \/ Progress(p) \/ Crash(p)
    BY <1>1 DEF LogNext
  <2>2. FileStep(p)
    BY <2>1, StepOnFile
  <2> QED
    BY <2>1, <2>2, TypeStep, HoldingStep, CurrentStep, CopiedStep, FileKept DEF LogInv
<1>2. CASE UNCHANGED logVars
  BY <1>2 DEF logVars, LogInv, LogTypeOK, Holding, Parsed, Terminated, Current, Copied,
              PrefixNumbered, EvidencePreserved
<1> QED
  BY <1>1, <1>2

-----------------------------------------------------------------------------
(* The theorems.                                                           *)

\* The variables of the log keep their types (run_state.py, storage.py).
THEOREM LogTypeHolds == LogSpec => []LogTypeOK
<1>1. LogInv => LogTypeOK
  BY DEF LogInv
<1> QED
  BY <1>1, InitHolds, StepHolds, PTL DEF LogSpec

\* recover_jsonl_suffix and _append_jsonl destroy no acknowledged record: it
\* is in the file or in a copy of it, unless its own write was torn.
THEOREM EvidencePreservedHolds == LogSpec => []EvidencePreserved
<1>1. LogInv => EvidencePreserved
  BY DEF LogInv
<1> QED
  BY <1>1, InitHolds, StepHolds, PTL DEF LogSpec

\* The readable records are numbered 1, 2, 3, ...: two appends never get one
\* number, whatever is torn or recovered.
THEOREM PrefixNumberedHolds == LogSpec => []PrefixNumbered
<1>1. LogInv => PrefixNumbered
  BY DEF LogInv
<1> QED
  BY <1>1, InitHolds, StepHolds, PTL DEF LogSpec

\* Each step of the processes adds one numbered entry to what a reader gets,
\* or leaves it, until a write is torn.
LEMMA StepImplements == LogInv /\ [LogNext]_logVars => [Promise!Next]_(Promise!vars)
<1> SUFFICES ASSUME LogInv, [LogNext]_logVars PROVE [Promise!Next]_(Promise!vars)
  OBVIOUS
<1>1. CASE UNCHANGED logVars
  BY <1>1 DEF logVars, Promise!vars
<1>2. CASE LogNext
  <2>1. PICK p \in Procs : Drop(p) \/ Start(p) \/ Progress(p) \/ Crash(p)
    BY <1>2 DEF LogNext
  <2>2. FileStep(p)
    BY <2>1, StepOnFile
  <2>3. CASE torn' # {}
    BY <2>3 DEF Promise!Next, Promise!Damage
  <2>4. CASE torn' = {} /\ Readable(file') = Readable(file)
    <3>1. torn = {}
      BY <2>2, <2>4 DEF FileStep, RestorePrefix
    <3> QED
      BY <2>4, <3>1 DEF Promise!vars
  <2>5. CASE torn' = {} /\ Readable(file') # Readable(file)
    <3>1. torn = {}
      BY <2>2, <2>5 DEF FileStep, RestorePrefix
    <3>2. ~RestorePrefix(p)
      BY <2>5, RestoreKeeps
    <3>3. PICK tear \in TearKinds : logPc[p] = "write" /\ file' = AppendBytes(file, cur[p], tear)
      BY <2>2, <2>5, <3>2 DEF FileStep
    <3>4. Readable(file') = Append(Readable(file), cur[p])
      BY <2>5, <3>1, <3>3, WriteKeeps
    <3>5. /\ cur[p] \in Record /\ cur[p].id = Len(Readable(file)) + 1
          /\ cur[p].uid \in 1..MaxRecords
      BY <3>3 DEF LogInv, LogTypeOK, Current
    <3>6. cur[p] = [id |-> Len(Readable(file)) + 1, uid |-> cur[p].uid]
      BY <3>5 DEF Record
    <3> QED
      BY <2>5, <3>1, <3>4, <3>5, <3>6 DEF Promise!Next, Promise!AppendEntry
  <2> QED
    BY <2>3, <2>4, <2>5
<1> QED
  BY <1>1, <1>2

\* The file implements AppendOnlyLog: "the log is append-only" holds for its
\* readers until a write is torn.
THEOREM ImplementsHolds == LogSpec => ImplementsAppendOnlyLog
<1>1. LogInit => Promise!Init
  <2>1. SUFFICES ASSUME LogInit PROVE Promise!Init
    OBVIOUS
  <2>2. Lines(file) /\ Cut(file, 0)
    BY <2>1 DEF LogInit, Lines, Cut
  <2>3. Readable(file) \in Seq(Record) /\ Len(Readable(file)) = 0
    BY <2>2, CutIsReadable
  <2>4. Readable(file) = <<>>
    BY <2>3
  <2> QED
    BY <2>1, <2>4 DEF LogInit, Promise!Init
<1> QED
  BY <1>1, InitHolds, StepHolds, StepImplements, PTL DEF LogSpec, ImplementsAppendOnlyLog, Promise!Spec

=============================================================================
