---------------------------- MODULE ChunksProofs ----------------------------
(***************************************************************************)
(* That the splitter of Markdown returns the sections as they are written, *)
(* for bodies of any length.                                               *)
(*                                                                         *)
(* The loop is compared with a definition that does not know it, so the    *)
(* invariant says what every variable of the loop stands for: inFence is   *)
(* the parity of the fences read, heading the last start of a section read,*)
(* section the lines since, and chunks the sections before.  What makes    *)
(* the comparison go through is that an unflushed section is never lost:   *)
(* there is nothing to flush only before the first line of the body.       *)
(***************************************************************************)
EXTENDS Chunks, FiniteSetTheorems, WellFoundedInduction, TLAPS

-----------------------------------------------------------------------------
(* The invariant.                                                          *)

\* The lines after h, up to and including last.
Text(h, last) == [i \in 1 .. last - h |-> h + i]

\* Where the sections of the body start; 0 is the text before any heading.
Starts == Headings \cup (IF 1 \in Headings THEN {} ELSE {0})

\* The chunk stands for the section between its heading and the line next.
Written(chunk, ordinal, next) ==
    /\ chunk.ordinal = ordinal
    /\ chunk.heading < next
    /\ chunk.body = TrimSpace(Text(chunk.heading, next - 1))

\* The chunks cs stand for consecutive sections, the last of which ends before end.
Laid(cs, end) ==
    \A k \in DOMAIN cs :
        Written(cs[k], k - 1, IF k < Len(cs) THEN cs[k + 1].heading ELSE end)

\* The headings of the chunks cs.
HeadingsOf(cs) == {cs[k].heading : k \in DOMAIN cs}

TypeOK ==
    /\ lines \in Bodies
    /\ read \in 0 .. Len(lines)
    /\ heading \in 0 .. read
    /\ inFence \in BOOLEAN
    /\ chunks \in Seq([ordinal : Nat, heading : Nat, body : Seq(Nat)])
    /\ done \in BOOLEAN

\* The loop is in code when it has read an odd number of fences.
FenceIsParity == inFence <=> InCode(read + 1)

\* The current section is all that was read since its heading ...
SectionIsRest == section = Text(heading, read)

\* ... which is the last start of a section that was read.
HeadingIsLast ==
    /\ read # 0 => heading \in Starts
    /\ \A h \in Starts : h <= read => h <= heading

\* The chunks are the sections before the current one.
ChunksAreEarlier ==
    /\ HeadingsOf(chunks) = {h \in Starts : h < heading}
    /\ Laid(chunks, heading)

\* The state of the loop.
LoopInv == FenceIsParity /\ SectionIsRest /\ HeadingIsLast /\ ChunksAreEarlier

IInv == TypeOK /\ (~done => LoopInv) /\ SectionsAsWritten
-----------------------------------------------------------------------------
(* What TrimSpace keeps.                                                   *)

\* A set of naturals has a least element.
LEMMA Least ==
    ASSUME NEW S \in SUBSET Nat, S # {}
    PROVE  \E x \in S : \A y \in S : x =< y
<1> DEFINE R == {ss \in Nat \X Nat : ss[1] < ss[2]}
<1>1. IsWellFoundedOn(R, Nat)
    BY NatLessThanWellFounded, Zenon DEF OpToRel
<1>2. PICK x \in S : \A y \in S : ~ (<<y, x>> \in R)
  <2> HIDE DEF R
  <2> QED BY <1>1, WFMin, Zenon
<1>3. \A y \in S : x =< y
  <2> SUFFICES ASSUME NEW y \in S PROVE x =< y
    OBVIOUS
  <2>1. x \in Nat /\ y \in Nat
    OBVIOUS
  <2>2. <<y, x>> \in R <=> y < x
    BY <2>1, SMT
  <2>3. ~ (<<y, x>> \in R)
    BY <1>2, Zenon
  <2> HIDE DEF R
  <2> QED BY <2>1, <2>2, <2>3, SMT
<1> QED BY <1>3

\* A bounded set of positions that is not empty has a greatest element.
LEMMA Greatest ==
    ASSUME NEW n \in Nat, NEW S \in SUBSET (1 .. n), S # {}
    PROVE  \E x \in S : \A y \in S : x >= y
<1> DEFINE T == {k \in Nat : \A y \in S : y <= k}
<1>1. T \in SUBSET Nat /\ n \in T
    BY SMT
<1>2. PICK k \in T : \A m \in T : k <= m
  <2> HIDE DEF T
  <2> QED BY <1>1, Least, Zenon
<1>3. k \in S
  <2> SUFFICES ASSUME k \notin S PROVE FALSE
    OBVIOUS
  <2>1. PICK y : y \in S
    OBVIOUS
  <2>2. y \in Nat /\ y >= 1 /\ y <= k
    BY <2>1, SMT
  <2>3. k - 1 \in T
    BY <2>2, SMT
  <2> QED BY <1>2, <2>3, SMT
<1>4. \A y \in S : k >= y
    BY SMT
<1> QED BY <1>3, <1>4, Zenon

\* TrimSpace returns lines, and it loses none that is not blank.
LEMMA TrimSpaceKeeps ==
    ASSUME NEW s \in Seq(Nat)
    PROVE  /\ TrimSpace(s) \in Seq(Nat)
           /\ \A i \in DOMAIN s : ~IsBlank(s[i]) => TrimSpace(s) # <<>>
<1> DEFINE kept == {i \in DOMAIN s : ~IsBlank(s[i])}
<1>1. kept \in SUBSET (1 .. Len(s)) /\ Len(s) \in Nat
    BY SMT
<1>2. CASE kept = {}
    BY <1>2, SMT DEF TrimSpace
<1>3. CASE kept # {}
  <2>1. \E x \in kept : \A y \in kept : x =< y
    <3>1. kept \in SUBSET Nat
      BY <1>1, SMT
    <3> HIDE DEF kept
    <3> QED BY <1>3, <3>1, Least, Zenon
  <2>2. \E x \in kept : \A y \in kept : x >= y
    <3> HIDE DEF kept
    <3> QED BY <1>1, <1>3, Greatest, Zenon
  <2>3. Min(kept) \in kept /\ \A y \in kept : Min(kept) =< y
    <3> HIDE DEF kept
    <3> QED BY <2>1, Zenon DEF Min
  <2>4. Max(kept) \in kept /\ \A y \in kept : Max(kept) >= y
    <3> HIDE DEF kept
    <3> QED BY <2>2, Zenon DEF Max
  <2>5. TrimSpace(s) = SubSeq(s, Min(kept), Max(kept))
    BY <1>3, Zenon DEF TrimSpace
  <2>6. /\ Min(kept) \in 1 .. Len(s) /\ Max(kept) \in 1 .. Len(s)
        /\ Min(kept) =< Max(kept)
    <3> HIDE DEF kept
    <3>1. \A i \in kept : i \in 1 .. Len(s)
      BY <1>1, Zenon
    <3> QED BY <2>3, <2>4, <3>1, Zenon
  <2>7. ASSUME NEW a \in 1 .. Len(s), NEW b \in 1 .. Len(s), a =< b
        PROVE  SubSeq(s, a, b) \in Seq(Nat) /\ SubSeq(s, a, b) # <<>>
    BY <2>7, <1>1, SMT
  <2> HIDE DEF kept
  <2> QED BY <2>5, <2>6, <2>7, Zenon
<1> QED BY <1>2, <1>3
-----------------------------------------------------------------------------
(* The text between two lines, and lists of chunks.                        *)

\* Text is a sequence of lines, empty before anything is read; reading on adds the
\* line.
LEMMA TextGrows ==
    ASSUME NEW h \in Nat, NEW r \in Nat, h <= r
    PROVE  /\ Text(h, r) \in Seq(Nat) /\ Text(r, r) = <<>>
           /\ Len(Text(h, r)) = r - h
           /\ \A i \in 1 .. r - h : Text(h, r)[i] = h + i
           /\ Append(Text(h, r), r + 1) = Text(h, r + 1)
<1>1. Text(h, r) \in Seq(Nat) /\ Len(Text(h, r)) = r - h
    BY SMT DEF Text
<1>2. Text(r, r) = <<>>
    BY SMT DEF Text
<1>3. \A i \in 1 .. r - h : Text(h, r)[i] = h + i
    BY SMT DEF Text
<1>4. Append(Text(h, r), r + 1) = Text(h, r + 1)
    BY <1>1, SMT DEF Text
<1> QED BY <1>1, <1>2, <1>3, <1>4

\* The last chunk of a list ends where the next starts.
LEMMA AppendLays ==
    ASSUME NEW cs \in Seq([ordinal : Nat, heading : Nat, body : Seq(Nat)]),
           NEW end \in Nat, NEW next \in Nat, NEW body \in Seq(Nat),
           Laid(cs, end), end < next, body = TrimSpace(Text(end, next - 1))
    PROVE  LET longer == Append(cs, Chunk(Len(cs), end, body))
           IN  /\ longer \in Seq([ordinal : Nat, heading : Nat, body : Seq(Nat)])
               /\ Laid(longer, next)
               /\ HeadingsOf(longer) = HeadingsOf(cs) \cup {end}
<1> DEFINE c == Chunk(Len(cs), end, body)
           longer == Append(cs, c)
<1>1. c \in [ordinal : Nat, heading : Nat, body : Seq(Nat)] /\ Len(cs) \in Nat
    BY SMT DEF Chunk
<1>2. c.ordinal = Len(cs) /\ c.heading = end /\ c.body = body
    BY DEF Chunk
<1> HIDE DEF c
<1>3. /\ longer \in Seq([ordinal : Nat, heading : Nat, body : Seq(Nat)])
      /\ Len(longer) = Len(cs) + 1
      /\ DOMAIN longer = 1 .. Len(cs) + 1 /\ DOMAIN cs = 1 .. Len(cs)
      /\ longer[Len(cs) + 1] = c
      /\ \A k \in 1 .. Len(cs) : longer[k] = cs[k]
    BY <1>1, SMT
<1> HIDE DEF longer
<1>4. Laid(longer, next)
  <2> SUFFICES ASSUME NEW k \in 1 .. Len(cs) + 1
               PROVE  Written(longer[k], k - 1,
                              IF k < Len(longer) THEN longer[k + 1].heading ELSE next)
    BY <1>3, Zenon DEF Laid
  <2>0. ASSUME k \in 1 .. Len(cs)
        PROVE  Written(cs[k], k - 1, IF k < Len(cs) THEN cs[k + 1].heading ELSE end)
    BY <1>3, <2>0, Zenon DEF Laid
  <2>1. CASE k = Len(cs) + 1
    <3>1. Written(c, Len(cs), next)
      BY <1>2 DEF Written
    <3>2. k - 1 = Len(cs) /\ ~(k < Len(longer)) /\ longer[k] = c
      BY <1>1, <1>3, <2>1, SMT
    <3> QED BY <3>1, <3>2
  <2>2. CASE k = Len(cs) /\ k \in 1 .. Len(cs)
    <3>1. ~(k < Len(cs))
      BY <1>1, <2>2, SMT
    <3>2. longer[k] = cs[k] /\ k < Len(longer) /\ longer[k + 1].heading = end
      BY <1>1, <1>2, <1>3, <2>2, SMT
    <3> QED BY <2>0, <2>2, <3>1, <3>2, Zenon
  <2>3. CASE k < Len(cs)
    <3>0. Len(longer) = Len(cs) + 1 /\ Len(cs) \in Nat
      BY <1>1, <1>3, Zenon
    <3>1. k \in 1 .. Len(cs) /\ k + 1 \in 1 .. Len(cs) /\ k < Len(longer)
      <4> HIDE DEF c, longer
      <4> QED BY <3>0, <2>3, SMT
    <3>2. longer[k] = cs[k] /\ longer[k + 1] = cs[k + 1]
      BY <1>3, <3>1, Zenon
    <3> QED BY <2>0, <2>3, <3>1, <3>2, Zenon
  <2> QED BY <1>1, <2>1, <2>2, <2>3, SMT
<1>5. HeadingsOf(longer) = HeadingsOf(cs) \cup {end}
  <2>1. \A k \in DOMAIN longer : k \in DOMAIN cs \/ k = Len(cs) + 1
    BY <1>1, <1>3, SMT
  <2>2. DOMAIN cs \subseteq DOMAIN longer /\ Len(cs) + 1 \in DOMAIN longer
    BY <1>1, <1>3, SMT
  <2>3. \A k \in DOMAIN cs : longer[k] = cs[k]
    BY <1>3, Zenon
  <2>4. ASSUME NEW k \in DOMAIN longer
        PROVE  longer[k].heading \in HeadingsOf(cs) \cup {end}
    BY <1>2, <1>3, <2>1, <2>3, Zenon DEF HeadingsOf
  <2>5. ASSUME NEW k \in DOMAIN cs PROVE cs[k].heading \in HeadingsOf(longer)
    BY <2>2, <2>3, Zenon DEF HeadingsOf
  <2>6. end \in HeadingsOf(longer)
    BY <1>2, <1>3, <2>2, Zenon DEF HeadingsOf
  <2> QED BY <2>4, <2>5, <2>6, Zenon DEF HeadingsOf
<1> QED BY <1>3, <1>4, <1>5 DEF c, longer
-----------------------------------------------------------------------------
(* The body.                                                               *)

\* A body is a sequence of kinds of lines; a first line that is blank is the whole.
LEMMA BodyType ==
    ASSUME lines \in Bodies
    PROVE  /\ Len(lines) \in Nat /\ Len(lines) >= 1
           /\ DOMAIN lines = 1 .. Len(lines)
           /\ \A n \in DOMAIN lines : lines[n] \in Kinds
           /\ lines[1] = "blank" => Len(lines) = 1
<1>1. CASE lines = <<"blank">>
    BY <1>1, SMT DEF Kinds
<1>2. CASE lines # <<"blank">>
  <2>1. PICK n \in 1 .. MaxLines : lines \in [1 .. n -> Kinds] /\ lines[1] # "blank"
    BY <1>2, Zenon DEF Bodies
  <2>2. n \in Nat /\ n >= 1
    BY LinesAssumption, SMT
  <2>3. Len(lines) = n /\ DOMAIN lines = 1 .. n
    BY <2>1, <2>2, SMT
  <2> QED BY <2>1, <2>2, <2>3, Zenon
<1> QED BY <1>1, <1>2

\* The fences before the line after the next are those before the next, and the
\* next if it is one.
LEMMA FenceParity ==
    ASSUME NEW n \in Nat
    PROVE  InCode(n + 2) <=> (IF lines[n + 1] = "fence" THEN ~InCode(n + 1) ELSE InCode(n + 1))
<1> DEFINE F(k) == {m \in 1 .. k : lines[m] = "fence"}
<1>1. IsFiniteSet(F(n)) /\ Cardinality(F(n)) \in Nat
  <2>1. IsFiniteSet(1 .. n)
    BY FS_Interval, SMT
  <2>2. F(n) \in SUBSET (1 .. n)
    OBVIOUS
  <2> HIDE DEF F
  <2> QED BY <2>1, <2>2, FS_Subset, FS_CardinalityType, Zenon
<1>2. F(n + 1) = IF lines[n + 1] = "fence" THEN F(n) \cup {n + 1} ELSE F(n)
  <2>1. \A m : m \in 1 .. n + 1 <=> (m \in 1 .. n \/ m = n + 1)
    BY SMT
  <2> QED BY <2>1, Zenon
<1>3. n + 1 \notin F(n)
    BY SMT
<1>4. InCode(n + 1) <=> Cardinality(F(n)) % 2 = 1
  <2>1. {m \in 1 .. (n + 1) - 1 : lines[m] = "fence"} = F(n)
    BY SMT
  <2> HIDE DEF F
  <2> QED BY <2>1, SMT DEF InCode
<1>5. InCode(n + 2) <=> Cardinality(F(n + 1)) % 2 = 1
  <2>1. {m \in 1 .. (n + 2) - 1 : lines[m] = "fence"} = F(n + 1)
    BY SMT
  <2> HIDE DEF F
  <2> QED BY <2>1, SMT DEF InCode
<1> HIDE DEF F
<1>6. lines[n + 1] = "fence" => Cardinality(F(n + 1)) = Cardinality(F(n)) + 1
    BY <1>1, <1>2, <1>3, FS_AddElement, Zenon
<1>7. ASSUME NEW c \in Nat PROVE (c + 1) % 2 = 1 <=> ~(c % 2 = 1)
    BY SMT
<1>8. CASE lines[n + 1] = "fence"
    BY <1>1, <1>4, <1>5, <1>6, <1>7, <1>8, Zenon
<1>9. CASE lines[n + 1] # "fence"
    BY <1>2, <1>4, <1>5, <1>9, Zenon
<1> QED BY <1>8, <1>9
-----------------------------------------------------------------------------
(* The steps.                                                              *)

\* The loop starts before the first line, outside code, with nothing collected.
LEMMA InitInv == Init => IInv
<1> SUFFICES ASSUME Init PROVE IInv
    OBVIOUS
<1> USE DEF Init
<1>1. Len(lines) \in Nat /\ Len(lines) >= 1
    BY BodyType, Zenon
<1>2. TypeOK
  <2>1. \A S : <<>> \in Seq(S)
    BY SMT
  <2>2. chunks \in Seq([ordinal : Nat, heading : Nat, body : Seq(Nat)])
    BY <2>1, Zenon
  <2>3. read \in 0 .. Len(lines) /\ heading \in 0 .. read
    BY <1>1, SMT
  <2> QED BY <2>2, <2>3, Zenon DEF TypeOK
<1>3. FenceIsParity
  <2>1. {m \in 1 .. (read + 1) - 1 : lines[m] = "fence"} = {}
    BY SMT
  <2>2. ~InCode(read + 1)
    BY <2>1, FS_EmptySet, SMT DEF InCode
  <2> QED BY <2>2, Zenon DEF FenceIsParity
<1>4. SectionIsRest
    BY TextGrows, SMT DEF SectionIsRest
<1>5. HeadingIsLast
    BY <1>1, SMT DEF HeadingIsLast
<1>6. ChunksAreEarlier
  <2>1. \A h \in Starts : h >= 0
    BY <1>1, BodyType, SMT DEF Starts, Headings
  <2>2. DOMAIN chunks = {}
    BY SMT
  <2>3. HeadingsOf(chunks) = {} /\ Laid(chunks, heading)
    BY <2>2, Zenon DEF HeadingsOf, Laid
  <2>4. \A h \in Starts : ~(h < heading)
    BY <2>1, BodyType, SMT DEF Starts, Headings
  <2> QED BY <2>3, <2>4, Zenon DEF ChunksAreEarlier
<1> QED BY <1>2, <1>3, <1>4, <1>5, <1>6, Zenon DEF IInv, LoopInv, SectionsAsWritten

\* What is said of the body alone stays true, because nothing changes it.
LEMMA BodyStays ==
    ASSUME lines' = lines
    PROVE  /\ Starts' = Starts
           /\ \A n : InCode(n)' <=> InCode(n)
           /\ Laid(chunks', heading') => Laid(chunks, heading)'
<1>1. \A n : InCode(n)' <=> InCode(n)
    BY DEF InCode
<1>2. Starts' = Starts
    BY DEF Starts, Headings, InCode
<1>3. Laid(chunks', heading') => Laid(chunks, heading)'
    BY DEF Laid, Written, TrimSpace, IsBlank, Text
<1> QED BY <1>1, <1>2, <1>3

\* The types, in terms of the next state.
LEMMA TypeStays ==
    ASSUME TypeOK, lines' = lines,
           read' \in 0 .. Len(lines), heading' \in 0 .. read',
           inFence' \in BOOLEAN, done' \in BOOLEAN,
           chunks' \in Seq([ordinal : Nat, heading : Nat, body : Seq(Nat)])
    PROVE  TypeOK'
BY Zenon DEF TypeOK

\* A line that starts no section, and is kept, is added to the current one.
LEMMA KeptLine ==
    ASSUME TypeOK, LoopInv, Reading(Kinds), Keep, read' = Line, Line \notin Headings,
           UNCHANGED <<lines, heading, chunks, done>>,
           inFence' = IF lines[Line] = "fence" THEN ~inFence ELSE inFence
    PROVE  IInv'
<1>1. /\ lines \in Bodies /\ read \in Nat /\ Line \in DOMAIN lines /\ ~done
      /\ Line \in Nat /\ heading \in Nat /\ heading <= read /\ heading <= Line
    BY BodyType, SMT DEF TypeOK, Reading, Line
<1>2. TypeOK'
  <2>1. read' \in 0 .. Len(lines) /\ heading \in 0 .. read'
    BY <1>1, BodyType, SMT
  <2>2. inFence' \in BOOLEAN
    BY Zenon DEF TypeOK
  <2> QED BY <2>1, <2>2, SMT DEF TypeOK
<1>3. FenceIsParity'
  <2>1. inFence <=> InCode(read + 1)
    BY Zenon DEF LoopInv, FenceIsParity
  <2>2. InCode(read + 2) <=> (IF lines[Line] = "fence" THEN ~InCode(Line) ELSE InCode(Line))
    BY <1>1, FenceParity, Zenon DEF Line
  <2>3. inFence' <=> InCode(read + 2)
    <3>1. inFence <=> InCode(Line)
      BY <2>1, Zenon DEF Line
    <3> QED BY <2>2, <3>1, Zenon
  <2>4. read' + 1 = read + 2
    BY <1>1, SMT DEF Line
  <2>5. InCode(read' + 1) <=> InCode(read + 2)
    BY <2>4, SMT
  <2>6. InCode(read + 1)' <=> InCode(read' + 1)
    BY DEF InCode
  <2> QED BY <2>3, <2>5, <2>6, Zenon DEF FenceIsParity
<1>4. SectionIsRest'
  <2>1. Append(Text(heading, read), read + 1) = Text(heading, read + 1)
    BY <1>1, TextGrows, Zenon
  <2>2. section' = Text(heading, read')
    BY <2>1, Zenon DEF Keep, Line, LoopInv, SectionIsRest
  <2>3. Text(heading, read') = Text(heading, read)'
    BY DEF Text
  <2> QED BY <2>2, <2>3, Zenon DEF SectionIsRest
<1>5. HeadingIsLast'
  <2>1. read # 0 => heading \in Starts
    BY Zenon DEF LoopInv, HeadingIsLast
  <2>2. read = 0 => heading = 0 /\ 1 \notin Headings
    BY <1>1, SMT DEF Line
  <2>3. heading \in Starts
    BY <2>1, <2>2, Zenon DEF Starts
  <2>4. ASSUME NEW h \in Starts, h <= read'
        PROVE  h <= heading
    <3>1. h \in Nat
      BY <1>1, BodyType, SMT DEF Starts, Headings
    <3>2. h = Line => h = 0
      BY Zenon DEF Starts
    <3>3. h <= read
      BY <1>1, <2>4, <3>1, <3>2, SMT DEF Line
    <3> QED BY <3>3, Zenon DEF LoopInv, HeadingIsLast
  <2>5. Starts' = Starts
    BY BodyStays, Zenon
  <2> QED BY <2>3, <2>4, <2>5, Zenon DEF HeadingIsLast
<1>6. ChunksAreEarlier'
  <2>1. HeadingsOf(chunks) = {h \in Starts : h < heading} /\ Laid(chunks, heading)
    BY Zenon DEF LoopInv, ChunksAreEarlier
  <2>2. Starts' = Starts /\ Laid(chunks, heading)'
    BY <2>1, BodyStays, SMT
  <2> QED BY <2>1, <2>2, SMT DEF ChunksAreEarlier, HeadingsOf
<1> QED BY <1>1, <1>2, <1>3, <1>4, <1>5, <1>6, SMT DEF IInv, LoopInv, SectionsAsWritten

\* Only at the start is there nothing to flush, and in the empty body.
LEMMA NothingToFlushYet ==
    ASSUME TypeOK, LoopInv, NothingToFlush(TrimSpace(section)), read # 0
    PROVE  Len(lines) = 1
<1>1. lines \in Bodies /\ read \in Nat /\ read >= 1 /\ heading = 0
    BY BodyType, SMT DEF TypeOK, NothingToFlush
<1>2. section = Text(0, read) /\ TrimSpace(section) = <<>>
    BY <1>1, Zenon DEF LoopInv, SectionIsRest, NothingToFlush
<1>3. section \in Seq(Nat) /\ 1 \in DOMAIN section /\ section[1] = 1
  <2>1. /\ Text(0, read) \in Seq(Nat) /\ Len(Text(0, read)) = read - 0
        /\ \A i \in 1 .. read - 0 : Text(0, read)[i] = 0 + i
    BY <1>1, TextGrows, SMT
  <2>2. 1 \in 1 .. read - 0 /\ 0 + 1 = 1
    BY <1>1, SMT
  <2>3. DOMAIN Text(0, read) = 1 .. Len(Text(0, read))
    BY <2>1, SMT
  <2> QED BY <1>2, <2>1, <2>2, <2>3, Zenon
<1>4. IsBlank(1)
    BY <1>2, <1>3, TrimSpaceKeeps, Zenon
<1> QED BY <1>1, <1>4, BodyType, Zenon DEF IsBlank

\* What a flush adds is the current section, when it ends before the line next.
LEMMA FlushLays ==
    ASSUME TypeOK, LoopInv, NEW next \in Nat, next = read + 1
    PROVE  LET longer == Append(chunks, Chunk(Len(chunks), heading, TrimSpace(section)))
           IN  /\ longer \in Seq([ordinal : Nat, heading : Nat, body : Seq(Nat)])
               /\ Laid(longer, next)
               /\ HeadingsOf(longer) = {h \in Starts : h < heading} \cup {heading}
<1>1. read \in Nat /\ heading \in Nat /\ heading <= read
    BY BodyType, SMT DEF TypeOK
<1>2. section = Text(heading, next - 1)
  <2>1. next - 1 = read
    BY <1>1, SMT
  <2> QED BY <2>1, Zenon DEF LoopInv, SectionIsRest
<1>3. TrimSpace(section) \in Seq(Nat)
  <2>1. Text(heading, read) \in Seq(Nat)
    BY <1>1, TextGrows, Zenon
  <2> QED BY <2>1, TrimSpaceKeeps, Zenon DEF LoopInv, SectionIsRest
<1>4. heading < next
    BY <1>1, SMT
<1>5. chunks \in Seq([ordinal : Nat, heading : Nat, body : Seq(Nat)])
    BY Zenon DEF TypeOK
<1>6. HeadingsOf(chunks) = {h \in Starts : h < heading} /\ Laid(chunks, heading)
    BY Zenon DEF LoopInv, ChunksAreEarlier
<1>7. TrimSpace(section) = TrimSpace(Text(heading, next - 1))
    BY <1>2, Zenon
<1> HIDE DEF Laid, HeadingsOf
<1>8. LET longer == Append(chunks, Chunk(Len(chunks), heading, TrimSpace(section)))
      IN  /\ longer \in Seq([ordinal : Nat, heading : Nat, body : Seq(Nat)])
          /\ Laid(longer, next)
          /\ HeadingsOf(longer) = HeadingsOf(chunks) \cup {heading}
    BY <1>1, <1>3, <1>4, <1>5, <1>6, <1>7, AppendLays
<1> QED BY <1>6, <1>8, Zenon

\* A heading outside code ends the current section and starts the next.
LEMMA ReadHeadingInv ==
    ASSUME IInv, ReadHeading
    PROVE  IInv'
<1>1. /\ TypeOK /\ LoopInv /\ lines \in Bodies /\ lines' = lines /\ ~done /\ done' = FALSE
      /\ read' = Line /\ heading' = Line /\ inFence' = FALSE /\ ~inFence
      /\ lines[Line] = "heading" /\ Line \in DOMAIN lines /\ Flush
    BY SMT DEF IInv, TypeOK, ReadHeading, Reading, StartsChunk
<1>2. read \in Nat /\ Line = read + 1 /\ Line \in Nat /\ heading \in Nat /\ heading <= read
    BY <1>1, BodyType, SMT DEF TypeOK, Line
<1>3. Line \in Headings
  <2>1. ~InCode(Line)
    BY <1>1, Zenon DEF LoopInv, FenceIsParity, Line
  <2> QED BY <1>1, <2>1, Zenon DEF Headings
<1>4. /\ chunks' \in Seq([ordinal : Nat, heading : Nat, body : Seq(Nat)])
      /\ Laid(chunks', Line)
      /\ HeadingsOf(chunks') = {h \in Starts : h < Line}
      /\ section' = <<>>
  <2>1. CASE NothingToFlush(TrimSpace(section))
    <3>1. heading = 0 /\ chunks' = chunks /\ section' = section
      BY <1>1, <2>1, Zenon DEF Flush, NothingToFlush
    <3>2. read = 0
      BY <1>1, <1>2, <2>1, NothingToFlushYet, BodyType, SMT
    <3>3. section = <<>>
      BY <1>1, <3>1, <3>2, TextGrows, SMT DEF LoopInv, SectionIsRest
    <3>4. \A h \in Starts : ~(h < Line) /\ ~(h < 0)
      <4>1. 1 \in Headings
        BY <1>2, <1>3, <3>2, SMT
      <4>2. Starts = Headings
        BY <4>1, Zenon DEF Starts
      <4> QED BY <1>1, <1>2, <3>2, <4>2, BodyType, SMT DEF Headings
    <3>5. HeadingsOf(chunks) = {}
      BY <1>1, <3>1, <3>4, Zenon DEF LoopInv, ChunksAreEarlier
    <3>6. DOMAIN chunks = {}
      BY <3>5, Zenon DEF HeadingsOf
    <3>7. Laid(chunks, Line)
      BY <3>6, Zenon DEF Laid
    <3> QED BY <1>1, <3>1, <3>3, <3>4, <3>5, <3>7, Zenon DEF TypeOK
  <2>2. CASE ~NothingToFlush(TrimSpace(section))
    <3>1. /\ chunks' \in Seq([ordinal : Nat, heading : Nat, body : Seq(Nat)])
          /\ Laid(chunks', Line)
          /\ HeadingsOf(chunks') = {h \in Starts : h < heading} \cup {heading}
          /\ section' = <<>>
      <4>1. /\ chunks' = Append(chunks, Chunk(Len(chunks), heading, TrimSpace(section)))
            /\ section' = <<>>
        BY <1>1, <2>2, Zenon DEF Flush
      <4> QED BY <1>1, <1>2, <4>1, FlushLays, Zenon
    <3>2. heading \in Starts
      <4>1. CASE read # 0
        BY <1>1, <4>1, Zenon DEF LoopInv, HeadingIsLast
      <4>2. CASE read = 0
        <5>1. heading = 0 /\ section = <<>>
          BY <1>1, <1>2, <4>2, TextGrows, SMT DEF LoopInv, SectionIsRest
        <5>2. TrimSpace(<<>>) = <<>>
          BY SMT DEF TrimSpace
        <5> QED BY <2>2, <5>1, <5>2, Zenon DEF NothingToFlush
      <4> QED BY <4>1, <4>2
    <3>3. ASSUME NEW h \in Starts
          PROVE  h < Line <=> h < heading \/ h = heading
      <4>1. h \in Nat
        BY <1>1, BodyType, SMT DEF Starts, Headings
      <4>2. h <= read => h <= heading
        BY <1>1, Zenon DEF LoopInv, HeadingIsLast
      <4> QED BY <1>2, <4>1, <4>2, SMT
    <3> QED BY <3>1, <3>2, <3>3, Zenon
  <2> QED BY <2>1, <2>2
<1>5. TypeOK'
  <2>1. read' \in 0 .. Len(lines) /\ heading' \in 0 .. read'
    BY <1>1, <1>2, BodyType, SMT
  <2> QED BY <1>1, <1>4, <2>1, TypeStays, Zenon
<1>6. FenceIsParity'
  <2>1. ~InCode(read + 1)
    BY <1>1, Zenon DEF LoopInv, FenceIsParity
  <2>2. lines[read + 1] # "fence"
    BY <1>1, <1>2, SMT
  <2>3. ~InCode(read + 2)
    BY <1>2, <2>1, <2>2, FenceParity, Zenon
  <2>4. read' + 1 = read + 2
    BY <1>1, <1>2, SMT
  <2>5. InCode(read' + 1) <=> InCode(read + 2)
    BY <2>4, SMT
  <2>6. InCode(read + 1)' <=> InCode(read' + 1)
    BY <1>1 DEF InCode
  <2> QED BY <1>1, <2>3, <2>5, <2>6, Zenon DEF FenceIsParity
<1>7. SectionIsRest'
  <2>1. Text(Line, Line) = <<>>
    BY <1>2, TextGrows, SMT
  <2>2. Text(heading, read)' = Text(heading', read')
    BY DEF Text
  <2> QED BY <1>1, <1>4, <2>1, <2>2, Zenon DEF SectionIsRest
<1>8. Starts' = Starts /\ Line \in Starts
    BY <1>1, <1>3, BodyStays, Zenon DEF Starts
<1>9. HeadingIsLast'
    BY <1>1, <1>8, Zenon DEF HeadingIsLast
<1>10. ChunksAreEarlier'
  <2>1. Laid(chunks, heading)'
    BY <1>1, <1>4, BodyStays, Zenon
  <2>2. HeadingsOf(chunks)' = HeadingsOf(chunks')
    BY DEF HeadingsOf
  <2> QED BY <1>1, <1>4, <1>8, <2>1, <2>2, SMT DEF ChunksAreEarlier
<1> QED BY <1>1, <1>5, <1>6, <1>7, <1>9, <1>10, Zenon DEF IInv, LoopInv, SectionsAsWritten

\* A sequence without positions is empty.
LEMMA EmptySeq ==
    ASSUME NEW S, NEW cs \in Seq(S), DOMAIN cs = {}
    PROVE  cs = <<>>
BY SMT

\* Chunks laid up to the end of the body, with all the starts, are the sections.
LEMMA SectionsOfLaid ==
    ASSUME lines' = lines, Len(lines) \in Nat, read = Len(lines),
           chunks' \in Seq([ordinal : Nat, heading : Nat, body : Seq(Nat)]),
           Laid(chunks', read + 1), HeadingsOf(chunks') = Starts
    PROVE  SectionsAsWritten'
<1>1. {chunks'[k].heading : k \in DOMAIN chunks'}
          = Headings \cup (IF 1 \in Headings THEN {} ELSE {0})
    BY Zenon DEF HeadingsOf, Starts
<1>2. ASSUME NEW k \in DOMAIN chunks'
      PROVE  LET next == IF k < Len(chunks') THEN chunks'[k + 1].heading ELSE Len(lines) + 1
             IN  /\ chunks'[k].ordinal = k - 1
                 /\ chunks'[k].heading < next
                 /\ chunks'[k].body =
                       TrimSpace([i \in 1 .. next - chunks'[k].heading - 1 |->
                                     chunks'[k].heading + i])
  <2> DEFINE next == IF k < Len(chunks') THEN chunks'[k + 1].heading ELSE Len(lines) + 1
             h == chunks'[k].heading
  <2>1. Written(chunks'[k], k - 1, next)
    BY Zenon DEF Laid
  <2>2. h \in Nat /\ next \in Nat
    <3>1. \A j \in DOMAIN chunks' : chunks'[j].heading \in Nat
      <4>1. ASSUME NEW S, NEW s \in Seq(S) PROVE \A j \in DOMAIN s : s[j] \in S
        BY SMT
      <4>2. \A c \in [ordinal : Nat, heading : Nat, body : Seq(Nat)] : c.heading \in Nat
        OBVIOUS
      <4> QED BY <4>1, <4>2, Zenon
    <3>2. k < Len(chunks') => k + 1 \in DOMAIN chunks'
      BY SMT
    <3> QED BY <3>1, <3>2, SMT
  <2>3. Text(h, next - 1) = [i \in 1 .. next - h - 1 |-> h + i]
    <3> HIDE DEF h, next
    <3>1. next - 1 - h = next - h - 1
      BY <2>2, SMT
    <3> QED BY <3>1, Zenon DEF Text
  <2> QED BY <2>1, <2>3, Zenon DEF Written
<1>3. ({chunks[k].heading : k \in DOMAIN chunks}
          = Headings \cup (IF 1 \in Headings THEN {} ELSE {0}))'
  <2>1. Headings' = Headings
    BY DEF Headings, InCode
  <2> QED BY <1>1, <2>1
<1>4. (\A k \in DOMAIN chunks :
          LET next == IF k < Len(chunks) THEN chunks[k + 1].heading ELSE Len(lines) + 1
          IN  /\ chunks[k].ordinal = k - 1
              /\ chunks[k].heading < next
              /\ chunks[k].body =
                    TrimSpace([i \in 1 .. next - chunks[k].heading - 1 |->
                                  chunks[k].heading + i]))'
    BY <1>2 DEF TrimSpace, IsBlank
<1> QED BY <1>3, <1>4, Zenon DEF SectionsAsWritten

\* The last section ends with the body, and a body without sections is one chunk.
LEMMA FinishInv ==
    ASSUME IInv, Finish
    PROVE  IInv'
<1>1. /\ TypeOK /\ LoopInv /\ lines \in Bodies /\ read = Len(lines)
      /\ lines' = lines /\ read' = read /\ heading' = heading /\ inFence' = inFence
      /\ done' = TRUE
    BY Zenon DEF IInv, TypeOK, Finish
<1>2. read \in Nat /\ read # 0 /\ heading \in Nat /\ heading <= read /\ read + 1 \in Nat
    BY <1>1, BodyType, SMT DEF TypeOK
<1>3. \A h \in Starts : h \in Nat /\ h <= heading
  <2>1. \A h \in Starts : h \in Nat /\ h <= read
    BY <1>1, <1>2, BodyType, SMT DEF Starts, Headings
  <2> QED BY <1>1, <2>1, Zenon DEF LoopInv, HeadingIsLast
<1>4. heading \in Starts
    BY <1>1, <1>2, Zenon DEF LoopInv, HeadingIsLast
<1> DEFINE longer == Append(chunks, Chunk(Len(chunks), heading, TrimSpace(section)))
<1>5. chunks' = longer
  <2>1. CASE NothingToFlush(TrimSpace(section))
    <3>1. heading = 0 /\ TrimSpace(section) = <<>>
      BY <2>1, Zenon DEF NothingToFlush
    <3>2. \A h \in Starts : ~(h < heading)
      BY <1>3, <3>1, SMT
    <3>3. HeadingsOf(chunks) = {}
      BY <1>1, <3>2, Zenon DEF LoopInv, ChunksAreEarlier
    <3>4. DOMAIN chunks = {}
      BY <3>3, Zenon DEF HeadingsOf
    <3>5. chunks = <<>>
      <4>1. chunks \in Seq([ordinal : Nat, heading : Nat, body : Seq(Nat)])
        BY <1>1, Zenon DEF TypeOK
      <4> QED BY <3>4, <4>1, EmptySeq
    <3>6. chunks' = <<Chunk(0, 0, <<>>)>>
      BY <2>1, <3>5, Zenon DEF Finish
    <3>7. \A c : Append(<<>>, c) = <<c>> /\ Len(<<>>) = 0
      BY SMT
    <3> QED BY <3>1, <3>5, <3>6, <3>7, Zenon
  <2>2. CASE ~NothingToFlush(TrimSpace(section))
    BY <2>2, Zenon DEF Finish, Flush
  <2> QED BY <2>1, <2>2
<1>6. /\ chunks' \in Seq([ordinal : Nat, heading : Nat, body : Seq(Nat)])
      /\ Laid(chunks', read + 1)
      /\ HeadingsOf(chunks') = {h \in Starts : h < heading} \cup {heading}
    BY <1>1, <1>2, <1>5, FlushLays, Zenon
<1>7. TypeOK'
  <2>1. read' \in 0 .. Len(lines) /\ heading' \in 0 .. read' /\ inFence' \in BOOLEAN
    BY <1>1, Zenon DEF TypeOK
  <2> QED BY <1>1, <1>6, <2>1, TypeStays, Zenon
<1>8. HeadingsOf(chunks') = Starts
  <2>1. \A h \in Starts : h < heading \/ h = heading
    BY <1>2, <1>3, SMT
  <2> QED BY <1>4, <1>6, <2>1, Zenon
<1>9. SectionsAsWritten'
  <2>1. Len(lines) \in Nat
    BY <1>1, BodyType, Zenon
  <2> QED BY <1>1, <1>6, <1>8, <2>1, SectionsOfLaid, Zenon
<1> QED BY <1>1, <1>7, <1>9, Zenon DEF IInv

\* Every step of the loop keeps the invariant.
LEMMA NextInv ==
    ASSUME IInv, [Next]_vars
    PROVE  IInv'
<1>1. CASE ReadFence
  <2>1. /\ TypeOK /\ LoopInv /\ Reading(Kinds) /\ Keep /\ read' = Line
        /\ UNCHANGED <<lines, heading, chunks, done>>
        /\ lines[Line] = "fence" /\ inFence' = ~inFence
    BY <1>1, SMT DEF IInv, ReadFence, Reading, Kinds
  <2>2. Line \notin Headings
    BY <2>1, SMT DEF Headings
  <2>3. inFence' = IF lines[Line] = "fence" THEN ~inFence ELSE inFence
    BY <2>1, SMT
  <2> QED BY <2>1, <2>2, <2>3, KeptLine, Zenon
<1>2. CASE ReadHeading
    BY <1>2, ReadHeadingInv, Zenon
<1>3. CASE ReadText
  <2>1. /\ TypeOK /\ LoopInv /\ Reading(Kinds) /\ Keep /\ read' = Line
        /\ UNCHANGED <<lines, heading, chunks, done>>
        /\ lines[Line] # "fence" /\ inFence' = inFence
        /\ lines[Line] = "heading" => inFence
    BY <1>3, SMT DEF IInv, ReadText, Reading, Kinds, StartsChunk
  <2>2. Line \notin Headings
    <3>1. inFence <=> InCode(Line)
      BY <2>1, Zenon DEF LoopInv, FenceIsParity, Line
    <3> QED BY <2>1, <3>1, Zenon DEF Headings
  <2>3. inFence' = IF lines[Line] = "fence" THEN ~inFence ELSE inFence
    BY <2>1, SMT
  <2> QED BY <2>1, <2>2, <2>3, KeptLine, Zenon
<1>4. CASE Finish
    BY <1>4, FinishInv, Zenon
<1>5. CASE UNCHANGED vars
  <2> USE <1>5 DEF vars
  <2>1. TypeOK'
    BY DEF IInv, TypeOK
  <2>2. FenceIsParity' <=> FenceIsParity
    BY DEF FenceIsParity, InCode
  <2>3. SectionIsRest' <=> SectionIsRest
    BY DEF SectionIsRest, Text
  <2>4. HeadingIsLast' <=> HeadingIsLast
    BY DEF HeadingIsLast, Starts, Headings, InCode
  <2>5. ChunksAreEarlier => ChunksAreEarlier'
    <3>1. HeadingsOf(chunks)' = HeadingsOf(chunks)
      BY DEF HeadingsOf
    <3>2. Starts' = Starts /\ (Laid(chunks, heading) => Laid(chunks, heading)')
      BY BodyStays
    <3> QED BY <3>1, <3>2 DEF ChunksAreEarlier
  <2>6. SectionsAsWritten' <=> SectionsAsWritten
    BY DEF SectionsAsWritten, Headings, InCode, TrimSpace, IsBlank
  <2>7. done' = done
    OBVIOUS
  <2>8. (~done => LoopInv)'
    BY <2>2, <2>3, <2>4, <2>5, <2>7, SMT DEF IInv, LoopInv
  <2>9. SectionsAsWritten'
    BY <2>6, SMT DEF IInv
  <2> QED BY <2>1, <2>8, <2>9, Zenon DEF IInv
<1> QED BY <1>1, <1>2, <1>3, <1>4, <1>5 DEF Next
-----------------------------------------------------------------------------
(* The theorems.                                                           *)

\* The invariant holds of the splitter.
LEMMA Inductive == Spec => []IInv
<1>1. Init => IInv
    BY InitInv
<1>2. IInv /\ [Next]_vars => IInv'
    BY NextInv
<1> QED BY <1>1, <1>2, PTL DEF Spec

\* SplitMarkdown never leaves its types: it reads no line past the end of the body,
\* and the current heading is a line it has read.
THEOREM TypeCorrect == Spec => []TypeOK
<1>1. IInv => TypeOK
    BY DEF IInv
<1> QED BY <1>1, Inductive, PTL

\* SplitMarkdown returns, for a body of any length, a chunk for each heading outside
\* code and one for what precedes the first, with exactly the lines between them.
THEOREM SplitsAsWritten == Spec => []SectionsAsWritten
<1>1. IInv => SectionsAsWritten
    BY DEF IInv
<1> QED BY <1>1, Inductive, PTL
=============================================================================
