--------------------------- MODULE RouteLogProofs ---------------------------
(***************************************************************************)
(* The file and the ring of the routing log for any number of calls, any   *)
(* cap and any faults.                                                     *)
(*                                                                         *)
(* The argument: what a call learns of the file from its metadata is still *)
(* true when it renames, opens and writes, if no other append ran since    *)
(* it began (SeesFile); whoever else appends marks both as overlapped.     *)
(* So a rotation sets aside a file of Cap lines and takes only what was    *)
(* set aside before: the two files are one log that forgets from its       *)
(* beginning (LogRefines), and it never gets shorter than the ring, which  *)
(* is its end.  Readers change nothing; a page cut by time is a page of    *)
(* the newest lines, because what is written next is never older.          *)
(***************************************************************************)
EXTENDS LogPages, SubsequenceProofs

Contents == Seq(Calls \cup {Torn, Cut, Bad, Ruin})

\* All lines but the last.
LEMMA FrontOf ==
    ASSUME NEW s \in Contents, Len(s) > 0
    PROVE  /\ Front(s) \in Contents
           /\ Len(Front(s)) = Len(s) - 1
           /\ \A j \in 1..(Len(s) - 1) : Front(s)[j] = s[j]
<1> DEFINE m == Len(s) - 1
<1>1. m \in Nat /\ \A j \in 1..m : s[j] \in Calls \cup {Torn, Cut, Bad, Ruin}
    BY DEF Contents
<1>2. /\ SubSeq(s, 1, m) \in Contents
      /\ Len(SubSeq(s, 1, m)) = IF 1 <= m THEN m - 1 + 1 ELSE 0
      /\ \A j \in 1..(m - 1 + 1) : SubSeq(s, 1, m)[j] = s[1 + j - 1]
    <2> HIDE DEF m
    <2> QED
        BY <1>1, SubSeqProperties DEF Contents
<1>3. m - 1 + 1 = m /\ \A j \in 1..m : 1 + j - 1 = j
    BY <1>1
<1>4. Front(s) = SubSeq(s, 1, m)
    BY DEF Front
<1> HIDE DEF m
<1>5. Len(Front(s)) = m
    BY <1>1, <1>2, <1>3, <1>4
<1>6. \A j \in 1..m : Front(s)[j] = s[j]
    BY <1>1, <1>2, <1>3, <1>4
<1> QED
    BY <1>2, <1>4, <1>5, <1>6 DEF m

\* A part of a line is replaced by the line that it becomes.
LEMMA ExtendedTorn ==
    ASSUME NEW s \in Contents, NEW l, EndsTorn(s)
    PROVE  /\ Len(s) \in Nat \ {0} /\ s[Len(s)] \in Parts
           /\ Joined(s[Len(s)], l) \in {Torn, Cut, Bad, Ruin}
           /\ Extended(s, l) \in Contents /\ DOMAIN Extended(s, l) = 1..Len(s)
           /\ Extended(s, l)[Len(s)] = Joined(s[Len(s)], l)
           /\ \A j \in 1..(Len(s) - 1) : Extended(s, l)[j] = s[j]
<1> DEFINE m == Joined(s[Len(s)], l)
           t == Front(s)
<1>1. Len(s) \in Nat \ {0} /\ Last(s) = s[Len(s)] /\ s[Len(s)] \in Parts
    BY EmptySeq DEF EndsTorn, Contents, Last
<1>2. m \in {Torn, Cut, Bad, Ruin}
    BY DEF Joined, Parts
<1>3. Extended(s, l) = Append(t, m)
    BY <1>1 DEF Extended
<1>4. t \in Contents /\ Len(t) = Len(s) - 1 /\ \A j \in 1..(Len(s) - 1) : t[j] = s[j]
    BY <1>1, FrontOf
<1> HIDE DEF m, t
<1>5. /\ Append(t, m) \in Contents /\ Len(Append(t, m)) = Len(s) /\ Append(t, m)[Len(s)] = m
      /\ \A j \in 1..(Len(s) - 1) : Append(t, m)[j] = s[j]
    BY <1>1, <1>2, <1>4, AppendProperties DEF Contents
<1> QED
    BY <1>1, <1>2, <1>3, <1>5 DEF Contents, m

\* Behind a whole line the next one is added.
LEMMA ExtendedAdds ==
    ASSUME NEW s \in Contents, NEW l \in Calls \cup Parts, ~EndsTorn(s)
    PROVE  /\ Len(s) \in Nat /\ Extended(s, l) = Append(s, l)
           /\ Extended(s, l) \in Contents /\ DOMAIN Extended(s, l) = 1..(Len(s) + 1)
           /\ Extended(s, l)[Len(s) + 1] = l
           /\ \A j \in 1..Len(s) : Extended(s, l)[j] = s[j]
<1>1. l \in Calls \cup {Torn, Cut, Bad, Ruin} /\ Extended(s, l) = Append(s, l)
    BY DEF Parts, Extended
<1> QED
    BY <1>1, AppendProperties DEF Contents

\* A write to the end of a file, which may complete a torn line.
LEMMA ExtendedType ==
    ASSUME NEW s \in Contents, NEW l \in Calls \cup Parts
    PROVE  Extended(s, l) \in Contents
BY ExtendedTorn, ExtendedAdds

\* It changes no line but a torn one, and adds at most one.
LEMMA ExtendedElements ==
    ASSUME NEW s \in Contents, NEW l \in Calls \cup Parts,
           NEW i \in DOMAIN Extended(s, l)
    PROVE  \/ i \in DOMAIN s /\ Extended(s, l)[i] = s[i]
           \/ Extended(s, l)[i] \in {Torn, Cut, Bad, Ruin}
           \/ i = Len(s) + 1 /\ Extended(s, l)[i] = l
<1>1. DOMAIN s = 1..Len(s)
    BY DEF Contents
<1>2. CASE ~EndsTorn(s)
    <2>1. Len(s) \in Nat /\ i \in 1..(Len(s) + 1)
        BY <1>2, ExtendedAdds
    <2>2. i = Len(s) + 1 \/ i \in 1..Len(s)
        BY <2>1
    <2> QED
        BY <1>1, <1>2, <2>2, ExtendedAdds
<1>3. CASE EndsTorn(s)
    <2>1. Len(s) \in Nat \ {0} /\ i \in 1..Len(s)
        BY <1>3, ExtendedTorn
    <2>2. i = Len(s) \/ i \in 1..(Len(s) - 1)
        BY <2>1
    <2> QED
        BY <1>1, <1>3, <2>1, <2>2, ExtendedTorn
<1> QED
    BY <1>2, <1>3

\* A line that is there stays where it is.
LEMMA ExtendedKeeps ==
    ASSUME NEW s \in Contents, NEW l \in Calls \cup Parts,
           NEW i \in DOMAIN s, s[i] \notin Parts
    PROVE  i \in DOMAIN Extended(s, l) /\ Extended(s, l)[i] = s[i]
<1>1. i \in 1..Len(s)
    BY DEF Contents
<1>2. CASE ~EndsTorn(s)
    BY <1>1, <1>2, ExtendedAdds
<1>3. CASE EndsTorn(s)
    <2>1. Len(s) \in Nat \ {0} /\ i # Len(s)
        BY <1>3, ExtendedTorn
    <2>2. i \in 1..(Len(s) - 1)
        BY <1>1, <2>1
    <2> QED
        BY <1>1, <1>3, <2>2, ExtendedTorn
<1> QED
    BY <1>2, <1>3

\* A whole line reads back, and leaves no torn end, unless the file had one.
LEMMA ExtendedEnd ==
    ASSUME NEW s \in Contents, NEW l \in Calls
    PROVE  /\ ~EndsTorn(Extended(s, l))
           /\ ~EndsTorn(s) => \E i \in DOMAIN Extended(s, l) : Extended(s, l)[i] = l
<1> DEFINE e == Extended(s, l)
<1>1. l \notin Parts
    BY ConstantsAssumption DEF Parts
<1>2. CASE ~EndsTorn(s)
    <2>1. Len(s) \in Nat /\ e \in Contents /\ DOMAIN e = 1..(Len(s) + 1) /\ e[Len(s) + 1] = l
        BY <1>2, ExtendedAdds
    <2> HIDE DEF e
    <2>2. Len(e) = Len(s) + 1
        BY <2>1 DEF Contents
    <2>3. Last(e) = l /\ Len(s) + 1 \in DOMAIN e
        BY <2>1, <2>2 DEF Last
    <2> QED
        BY <1>1, <2>1, <2>3 DEF EndsTorn, e
<1>3. CASE EndsTorn(s)
    <2>1. /\ Len(s) \in Nat \ {0} /\ e \in Contents /\ DOMAIN e = 1..Len(s)
          /\ e[Len(s)] = Joined(s[Len(s)], l)
        BY <1>3, ExtendedTorn
    <2>2. Joined(s[Len(s)], l) \notin Parts
        BY <1>1, ConstantsAssumption DEF Joined, Parts
    <2> HIDE DEF e
    <2>3. Len(e) = Len(s)
        BY <2>1 DEF Contents
    <2>4. Last(e) \notin Parts
        BY <2>1, <2>2, <2>3 DEF Last
    <2> QED
        BY <1>3, <2>4 DEF EndsTorn, e
<1> QED
    BY <1>2, <1>3

\* A file that is not text stays so; one that is text stays so as long as no write
\* ends inside a character, and no longer.
LEMMA ExtendedText ==
    ASSUME NEW s \in Contents, NEW l \in Calls \cup Parts
    PROVE  /\ Text(Extended(s, l)) => Text(s)
           /\ Text(s) /\ l # Cut => Text(Extended(s, l))
           /\ ~Text(Extended(s, Cut))
<1> DEFINE e == Extended(s, l)
           h == Extended(s, Cut)
<1>1. DOMAIN s = 1..Len(s) /\ Cut \in Parts /\ {Cut, Ruin} \cap Calls = {} /\ Torn \notin {Cut, Ruin}
    BY ConstantsAssumption DEF Contents, Parts
<1>2. CASE ~EndsTorn(s)
    <2>1. /\ Len(s) \in Nat /\ DOMAIN e = 1..(Len(s) + 1) /\ e[Len(s) + 1] = l
          /\ \A j \in 1..Len(s) : e[j] = s[j]
        BY <1>2, ExtendedAdds
    <2>2. Len(s) + 1 \in DOMAIN h /\ h[Len(s) + 1] = Cut
        BY <1>1, <1>2, <2>1, ExtendedAdds
    <2> HIDE DEF e, h
    <2>3. 1..Len(s) \subseteq 1..(Len(s) + 1)
          /\ \A j \in 1..(Len(s) + 1) : j \in 1..Len(s) \/ j = Len(s) + 1
        BY <2>1
    <2>4. l # Cut => l \notin {Cut, Ruin}
        BY <1>1, ConstantsAssumption DEF Parts
    <2>5. Text(e) => Text(s)
        BY <1>1, <2>1, <2>3 DEF Text
    <2>6. Text(s) /\ l # Cut => Text(e)
        BY <1>1, <2>1, <2>3, <2>4 DEF Text
    <2> QED
        BY <2>2, <2>5, <2>6 DEF e, h, Text
<1>3. CASE EndsTorn(s)
    <2> DEFINE z == s[Len(s)]
    <2>1. /\ Len(s) \in Nat \ {0} /\ z \in Parts /\ DOMAIN e = 1..Len(s)
          /\ e[Len(s)] = Joined(z, l) /\ \A j \in 1..(Len(s) - 1) : e[j] = s[j]
        BY <1>3, ExtendedTorn
    <2>2. DOMAIN h = 1..Len(s) /\ h[Len(s)] = Joined(z, Cut)
        BY <1>3, ExtendedTorn
    <2> HIDE DEF e, h
    <2>3. Len(s) \in 1..Len(s) /\ \A j \in 1..Len(s) : j \in 1..(Len(s) - 1) \/ j = Len(s)
        BY <2>1
    <2>4. Joined(z, Cut) = Cut /\ (z = Cut => Joined(z, l) \in {Cut, Ruin})
        BY <1>1, <2>1 DEF Joined, Parts
    <2>5. z # Cut /\ l # Cut => Joined(z, l) \notin {Cut, Ruin}
        BY <1>1, <2>1, ConstantsAssumption DEF Joined, Parts
    <2>6. z \in Parts => z = Cut \/ z \notin {Cut, Ruin}
        BY ConstantsAssumption DEF Parts
    <2>7. Text(e) => Text(s)
        BY <1>1, <2>1, <2>3, <2>4, <2>6 DEF Text
    <2>8. Text(s) /\ l # Cut => Text(e)
        BY <1>1, <2>1, <2>3, <2>5 DEF Text
    <2> QED
        BY <2>2, <2>3, <2>4, <2>7, <2>8 DEF e, h, Text
<1> QED
    BY <1>2, <1>3

\* A set that gains at most one element.
LEMMA OneMore ==
    ASSUME NEW S, IsFiniteSet(S), NEW x, NEW T \in SUBSET (S \cup {x})
    PROVE  IsFiniteSet(T) /\ Cardinality(T) <= Cardinality(S) + 1
<1>1. IsFiniteSet(S \cup {x}) /\ Cardinality(S \cup {x}) <= Cardinality(S) + 1
    <2>1. Cardinality(S) \in Nat
        BY FS_CardinalityType
    <2>2. /\ IsFiniteSet(S \cup {x})
          /\ x \in S => Cardinality(S \cup {x}) = Cardinality(S)
          /\ x \notin S => Cardinality(S \cup {x}) = Cardinality(S) + 1
        BY FS_AddElement
    <2> QED
        BY <2>1, <2>2
<1>2. IsFiniteSet(T) /\ Cardinality(T) <= Cardinality(S \cup {x})
    BY <1>1, FS_Subset
<1> QED
    BY <1>1, <1>2, FS_CardinalityType

\* Every step keeps the types.
LEMMA Files ==
    ASSUME FilesOK, [Next]_vars
    PROVE  FilesOK'
<1> USE ConstantsAssumption DEF FilesOK, Places, Contents
<1>1. ASSUME NEW c \in Calls, Stat(c) PROVE FilesOK'
    <2>1. serial' \in BOOLEAN
        BY <1>1 DEF Stat, Starts
    <2>2. overlapped' \in SUBSET Calls
        BY <1>1 DEF Stat, Starts, Appending
    <2> QED
        BY <1>1, <2>1, <2>2 DEF Stat, Moves, files
<1>2. ASSUME NEW c \in Calls, Rename(c) PROVE FilesOK'
    BY <1>2 DEF Rename, Moves
<1>3. ASSUME NEW c \in Calls, Open(c) PROVE FilesOK'
    BY <1>3 DEF Open, Moves
<1>4. ASSUME NEW c \in Calls, Write(c) PROVE FilesOK'
    <2>1. Extended(data[handle[c]], c) \in Seq(Calls \cup {Torn, Cut, Bad, Ruin})
        BY <1>4, ExtendedType DEF Write
    <2> QED
        BY <1>4, <2>1 DEF Write, Moves
<1>5. ASSUME NEW c \in Calls, WriteTears(c) PROVE FilesOK'
    <2>1. \A part \in Parts : Extended(data[handle[c]], part) \in Seq(Calls \cup {Torn, Cut, Bad, Ruin})
        BY <1>5, ExtendedType DEF WriteTears
    <2> QED
        BY <1>5, <2>1, SMTT(30) DEF WriteTears, Moves
<1>6. ASSUME NEW c \in Calls, WriteFails(c) PROVE FilesOK'
    BY <1>6, SMTT(30) DEF WriteFails, Moves, files
<1>7. ASSUME NEW c \in Calls, Push(c) PROVE FilesOK'
    BY <1>7 DEF Push, Moves, files
<1>8. ASSUME NEW c \in Calls, Abandon(c) PROVE FilesOK'
    BY <1>8 DEF Abandon, Moves, files
<1>9. ASSUME Restart PROVE FilesOK'
    BY <1>9 DEF Restart, files
<1>10. ASSUME UNCHANGED vars PROVE FilesOK'
    BY <1>10 DEF vars, files
<1> QED
    BY <1>1, <1>2, <1>3, <1>4, <1>5, <1>6, <1>7, <1>8, <1>9, <1>10 DEF Next, CallStep

\* A name is given once, by a call that leaves "fits" for good.
LEMMA CreatedStep ==
    ASSUME FilesOK, Created, [Next]_vars
    PROVE  Created'
<1> USE ConstantsAssumption DEF FilesOK, Created
<1>1. ASSUME NEW c \in Calls, Stat(c) PROVE Created'
    BY <1>1 DEF Stat, Moves, Starts, files
<1>2. ASSUME NEW c \in Calls, Rename(c) PROVE Created'
    BY <1>2 DEF Rename, Moves
<1>3. ASSUME NEW c \in Calls, Open(c) PROVE Created'
    BY <1>3 DEF Open, Moves
<1>4. ASSUME NEW c \in Calls, Write(c) PROVE Created'
    BY <1>4 DEF Write, Moves
<1>5. ASSUME NEW c \in Calls, WriteTears(c) PROVE Created'
    BY <1>5 DEF WriteTears, Moves
<1>6. ASSUME NEW c \in Calls, WriteFails(c) PROVE Created'
    BY <1>6 DEF WriteFails, Moves, files
<1>7. ASSUME NEW c \in Calls, Push(c) PROVE Created'
    BY <1>7 DEF Push, Moves, files
<1>8. ASSUME NEW c \in Calls, Abandon(c) PROVE Created'
    BY <1>8 DEF Abandon, Moves, files
<1>9. ASSUME Restart PROVE Created'
    BY <1>9 DEF Restart, files
<1>10. ASSUME UNCHANGED vars PROVE Created'
    BY <1>10 DEF vars, files
<1> QED
    BY <1>1, <1>2, <1>3, <1>4, <1>5, <1>6, <1>7, <1>8, <1>9, <1>10 DEF Next, CallStep

\* Whoever begins to append while another does marks both.
LEMMA AloneStep ==
    ASSUME FilesOK, Alone, [Next]_vars
    PROVE  Alone'
<1> USE ConstantsAssumption DEF FilesOK, Alone, Appending
<1>1. ASSUME NEW c \in Calls, Stat(c) PROVE Alone'
    BY <1>1 DEF Stat, Moves, Starts, files
<1>2. ASSUME NEW c \in Calls, Rename(c) PROVE Alone'
    BY <1>2 DEF Rename, Moves
<1>3. ASSUME NEW c \in Calls, Open(c) PROVE Alone'
    BY <1>3 DEF Open, Moves
<1>4. ASSUME NEW c \in Calls, Write(c) PROVE Alone'
    BY <1>4 DEF Write, Moves
<1>5. ASSUME NEW c \in Calls, WriteTears(c) PROVE Alone'
    BY <1>5 DEF WriteTears, Moves
<1>6. ASSUME NEW c \in Calls, WriteFails(c) PROVE Alone'
    BY <1>6 DEF WriteFails, Moves, files
<1>7. ASSUME NEW c \in Calls, Push(c) PROVE Alone'
    BY <1>7 DEF Push, Moves, files
<1>8. ASSUME NEW c \in Calls, Abandon(c) PROVE Alone'
    BY <1>8 DEF Abandon, Moves, files
<1>9. ASSUME Restart PROVE Alone'
    BY <1>9 DEF Restart, files
<1>10. ASSUME UNCHANGED vars PROVE Alone'
    BY <1>10 DEF vars, files
<1> QED
    BY <1>1, <1>2, <1>3, <1>4, <1>5, <1>6, <1>7, <1>8, <1>9, <1>10 DEF Next, CallStep

\* A call that appends alone is right about the file.
LEMMA SeesFileStep ==
    ASSUME FilesOK, Created, Alone, SeesFile, [Next]_vars
    PROVE  SeesFile'
<1> USE ConstantsAssumption DEF FilesOK, Created, Alone, SeesFile, Appending, ContentOf
<1>1. ASSUME NEW c \in Calls, Stat(c) PROVE SeesFile'
    BY <1>1 DEF Stat, Moves, Starts, files
<1>2. ASSUME NEW c \in Calls, Rename(c) PROVE SeesFile'
    BY <1>2 DEF Rename, Moves
<1>3. ASSUME NEW c \in Calls, Open(c) PROVE SeesFile'
    BY <1>3 DEF Open, Moves
<1>4. ASSUME NEW c \in Calls, Write(c) PROVE SeesFile'
    <2>1. SUFFICES ASSUME NEW d \in Appending' \ overlapped' PROVE FALSE
        BY DEF SeesFile
    <2>2. c \in Appending /\ d \in Appending /\ d \notin overlapped /\ d # c
        BY <1>4, <2>1 DEF Write, Moves
    <2> QED
        BY <2>2 DEF Alone
<1>5. ASSUME NEW c \in Calls, WriteTears(c) PROVE SeesFile'
    <2>1. SUFFICES ASSUME NEW d \in Appending' \ overlapped' PROVE FALSE
        BY DEF SeesFile
    <2>2. c \in Appending /\ d \in Appending /\ d \notin overlapped /\ d # c
        BY <1>5, <2>1 DEF WriteTears, Moves
    <2> QED
        BY <2>2 DEF Alone
<1>6. ASSUME NEW c \in Calls, WriteFails(c) PROVE SeesFile'
    BY <1>6 DEF WriteFails, Moves, files
<1>7. ASSUME NEW c \in Calls, Push(c) PROVE SeesFile'
    BY <1>7 DEF Push, Moves, files
<1>8. ASSUME NEW c \in Calls, Abandon(c) PROVE SeesFile'
    BY <1>8 DEF Abandon, Moves, files
<1>9. ASSUME Restart PROVE SeesFile'
    BY <1>9 DEF Restart, files
<1>10. ASSUME UNCHANGED vars PROVE SeesFile'
    BY <1>10 DEF vars, files
<1> QED
    BY <1>1, <1>2, <1>3, <1>4, <1>5, <1>6, <1>7, <1>8, <1>9, <1>10 DEF Next, CallStep

\* So it does not write beyond the cap.
LEMMA ExceedStep ==
    ASSUME FilesOK, SeesFile, OnlyOverlapsExceed, [Next]_vars
    PROVE  OnlyOverlapsExceed'
<1> USE ConstantsAssumption DEF FilesOK, Contents, OnlyOverlapsExceed
<1>1. ASSUME NEW c \in Calls, Stat(c) PROVE OnlyOverlapsExceed'
    BY <1>1 DEF Stat, Moves, Starts, files
<1>2. ASSUME NEW c \in Calls, Rename(c) PROVE OnlyOverlapsExceed'
    BY <1>2 DEF Rename, Moves
<1>3. ASSUME NEW c \in Calls, Open(c) PROVE OnlyOverlapsExceed'
    BY <1>3 DEF Open, Moves
<1>4. ASSUME NEW c \in Calls, Write(c) PROVE OnlyOverlapsExceed'
    <2>1. handle[c] \in Calls /\ data[handle[c]] \in Seq(Calls \cup {Torn, Cut, Bad, Ruin})
        BY <1>4 DEF Write
    <2> SUFFICES ASSUME NEW f \in Calls, NEW d \in Calls, NEW i \in DOMAIN data'[f],
                        data'[f][i] = d, i > Cap
                 PROVE  d \in overlapped
        BY <1>4 DEF Write, OnlyOverlapsExceed
    <2>2. CASE f # handle[c]
        <3>1. data'[f] = data[f]
            BY <1>4, <2>1, <2>2 DEF Write
        <3> QED
            BY <3>1 DEF OnlyOverlapsExceed
    <2>3. CASE f = handle[c]
        <3>1. data'[f] = Extended(data[f], c)
            BY <1>4, <2>1, <2>3 DEF Write
        <3>2. \/ i \in DOMAIN data[f] /\ data[f][i] = d
              \/ i = Len(data[f]) + 1 /\ d = c
            <4>1. data[f] \in Contents /\ c \in Calls \cup Parts /\ i \in DOMAIN Extended(data[f], c)
                BY <2>1, <2>3, <3>1
            <4>2. d \notin {Torn, Cut, Bad, Ruin}
                BY ConstantsAssumption
            <4> HIDE DEF Contents
            <4> QED
                BY <3>1, <4>1, <4>2, ExtendedElements
        <3>3. CASE i \in DOMAIN data[f] /\ data[f][i] = d
            BY <3>3 DEF OnlyOverlapsExceed
        <3>4. CASE i = Len(data[f]) + 1 /\ d = c
            <4>1. c \in Appending
                BY <1>4 DEF Write, Appending
            <4>2. c \notin overlapped => f = current /\ Len(data[f]) < Cap
                BY <1>4, <2>1, <2>3, <4>1 DEF Write, SeesFile, ContentOf
            <4>3. Len(data[f]) \in Nat
                BY <2>1, <2>3
            <4> QED
                BY <3>4, <4>2, <4>3, ConstantsAssumption
        <3> QED
            BY <3>2, <3>3, <3>4
    <2> QED
        BY <2>2, <2>3
<1>5. ASSUME NEW c \in Calls, WriteTears(c) PROVE OnlyOverlapsExceed'
    <2>1. handle[c] \in Calls /\ data[handle[c]] \in Seq(Calls \cup {Torn, Cut, Bad, Ruin})
        BY <1>5 DEF WriteTears
    <2> SUFFICES ASSUME NEW f \in Calls, NEW d \in Calls, NEW i \in DOMAIN data'[f],
                        data'[f][i] = d, i > Cap
                 PROVE  d \in overlapped
        BY <1>5 DEF WriteTears, OnlyOverlapsExceed
    <2>2. CASE f # handle[c]
        <3>1. data'[f] = data[f]
            BY <1>5, <2>1, <2>2 DEF WriteTears
        <3> QED
            BY <3>1 DEF OnlyOverlapsExceed
    <2>3. CASE f = handle[c]
        <3>1. PICK part \in Parts : data'[f] = Extended(data[f], part)
            BY <1>5, <2>1, <2>3 DEF WriteTears
        <3>2. i \in DOMAIN data[f] /\ data[f][i] = d
            <4>1. /\ data[f] \in Contents
                  /\ part \in Calls \cup Parts /\ part \in {Torn, Cut, Bad, Ruin}
                  /\ i \in DOMAIN Extended(data[f], part)
                BY <2>1, <2>3, <3>1 DEF Parts
            <4>2. d \notin {Torn, Cut, Bad, Ruin}
                BY ConstantsAssumption
            <4> HIDE DEF Contents
            <4> QED
                BY <3>1, <4>1, <4>2, ExtendedElements
        <3> QED
            BY <3>2 DEF OnlyOverlapsExceed
    <2> QED
        BY <2>2, <2>3
<1>6. ASSUME NEW c \in Calls, WriteFails(c) PROVE OnlyOverlapsExceed'
    BY <1>6 DEF WriteFails, Moves, files
<1>7. ASSUME NEW c \in Calls, Push(c) PROVE OnlyOverlapsExceed'
    BY <1>7 DEF Push, Moves, files
<1>8. ASSUME NEW c \in Calls, Abandon(c) PROVE OnlyOverlapsExceed'
    BY <1>8 DEF Abandon, Moves, files
<1>9. ASSUME Restart PROVE OnlyOverlapsExceed'
    BY <1>9 DEF Restart, files
<1>10. ASSUME UNCHANGED vars PROVE OnlyOverlapsExceed'
    BY <1>10 DEF vars, files
<1> QED
    BY <1>1, <1>2, <1>3, <1>4, <1>5, <1>6, <1>7, <1>8, <1>9, <1>10 DEF Next, CallStep

\* A step that writes nothing and ends no call loses no line.
LEMMA QuietStep ==
    ASSUME FilesOK, FaultsPay, Lost' \subseteq Lost, Spoiled' \subseteq Spoiled,
           Ruined' \subseteq Ruined, faults' = faults
    PROVE  FaultsPay'
<1>1. IsFiniteSet(Lost') /\ Cardinality(Lost') <= Cardinality(Lost)
    BY FS_Subset DEF FaultsPay
<1>2. IsFiniteSet(Spoiled') /\ Cardinality(Spoiled') <= Cardinality(Spoiled)
    BY FS_Subset DEF FaultsPay
<1>3. IsFiniteSet(Ruined') /\ Cardinality(Ruined') <= Cardinality(Ruined)
    BY FS_Subset DEF FaultsPay
<1>4. /\ Cardinality(Lost) \in Nat /\ Cardinality(Lost') \in Nat
      /\ Cardinality(Spoiled) \in Nat /\ Cardinality(Spoiled') \in Nat
      /\ Cardinality(Ruined) \in Nat /\ Cardinality(Ruined') \in Nat /\ faults \in Nat
    BY <1>1, <1>2, <1>3, FS_CardinalityType DEF FaultsPay, FilesOK
<1> QED
    BY <1>1, <1>2, <1>3, <1>4 DEF FaultsPay

\* What a write does to the lines of the others, and to other files: nothing.
LEMMA WriteLoses ==
    ASSUME FilesOK, NEW c \in Calls, NEW l \in Calls \cup Parts,
           place[c] = "open", Moves(c, "written"), handle' = handle,
           data' = [data EXCEPT ![handle[c]] = Extended(@, l)]
    PROVE  /\ Lost' \subseteq Lost \cup {c}
           /\ Spoiled' \subseteq Spoiled \cup {handle[c]}
           /\ Ruined' \subseteq Ruined \cup {handle[c]}
           /\ l # Cut => Ruined' \subseteq Ruined
           /\ l = Cut => Lost' \subseteq Lost /\ Spoiled' \subseteq Spoiled
<1>1. handle[c] \in Calls /\ \A f \in Calls : data[f] \in Contents
    BY DEF FilesOK, Contents
<1>2. /\ data'[handle[c]] = Extended(data[handle[c]], l)
      /\ \A f \in Calls : f # handle[c] => data'[f] = data[f]
    BY <1>1 DEF FilesOK
<1>3. /\ Text(data'[handle[c]]) => Text(data[handle[c]])
      /\ Text(data[handle[c]]) /\ l # Cut => Text(data'[handle[c]])
      /\ l = Cut => ~Text(data'[handle[c]])
    BY <1>1, <1>2, ExtendedText
<1>4. ASSUME NEW d \in Lost', d # c PROVE d \in Lost
    <2>1. /\ d \in Calls /\ place[d] \in {"written", "done"} /\ handle[d] \in Calls
          /\ Text(data'[handle[d]])
        BY <1>4 DEF Lost, Moves, FilesOK
    <2>2. Text(data[handle[d]])
        BY <1>2, <1>3, <2>1
    <2>3. SUFFICES ASSUME NEW i \in DOMAIN data[handle[d]], data[handle[d]][i] = d
                   PROVE  FALSE
        BY <2>1, <2>2 DEF Lost
    <2>4. data[handle[d]] \in Contents /\ d \notin Parts
        BY <1>1, <2>1, ConstantsAssumption DEF Parts
    <2>5. CASE handle[d] = handle[c]
        <3>1. data'[handle'[d]] = Extended(data[handle[d]], l)
            BY <1>2, <2>5
        <3>2. /\ i \in DOMAIN data'[handle'[d]]
              /\ data'[handle'[d]][i] = d
            BY <2>3, <2>4, <3>1, ExtendedKeeps
        <3> QED
            BY <1>4, <3>2 DEF Lost
    <2>6. CASE handle[d] # handle[c]
        <3>1. data'[handle'[d]] = data[handle[d]]
            BY <1>2, <2>1, <2>6
        <3> QED
            BY <1>4, <2>3, <3>1 DEF Lost
    <2> QED
        BY <2>5, <2>6
<1>5. ASSUME NEW f \in Spoiled', f # handle[c] PROVE f \in Spoiled
    BY <1>2, <1>5 DEF Spoiled
<1>6. ASSUME NEW f \in Ruined', f # handle[c] \/ l # Cut PROVE f \in Ruined
    BY <1>2, <1>3, <1>6 DEF Ruined
<1>7. l = Cut => c \notin Lost' /\ handle[c] \notin Spoiled'
    BY <1>3 DEF Lost, Spoiled
<1> QED
    BY <1>4, <1>5, <1>6, <1>7

\* A fault costs a line and a torn end, or a file; whoever meets a torn end mends
\* it, and loses its own line.
LEMMA FaultsStep ==
    ASSUME FilesOK, FaultsPay, [Next]_vars
    PROVE  FaultsPay'
<1>1. /\ faults \in Nat /\ IsFiniteSet(Lost) /\ IsFiniteSet(Spoiled) /\ IsFiniteSet(Ruined)
      /\ Cardinality(Lost) + Cardinality(Spoiled) + 2 * Cardinality(Ruined) <= 2 * faults
    BY ConstantsAssumption DEF FilesOK, FaultsPay
<1>2. Cardinality(Lost) \in Nat /\ Cardinality(Spoiled) \in Nat /\ Cardinality(Ruined) \in Nat
    BY <1>1, FS_CardinalityType
<1>3. ASSUME NEW c \in Calls, Stat(c) \/ Rename(c) \/ Push(c) \/ Abandon(c)
      PROVE FaultsPay'
    <2>1. Lost' \subseteq Lost
        BY <1>3 DEF Stat, Rename, Push, Abandon, Moves, Lost, files, FilesOK
    <2>2. Spoiled' = Spoiled /\ Ruined' = Ruined /\ faults' = faults
        BY <1>3 DEF Stat, Rename, Push, Abandon, Spoiled, Ruined, files
    <2> QED
        BY <2>1, <2>2, QuietStep
<1>4. ASSUME NEW c \in Calls, Open(c) PROVE FaultsPay'
    <2>1. Lost' \subseteq Lost
        BY <1>4 DEF Open, Moves, Lost, FilesOK
    <2>2. Spoiled' = Spoiled /\ Ruined' = Ruined /\ faults' = faults
        BY <1>4 DEF Open, Spoiled, Ruined
    <2> QED
        BY <2>1, <2>2, QuietStep
<1>5. ASSUME NEW c \in Calls, Write(c) PROVE FaultsPay'
    <2> DEFINE f == handle[c]
    <2>1. f \in Calls /\ data[f] \in Contents /\ data'[f] = Extended(data[f], c) /\ c # Cut
        BY <1>5, ConstantsAssumption DEF Write, FilesOK, Contents
    <2>2. /\ Lost' \subseteq Lost \cup {c} /\ Spoiled' \subseteq Spoiled \cup {f}
          /\ Ruined' \subseteq Ruined /\ faults' = faults
        BY <1>5, <2>1, WriteLoses DEF Write
    <2>3. f \notin Spoiled'
        BY <2>1, ExtendedEnd DEF Spoiled
    <2>4. Text(data'[f]) => Text(data[f])
        BY <2>1, ExtendedText
    <2>5. CASE EndsTorn(data[f]) /\ Text(data[f])
        <3>1. f \in Spoiled
            BY <2>1, <2>5 DEF Spoiled
        <3>2. Spoiled' \subseteq Spoiled \ {f}
            BY <2>2, <2>3
        <3>3. /\ IsFiniteSet(Spoiled \ {f})
              /\ Cardinality(Spoiled \ {f}) = Cardinality(Spoiled) - 1
            BY <1>1, <3>1, FS_RemoveElement
        <3>4. IsFiniteSet(Spoiled') /\ Cardinality(Spoiled') <= Cardinality(Spoiled) - 1
            BY <3>2, <3>3, FS_Subset
        <3>5. IsFiniteSet(Lost') /\ Cardinality(Lost') <= Cardinality(Lost) + 1
            BY <1>1, <2>2, OneMore
        <3>6. IsFiniteSet(Ruined') /\ Cardinality(Ruined') <= Cardinality(Ruined)
            BY <1>1, <2>2, FS_Subset
        <3>7. Cardinality(Lost') \in Nat /\ Cardinality(Spoiled') \in Nat /\ Cardinality(Ruined') \in Nat
            BY <3>4, <3>5, <3>6, FS_CardinalityType
        <3> QED
            BY <1>1, <1>2, <2>2, <3>4, <3>5, <3>6, <3>7 DEF FaultsPay
    <2>6. CASE ~EndsTorn(data[f]) \/ ~Text(data[f])
        <3>1. handle' = handle
            BY <1>5 DEF Write
        <3>2. c \notin Lost'
            <4>1. CASE ~Text(data[f])
                BY <2>4, <3>1, <4>1 DEF Lost
            <4>2. CASE ~EndsTorn(data[f])
                <5>1. PICK i \in DOMAIN data'[f] : data'[f][i] = c
                    BY <2>1, <4>2, ExtendedEnd
                <5> QED
                    BY <3>1, <5>1 DEF Lost
            <4> QED
                BY <2>6, <4>1, <4>2
        <3>3. Lost' \subseteq Lost /\ Spoiled' \subseteq Spoiled
            BY <2>2, <2>3, <3>2
        <3> QED
            BY <2>2, <3>3, QuietStep
    <2> QED
        BY <2>5, <2>6
<1>6. ASSUME NEW c \in Calls, WriteTears(c) PROVE FaultsPay'
    <2>1. PICK part \in Parts : data' = [data EXCEPT ![handle[c]] = Extended(@, part)]
        BY <1>6 DEF WriteTears
    <2>2. faults' = faults + 1
        BY <1>6 DEF WriteTears
    <2>3. /\ Lost' \subseteq Lost \cup {c} /\ Spoiled' \subseteq Spoiled \cup {handle[c]}
          /\ Ruined' \subseteq Ruined \cup {handle[c]}
          /\ part # Cut => Ruined' \subseteq Ruined
          /\ part = Cut => Lost' \subseteq Lost /\ Spoiled' \subseteq Spoiled
        <3>1. place[c] = "open" /\ Moves(c, "written") /\ handle' = handle /\ part \in Calls \cup Parts
            BY <1>6, <2>1 DEF WriteTears
        <3> QED
            BY <2>1, <3>1, WriteLoses
    <2>4. /\ IsFiniteSet(Lost') /\ Cardinality(Lost') <= Cardinality(Lost) + 1
          /\ IsFiniteSet(Spoiled') /\ Cardinality(Spoiled') <= Cardinality(Spoiled) + 1
          /\ IsFiniteSet(Ruined') /\ Cardinality(Ruined') <= Cardinality(Ruined) + 1
        BY <1>1, <2>3, OneMore
    <2>5. Cardinality(Lost') \in Nat /\ Cardinality(Spoiled') \in Nat /\ Cardinality(Ruined') \in Nat
        BY <2>4, FS_CardinalityType
    <2>6. part # Cut => Cardinality(Ruined') <= Cardinality(Ruined)
        BY <1>1, <2>3, FS_Subset
    <2>7. part = Cut => /\ Cardinality(Lost') <= Cardinality(Lost)
                        /\ Cardinality(Spoiled') <= Cardinality(Spoiled)
        BY <1>1, <2>3, FS_Subset
    <2> QED
        BY <1>1, <1>2, <2>2, <2>4, <2>5, <2>6, <2>7 DEF FaultsPay
<1>7. ASSUME NEW c \in Calls, WriteFails(c) PROVE FaultsPay'
    <2>1. Lost' \subseteq Lost \cup {c} /\ Spoiled' = Spoiled /\ Ruined' = Ruined /\ faults' = faults + 1
        BY <1>7 DEF WriteFails, Moves, Lost, Spoiled, Ruined, files, FilesOK
    <2>2. IsFiniteSet(Lost') /\ Cardinality(Lost') <= Cardinality(Lost) + 1
        BY <1>1, <2>1, OneMore
    <2>3. Cardinality(Lost') \in Nat
        BY <2>2, FS_CardinalityType
    <2> QED
        BY <1>1, <1>2, <2>1, <2>2, <2>3 DEF FaultsPay
<1>8. ASSUME Restart PROVE FaultsPay'
    <2>1. Lost' \subseteq Lost /\ Spoiled' = Spoiled /\ Ruined' = Ruined /\ faults' = faults
        BY <1>8 DEF Restart, Lost, Spoiled, Ruined, files
    <2> QED
        BY <2>1, QuietStep
<1>9. ASSUME UNCHANGED vars PROVE FaultsPay'
    <2>1. Lost' = Lost /\ Spoiled' = Spoiled /\ Ruined' = Ruined /\ faults' = faults
        BY <1>9 DEF vars, files, Lost, Spoiled, Ruined
    <2> QED
        BY <2>1, QuietStep
<1> QED
    BY <1>3, <1>4, <1>5, <1>6, <1>7, <1>8, <1>9 DEF Next, CallStep

\* The inductive invariant of the file.
THEOREM Invariant == Spec => []Inv
<1>1. Init => Inv
    BY ConstantsAssumption
    DEF Init, Inv, FilesOK, Places, Created, Alone, Appending, SeesFile, OnlyOverlapsExceed
<1>2. Inv /\ [Next]_vars => Inv'
    BY Files, CreatedStep, AloneStep, SeesFileStep, ExceedStep DEF Inv
<1> QED
    BY <1>1, <1>2, PTL DEF Spec

\* A file grows over its cap only by lines whose append overlapped with another.
THEOREM OverlapsExceed == Spec => []OnlyOverlapsExceed
<1>1. Inv => OnlyOverlapsExceed
    BY DEF Inv
<1> QED
    BY <1>1, Invariant, PTL

\* A write that fails costs its own line and at most the next one, or, when it ends
\* inside a character, the file it went to, through any rotations, torn ends and
\* restarts (append_routing_log ignores its errors, read_to_string takes a file as
\* a whole).
THEOREM FaultsCost == Spec => []FaultCosts
<1>1. Init => FaultsPay
    <2>1. ASSUME Init PROVE Lost = {} /\ Spoiled = {} /\ Ruined = {} /\ faults = 0
        BY <2>1 DEF Init, Lost, Spoiled, Ruined, EndsTorn, Text
    <2>2. IsFiniteSet({}) /\ Cardinality({}) = 0
        BY FS_EmptySet
    <2> QED
        BY <2>1, <2>2 DEF FaultsPay
<1>2. Inv /\ FaultsPay /\ [Next]_vars => FaultsPay'
    BY FaultsStep DEF Inv
<1>3. FaultsPay /\ Inv => FaultCosts
    <2> SUFFICES ASSUME FaultsPay, Inv PROVE FaultCosts
        OBVIOUS
    <2>1. Missing \subseteq Lost /\ NotText \subseteq Ruined
        BY DEF Missing, Lost, NotText, Ruined
    <2>2. /\ IsFiniteSet(Missing) /\ Cardinality(Missing) <= Cardinality(Lost)
          /\ IsFiniteSet(NotText) /\ Cardinality(NotText) <= Cardinality(Ruined)
        BY <2>1, FS_Subset DEF FaultsPay
    <2>3. /\ Cardinality(Missing) \in Nat /\ Cardinality(Lost) \in Nat
          /\ Cardinality(NotText) \in Nat /\ Cardinality(Ruined) \in Nat
          /\ Cardinality(Spoiled) \in Nat /\ faults \in Nat
        BY <2>2, FS_CardinalityType, ConstantsAssumption DEF FaultsPay, Inv, FilesOK
    <2> QED
        BY <2>2, <2>3 DEF FaultsPay, FaultCosts
<1> QED
    BY <1>1, <1>2, <1>3, Invariant, PTL DEF Spec

\* A call whose append overlaps with no other renames only a file at its cap.
THEOREM RotationsAreDue == Spec => RotatesFullOnly
<1> DEFINE Due == \A c \in Calls \ overlapped : place[c] = "full" /\ place'[c] = "fits" =>
                    current # None /\ Len(data[current]) >= Cap
<1>1. ASSUME Inv, [Next]_vars PROVE [Due]_vars
    BY <1>1 DEF Inv, SeesFile, Appending, ContentOf
<1> QED
    BY <1>1, Invariant, PTL DEF Spec, RotatesFullOnly

\* Those who read the log in pages leave it as it is: all that is proved of the log
\* holds of the log with its readers.
THEOREM ReadersLeaveTheLog == LogsSpec => Spec
<1>1. LogsInit => Init
    BY DEF LogsInit
<1>2. ASSUME [LogsNext]_logsVars PROVE [Next]_vars
  <2>1. CASE Logged
    BY <2>1 DEF Logged
  <2>2. CASE Second
    BY <2>2 DEF Second
  <2>3. CASE ReadLog
    BY <2>3 DEF ReadLog
  <2>4. CASE ReadRing
    BY <2>4 DEF ReadRing
  <2>5. ASSUME NEW c \in Calls, Stamp(c) PROVE UNCHANGED vars
    BY <2>5 DEF Stamp
  <2>6. CASE UNCHANGED logsVars
    BY <2>6 DEF logsVars
  <2> QED
    BY <1>2, <2>1, <2>2, <2>3, <2>4, <2>5, <2>6 DEF LogsNext
<1> QED
    BY <1>1, <1>2, PTL DEF LogsSpec, Spec

-----------------------------------------------------------------------------
(* The ring.                                                               *)

\* What Newest gives of a file: its last lines, if every line parses.
LEMMA NewestOf ==
    ASSUME NEW s \in Contents, NEW n \in Nat
    PROVE  /\ Newest(s, n) \in Seq(Calls) /\ Len(Newest(s, n)) \in Nat /\ Len(Newest(s, n)) <= n
           /\ Readable(s) \in Seq(Calls)
           /\ UpTo(Newest(s, n), Readable(s), Len(Readable(s)))
           /\ s \in Seq(Calls) =>
                /\ UpTo(Newest(s, n), s, Len(s))
                /\ Len(Newest(s, n)) = IF Len(s) > n THEN n ELSE Len(s)
<1> DEFINE ls   == Readable(s)
           from == IF Len(ls) > n THEN Len(ls) - n + 1 ELSE 1
           r    == Newest(s, n)
<1>0. Filter(s, Calls) \in Seq(Calls)
    <2> DEFINE fs == Filter(s, Calls)
    <2>1. fs \in Contents
        BY FilterIs DEF Contents
    <2>2. fs \in [1..Len(fs) -> Calls \cup {Torn, Cut, Bad, Ruin}] /\ Len(fs) \in Nat /\ DOMAIN fs = 1..Len(fs)
        BY <2>1, LenProperties DEF Contents
    <2>3. \A k \in DOMAIN fs : fs[k] \in Calls
        BY FilterElements DEF Contents
    <2> HIDE DEF fs
    <2>4. fs \in [1..Len(fs) -> Calls]
        BY <2>2, <2>3
    <2>5. Seq(Calls) = UNION {[1..k -> Calls] : k \in Nat}
        BY SeqDef
    <2>6. fs \in Seq(Calls)
        BY <2>2, <2>4, <2>5
    <2> QED
        BY <2>6 DEF fs
<1>1. ls \in Seq(Calls)
    BY <1>0, EmptySeq DEF Readable
<1>2. s \in Seq(Calls) => ls = s
    <2> SUFFICES ASSUME s \in Seq(Calls) PROVE ls = s
        OBVIOUS
    <2>1. \A i \in DOMAIN s : s[i] \in Calls
        BY LenProperties, ElementOfSeq
    <2>2. Text(s)
        BY <2>1, ConstantsAssumption DEF Text
    <2>3. Filter(s, Calls) = s
        BY <2>1, FilterAll
    <2> QED
        BY <2>2, <2>3 DEF Readable
<1>3. r = SubSeq(ls, from, Len(ls))
    BY DEF Newest
<1> HIDE DEF ls, r
<1>4. Len(ls) \in Nat
    BY <1>1, LenProperties
<1>5. from \in 1..(Len(ls) + 1) /\ Len(ls) - from + 1 = IF Len(ls) > n THEN n ELSE Len(ls)
    BY <1>4
<1> HIDE DEF from
<1>6. /\ r \in Seq(Calls)
      /\ Len(r) = IF from <= Len(ls) THEN Len(ls) - from + 1 ELSE 0
      /\ \A i \in 1..(Len(ls) - from + 1) : r[i] = ls[from + i - 1]
    <2>1. \A i \in from..Len(ls) : i \in 1..Len(ls)
        BY <1>4, <1>5
    <2>2. \A i \in from..Len(ls) : ls[i] \in Calls
        BY <1>1, <2>1, ElementOfSeq
    <2>3. from \in Int /\ Len(ls) \in Int
        BY <1>4, <1>5
    <2> QED
        BY <1>3, <2>2, <2>3, SubSeqProperties
<1>7. Len(r) = Len(ls) - from + 1 /\ Len(r) = IF Len(ls) > n THEN n ELSE Len(ls)
    BY <1>4, <1>5, <1>6
<1>8. \A i \in 1..Len(r) : r[i] = ls[Len(ls) - Len(r) + i]
    <2> SUFFICES ASSUME NEW i \in 1..Len(r) PROVE r[i] = ls[Len(ls) - Len(r) + i]
        OBVIOUS
    <2>1. i \in 1..(Len(ls) - from + 1)
        BY <1>7
    <2>2. from + i - 1 = Len(ls) - Len(r) + i
        BY <1>4, <1>5, <1>7
    <2> QED
        BY <1>6, <2>1, <2>2
<1>9. Len(r) \in Nat /\ Len(r) <= n /\ Len(r) <= Len(ls)
    BY <1>4, <1>7
<1> QED
    BY <1>1, <1>2, <1>4, <1>6, <1>7, <1>8, <1>9 DEF UpTo, r, ls

\* The end of a log is the newest of it.
LEMMA EndIsNewest ==
    ASSUME NEW r \in Seq(Calls), NEW s \in Seq(Calls), UpTo(r, s, Len(s)), NEW n \in Nat,
           Len(r) <= n, Len(r) = n \/ Len(r) = Len(s)
    PROVE  r = Newest(s, n)
<1> DEFINE t == Newest(s, n)
<1>1. s \in Contents
    BY SeqMonotonic DEF Contents
<1>2. /\ t \in Seq(Calls) /\ UpTo(t, s, Len(s))
      /\ Len(t) = IF Len(s) > n THEN n ELSE Len(s)
    BY <1>1, NewestOf
<1> HIDE DEF t
<1>3. Len(r) \in Nat /\ Len(s) \in Nat
    BY LenProperties
<1>4. Len(r) <= Len(s)
    BY DEF UpTo
<1>5. Len(r) = Len(t)
    BY <1>2, <1>3, <1>4
<1>6. \A i \in 1..Len(r) : r[i] = t[i]
    BY <1>2, <1>5 DEF UpTo
<1> QED
    BY <1>2, <1>5, <1>6, SeqEqual DEF t

\* The ring takes the next line of the log,
LEMMA UpToNext ==
    ASSUME NEW T, NEW r \in Seq(T), NEW s \in Seq(T), NEW k \in Nat, UpTo(r, s, k), k < Len(s), NEW m \in T, m = s[k + 1]
    PROVE  UpTo(Append(r, m), s, k + 1)
<1> DEFINE a == Append(r, m)
<1>1. /\ Len(a) = Len(r) + 1 /\ a[Len(r) + 1] = m
      /\ \A i \in 1..Len(r) : a[i] = r[i]
    BY AppendProperties
<1> HIDE DEF a
<1>2. Len(r) \in Nat /\ Len(s) \in Nat /\ Len(r) <= k
    BY LenProperties DEF UpTo
<1>3. Len(a) <= k + 1 /\ k + 1 <= Len(s)
    BY <1>1, <1>2
<1>4. ASSUME NEW i \in 1..Len(a) PROVE a[i] = s[(k + 1) - Len(a) + i]
    <2>1. CASE i = Len(r) + 1
        <3>1. (k + 1) - Len(a) + i = k + 1
            BY <1>1, <1>2, <2>1
        <3> QED
            BY <1>1, <2>1, <3>1
    <2>2. CASE i # Len(r) + 1
        <3>1. i \in 1..Len(r) /\ (k + 1) - Len(a) + i = k - Len(r) + i
            BY <1>1, <1>2, <1>4, <2>2
        <3> QED
            BY <1>1, <3>1 DEF UpTo
    <2> QED
        BY <2>1, <2>2
<1> QED
    BY <1>3, <1>4 DEF UpTo, a

\* gives its oldest away,
LEMMA UpToTail ==
    ASSUME NEW T, NEW r \in Seq(T), r # <<>>, NEW s \in Seq(T), NEW k \in Nat, UpTo(r, s, k)
    PROVE  Tail(r) \in Seq(T) /\ Len(Tail(r)) = Len(r) - 1 /\ UpTo(Tail(r), s, k)
<1> DEFINE t == Tail(r)
<1>1. t \in Seq(T) /\ Len(t) = Len(r) - 1 /\ \A i \in 1..Len(t) : t[i] = r[i + 1]
    BY HeadTailProperties
<1> HIDE DEF t
<1>2. Len(r) \in Nat /\ Len(r) > 0 /\ Len(s) \in Nat /\ Len(r) <= k /\ k <= Len(s)
    BY LenProperties, EmptySeq DEF UpTo
<1>3. Len(t) <= k
    BY <1>1, <1>2
<1>4. ASSUME NEW i \in 1..Len(t) PROVE t[i] = s[k - Len(t) + i]
    <2>1. i + 1 \in 1..Len(r) /\ k - Len(r) + (i + 1) = k - Len(t) + i
        BY <1>1, <1>2
    <2> QED
        BY <1>1, <2>1 DEF UpTo
<1> QED
    BY <1>1, <1>2, <1>3, <1>4 DEF UpTo, t

\* is as it was when the log grows,
LEMMA UpToGrows ==
    ASSUME NEW T, NEW r \in Seq(T), NEW s \in Seq(T), NEW k \in Nat, UpTo(r, s, k), NEW m \in T
    PROVE  UpTo(r, Append(s, m), k)
<1> DEFINE a == Append(s, m)
<1>1. Len(a) = Len(s) + 1 /\ \A i \in 1..Len(s) : a[i] = s[i]
    BY AppendProperties
<1> HIDE DEF a
<1>2. Len(r) \in Nat /\ Len(s) \in Nat /\ Len(r) <= k /\ k <= Len(s)
    BY LenProperties DEF UpTo
<1>3. ASSUME NEW i \in 1..Len(r) PROVE r[i] = a[k - Len(r) + i]
    <2>1. k - Len(r) + i \in 1..Len(s)
        BY <1>2
    <2> QED
        BY <1>1, <2>1 DEF UpTo
<1>4. k <= Len(a)
    BY <1>1, <1>2
<1> QED
    BY <1>2, <1>3, <1>4 DEF UpTo, a

\* and is of the last file alone if that is long enough.
LEMMA UpToEnd ==
    ASSUME NEW T, NEW r \in Seq(T), NEW t \in Seq(T), NEW s \in Seq(T), Len(r) <= Len(s)
    PROVE  UpTo(r, t \o s, Len(t \o s)) <=> UpTo(r, s, Len(s))
<1> DEFINE u == t \o s
<1>1. /\ Len(u) = Len(t) + Len(s)
      /\ \A i \in 1..(Len(t) + Len(s)) : u[i] = IF i <= Len(t) THEN t[i] ELSE s[i - Len(t)]
    BY ConcatProperties
<1> HIDE DEF u
<1>2. Len(r) \in Nat /\ Len(s) \in Nat /\ Len(t) \in Nat
    BY LenProperties
<1>3. ASSUME NEW i \in 1..Len(r) PROVE u[Len(u) - Len(r) + i] = s[Len(s) - Len(r) + i]
    <2>1. /\ Len(u) - Len(r) + i \in 1..(Len(t) + Len(s)) /\ ~(Len(u) - Len(r) + i <= Len(t))
          /\ (Len(u) - Len(r) + i) - Len(t) = Len(s) - Len(r) + i
        BY <1>1, <1>2
    <2> QED
        BY <1>1, <2>1
<1>4. Len(r) <= Len(u) /\ Len(u) <= Len(u) /\ Len(s) <= Len(s)
    BY <1>1, <1>2
<1> QED
    BY <1>3, <1>4 DEF UpTo, u

\* What the files hold together.
LEMMA WholeIs ==
    ASSUME FilesOK, \A f \in Calls : data[f] \in Seq(Calls)
    PROVE  /\ ContentOf(current) \in Seq(Calls) /\ ContentOf(rotated) \in Seq(Calls)
           /\ Whole \in Seq(Calls) /\ Len(Whole) \in Nat
           /\ Len(ContentOf(current)) \in Nat /\ Len(ContentOf(current)) <= Len(Whole)
<1>1. ContentOf(current) \in Seq(Calls) /\ ContentOf(rotated) \in Seq(Calls)
    BY EmptySeq DEF ContentOf, FilesOK
<1>2. Whole \in Seq(Calls) /\ Len(Whole) = Len(ContentOf(rotated)) + Len(ContentOf(current))
    BY <1>1, ConcatProperties DEF Whole
<1>3. Len(ContentOf(current)) \in Nat /\ Len(ContentOf(rotated)) \in Nat
    BY <1>1, LenProperties
<1> QED
    BY <1>1, <1>2, <1>3

\* A line that is whole, behind whole lines.
LEMMA ExtendedWhole ==
    ASSUME NEW s \in Seq(Calls), NEW c \in Calls
    PROVE  Extended(s, c) = Append(s, c) /\ Extended(s, c) \in Seq(Calls)
<1>1. s # <<>> => Last(s) \in Calls
    <2> SUFFICES ASSUME s # <<>> PROVE Last(s) \in Calls
        OBVIOUS
    <2>1. Len(s) \in 1..Len(s)
        BY EmptySeq
    <2> QED
        BY <2>1, ElementOfSeq DEF Last
<1>2. ~EndsTorn(s)
    BY <1>1, ConstantsAssumption DEF EndsTorn, Parts
<1> QED
    BY <1>2, AppendProperties DEF Extended

\* The ring is lines, and not too many.
LEMMA RingType ==
    ASSUME FilesOK, RingOK, [Next]_vars
    PROVE  RingOK'
<1>1. RingCap \in Nat \ {0}
    BY ConstantsAssumption
<1>2. ASSUME NEW c \in Calls, Push(c) PROVE RingOK'
    <2> DEFINE t == IF Len(ring) >= RingCap THEN Tail(ring) ELSE ring
    <2>1. ring' = Append(t, c) /\ ring \in Seq(Calls) /\ Len(ring) \in Nat /\ Len(ring) <= RingCap
        BY <1>2, LenProperties DEF Push, RingOK
    <2>2. t \in Seq(Calls) /\ Len(t) + 1 <= RingCap /\ Len(t) \in Nat
        <3>1. CASE Len(ring) >= RingCap
            <4>1. ring # <<>>
                BY <1>1, <2>1, <3>1, EmptySeq
            <4>2. Tail(ring) \in Seq(Calls) /\ Len(Tail(ring)) = Len(ring) - 1
                BY <2>1, <4>1, HeadTailProperties
            <4>3. t = Tail(ring)
                BY <3>1
            <4> HIDE DEF t
            <4> QED
                BY <1>1, <2>1, <3>1, <4>2, <4>3
        <3>2. CASE Len(ring) < RingCap
            <4>1. t = ring
                BY <1>1, <2>1, <3>2
            <4> HIDE DEF t
            <4> QED
                BY <1>1, <2>1, <3>2, <4>1
        <3> QED
            BY <1>1, <2>1, <3>1, <3>2
    <2> HIDE DEF t
    <2>3. Append(t, c) \in Seq(Calls) /\ Len(Append(t, c)) = Len(t) + 1
        BY <2>2, AppendProperties
    <2>4. Len(ring') = Len(t) + 1 /\ ring' \in Seq(Calls)
        BY <2>1, <2>3
    <2> QED
        BY <1>1, <2>2, <2>4 DEF RingOK
<1>3. CASE Restart
    <2>1. ContentOf(current) \in Contents
        BY EmptySeq DEF ContentOf, FilesOK, Contents
    <2>2. Newest(ContentOf(current), RingCap) \in Seq(Calls) /\ Len(Newest(ContentOf(current), RingCap)) <= RingCap
        BY <1>1, <2>1, NewestOf
    <2> QED
        BY <1>3, <2>2 DEF Restart, RingOK
<1>4. CASE UNCHANGED ring
    BY <1>4 DEF RingOK
<1> QED
    BY <1>2, <1>3, <1>4 DEF Next, CallStep, Stat, Rename, Open, Write, WriteTears, WriteFails,
       Abandon, vars

\* A file that is renamed does not come back under its old name.
LEMMA ApartStep ==
    ASSUME FilesOK, Created, FilesApart, [Next]_vars
    PROVE  FilesApart'
<1>1. ASSUME NEW c \in Calls, Rename(c) PROVE FilesApart'
    BY <1>1 DEF Rename, FilesApart
<1>2. ASSUME NEW c \in Calls, Open(c) PROVE FilesApart'
    BY <1>2 DEF Open, FilesApart, Created
<1>3. CASE UNCHANGED <<current, rotated>>
    BY <1>3 DEF FilesApart
<1> QED
    BY <1>1, <1>2, <1>3 DEF Next, CallStep, Stat, Write, WriteTears, WriteFails, Push, Abandon,
       Restart, vars, files

\* A disk that takes every line leaves whole lines.
LEMMA LinesStep ==
    ASSUME FilesOK, LinesAreWhole, [Next]_vars
    PROVE  LinesAreWhole'
<1>1. ASSUME NEW c \in Calls, Write(c) PROVE LinesAreWhole'
    <2>1. /\ data' = [data EXCEPT ![handle[c]] = Extended(data[handle[c]], c)] /\ faults' = faults
          /\ handle[c] \in Calls
        BY <1>1, ConstantsAssumption DEF Write, FilesOK
    <2>2. ASSUME faults = 0 PROVE Extended(data[handle[c]], c) \in Seq(Calls)
        BY <2>1, <2>2, ExtendedWhole DEF LinesAreWhole
    <2> QED
        BY <2>1, <2>2 DEF LinesAreWhole, FilesOK
<1>2. ASSUME NEW c \in Calls, WriteTears(c) \/ WriteFails(c) PROVE LinesAreWhole'
    <2>1. faults' = faults + 1 /\ faults \in Nat
        BY <1>2 DEF WriteTears, WriteFails, FilesOK
    <2> QED
        BY <2>1 DEF LinesAreWhole
<1>3. CASE UNCHANGED <<data, faults>>
    BY <1>3 DEF LinesAreWhole
<1> QED
    BY <1>1, <1>2, <1>3 DEF Next, CallStep, Stat, Rename, Open, Push, Abandon, Restart, vars, files

\* Calls that follow each other are in log_route one at a time.
LEMMA SerialStep ==
    ASSUME FilesOK, OneAtATime, [Next]_vars
    PROVE  OneAtATime'
<1> USE DEF Appending, Written
<1>1. ASSUME NEW c \in Calls, Stat(c) PROVE OneAtATime'
    <2> SUFFICES ASSUME serial' PROVE overlapped' = {} /\ \A x, y \in (Appending \cup Written)' : x = y
        BY DEF OneAtATime
    <2>1. serial /\ Appending \cup Written = {}
        BY <1>1 DEF Stat, Starts
    <2>2. overlapped' = {}
        BY <1>1, <2>1 DEF Stat, Starts, OneAtATime
    <2>3. \A x \in Calls : x # c => place'[x] = place[x]
        BY <1>1 DEF Stat, Moves, FilesOK
    <2>4. \A x \in (Appending \cup Written)' : x = c
        BY <2>1, <2>3
    <2> QED
        BY <2>2, <2>4
<1>2. ASSUME UNCHANGED <<overlapped, serial>>, (Appending \cup Written)' \subseteq Appending \cup Written
      PROVE  OneAtATime'
    BY <1>2 DEF OneAtATime
<1>3. ASSUME NEW c \in Calls, Rename(c) \/ Open(c) \/ Write(c) \/ WriteTears(c) \/ WriteFails(c) \/ Push(c) \/ Abandon(c)
      PROVE  OneAtATime'
    <2>1. UNCHANGED <<overlapped, serial>> /\ c \in Appending \cup Written /\ \A x \in Calls : x # c => place'[x] = place[x]
        BY <1>3 DEF Rename, Open, Write, WriteTears, WriteFails, Push, Abandon, Moves, FilesOK
    <2> QED
        BY <1>2, <2>1
<1>4. CASE Restart
    <2>1. UNCHANGED <<overlapped, serial>> /\ (Appending \cup Written)' = {}
        BY <1>4 DEF Restart
    <2> QED
        BY <1>2, <2>1
<1>5. CASE UNCHANGED vars
    BY <1>2, <1>5 DEF vars
<1> QED
    BY <1>1, <1>3, <1>4, <1>5 DEF Next, CallStep

\* The ring is the end of what it was told of, since a rotation leaves a file that is
\* longer than the ring.
LEMMA FollowsStep ==
    ASSUME Inv, RingInv, RingOK', RingCap <= Cap, [Next]_vars
    PROVE  RingFollows'
<1>1. /\ FilesOK /\ Created /\ SeesFile /\ RingOK /\ FilesApart /\ LinesAreWhole /\ OneAtATime /\ RingFollows
      /\ RingCap \in Nat \ {0} /\ Cap \in Nat \ {0}
      /\ faults \in Nat /\ restarts \in Nat /\ place \in [Calls -> Places] /\ None \notin Calls
      /\ ring \in Seq(Calls) /\ Len(ring) \in Nat /\ Len(ring) <= RingCap
    <2>1. FilesOK /\ Created /\ SeesFile /\ RingOK /\ FilesApart /\ LinesAreWhole /\ OneAtATime /\ RingFollows
        BY DEF Inv, RingInv
    <2>2. RingCap \in Nat \ {0} /\ Cap \in Nat \ {0} /\ None \notin Calls
        BY ConstantsAssumption
    <2>3. faults \in Nat /\ restarts \in Nat /\ place \in [Calls -> Places]
        BY <2>1 DEF FilesOK
    <2>4. ring \in Seq(Calls) /\ Len(ring) \in Nat /\ Len(ring) <= RingCap
        BY <2>1, LenProperties DEF RingOK
    <2> QED
        BY <2>1, <2>2, <2>3, <2>4
<1>2. Undisturbed =>
        /\ overlapped = {} /\ \A c, d \in Appending \cup Written : c = d
        /\ \A f \in Calls : data[f] \in Seq(Calls)
        /\ ContentOf(current) \in Seq(Calls) /\ ContentOf(rotated) \in Seq(Calls)
        /\ Whole \in Seq(Calls) /\ Len(Whole) \in Nat
        /\ Len(ContentOf(current)) \in Nat /\ Len(ContentOf(current)) <= Len(Whole)
    BY <1>1, WholeIs DEF Undisturbed, OneAtATime, LinesAreWhole
<1>3. ASSUME Undisturbed', UNCHANGED <<ring, restarts>>, Undisturbed, Written' = Written, Whole' = Whole
      PROVE  RingFollows'
    BY <1>1, <1>3 DEF RingFollows, Told, UpTo
<1>4. ASSUME NEW c \in Calls, Stat(c) PROVE RingFollows'
    <2>1. /\ place[c] = "idle" /\ place'[c] \in {"full", "fits"} /\ (serial' => serial)
          /\ \A x \in Calls : x # c => place'[x] = place[x]
          /\ UNCHANGED <<current, rotated, data, ring, faults, restarts>>
        BY <1>1, <1>4 DEF Stat, Moves, Starts, files
    <2>2. Undisturbed' => Undisturbed
        BY <2>1 DEF Undisturbed
    <2>3. Written' = Written /\ Whole' = Whole
        BY <2>1 DEF Written, Whole, ContentOf
    <2> QED
        BY <1>3, <2>1, <2>2, <2>3 DEF RingFollows
<1>5. ASSUME NEW c \in Calls, Rename(c) PROVE RingFollows'
    <2>1. /\ place[c] = "full" /\ place'[c] = "fits"
          /\ \A x \in Calls : x # c => place'[x] = place[x]
          /\ UNCHANGED <<data, ring, serial, faults, restarts>>
          /\ current # None => rotated' = current /\ current' = None
        BY <1>1, <1>5 DEF Rename, Moves
    <2> SUFFICES ASSUME Undisturbed' PROVE RingFollows'
        BY DEF RingFollows
    <2>2. Undisturbed
        BY <2>1 DEF Undisturbed
    <2>3. c \in Appending \ overlapped
        BY <1>2, <2>1, <2>2 DEF Appending
    <2>4. current # None /\ Len(ContentOf(current)) >= Cap
        BY <1>1, <2>1, <2>3 DEF SeesFile
    <2>5. Written = {} /\ Written' = {}
        BY <1>2, <2>1, <2>2, <2>3 DEF Written
    <2>6. Whole' = ContentOf(current)
        <3>1. Whole' = ContentOf(current) \o <<>>
            BY <2>1, <2>4 DEF Whole, ContentOf
        <3> QED
            BY <1>2, <2>2, <3>1, ConcatEmptySeq
    <2>7. Len(ring) <= Len(ContentOf(current))
        BY <1>1, <1>2, <2>2, <2>4
    <2>8. UpTo(ring, Whole, Len(Whole))
        BY <1>1, <2>2, <2>5 DEF RingFollows, Told
    <2>9. UpTo(ring, ContentOf(current), Len(ContentOf(current)))
        BY <1>1, <1>2, <2>2, <2>7, <2>8, UpToEnd DEF Whole
    <2>10. restarts = 0 => Len(ring) = RingCap
        <3>1. restarts = 0 => Len(ring) = RingCap \/ Len(ring) = Len(Whole)
            BY <1>1, <2>2, <2>5 DEF RingFollows, Told
        <3> QED
            BY <1>1, <1>2, <2>2, <2>4, <3>1
    <2> QED
        BY <2>1, <2>5, <2>6, <2>9, <2>10 DEF RingFollows, Told, UpTo
<1>6. ASSUME NEW c \in Calls, Open(c) PROVE RingFollows'
    <2>1. /\ place[c] = "fits" /\ place'[c] = "open"
          /\ \A x \in Calls : x # c => place'[x] = place[x]
          /\ UNCHANGED <<rotated, data, ring, serial, faults, restarts>>
          /\ current' = IF current = None THEN c ELSE current
        BY <1>1, <1>6 DEF Open, Moves
    <2>2. Undisturbed' => Undisturbed
        BY <2>1 DEF Undisturbed
    <2>3. data[c] = <<>>
        BY <1>1, <2>1 DEF Created
    <2>4. Written' = Written /\ Whole' = Whole
        BY <1>1, <2>1, <2>3 DEF Written, Whole, ContentOf
    <2> QED
        BY <1>3, <2>1, <2>2, <2>4 DEF RingFollows
<1>7. ASSUME NEW c \in Calls, Write(c) PROVE RingFollows'
    <2>1. /\ place[c] = "open" /\ place'[c] = "written"
          /\ \A x \in Calls : x # c => place'[x] = place[x]
          /\ UNCHANGED <<current, rotated, ring, serial, faults, restarts>>
          /\ data' = [data EXCEPT ![handle[c]] = Extended(data[handle[c]], c)]
        BY <1>1, <1>7 DEF Write, Moves
    <2> SUFFICES ASSUME Undisturbed' PROVE RingFollows'
        BY DEF RingFollows
    <2>2. Undisturbed
        BY <2>1 DEF Undisturbed
    <2>3. c \in Appending \ overlapped
        BY <1>2, <2>1, <2>2 DEF Appending
    <2>4. handle[c] = current /\ current \in Calls /\ current # None /\ current # rotated
        BY <1>1, <2>1, <2>3 DEF SeesFile, FilesOK, FilesApart
    <2>5. Written = {} /\ Written' = {c}
        BY <1>2, <2>1, <2>2, <2>3, SMTT(30) DEF Written
    <2>6. data'[current] = Append(data[current], c) /\ \A f \in Calls : f # current => data'[f] = data[f]
        <3>1. Extended(data[current], c) = Append(data[current], c)
            BY <1>2, <2>2, <2>4, ExtendedWhole
        <3>2. data \in [Calls -> Seq(Calls \cup {Torn, Cut, Bad, Ruin})]
            BY <1>1 DEF FilesOK
        <3> QED
            BY <2>1, <2>4, <3>1, <3>2
    <2>7. ContentOf(current)' = Append(ContentOf(current), c) /\ ContentOf(rotated)' = ContentOf(rotated)
        <3>1. rotated = None \/ rotated \in Calls
            BY <1>1 DEF FilesOK
        <3> QED
            BY <2>1, <2>4, <2>6, <3>1 DEF ContentOf
    <2>8. Whole' = Append(Whole, c)
        <3> DEFINE a == ContentOf(rotated)
                   b == ContentOf(current)
        <3>1. a \in Seq(Calls) /\ b \in Seq(Calls) /\ <<c>> \in Seq(Calls)
            BY <1>2, <2>2
        <3>2. Whole' = a \o Append(b, c) /\ Whole = a \o b
            BY <2>7 DEF Whole
        <3> HIDE DEF a, b
        <3>3. Append(b, c) = b \o <<c>> /\ Append(a \o b, c) = (a \o b) \o <<c>>
            BY <3>1, AppendIsConcat, ConcatProperties
        <3>4. (a \o b) \o <<c>> = a \o (b \o <<c>>)
            BY <3>1, ConcatAssociative
        <3> QED
            BY <3>2, <3>3, <3>4
    <2> DEFINE w == Whole
               v == Append(w, c)
    <2>9. /\ w \in Seq(Calls) /\ v \in Seq(Calls) /\ Len(v) = Len(w) + 1 /\ v # <<>> /\ v[Len(w) + 1] = c
          /\ Len(w) \in Nat
        BY <1>2, <2>2, AppendProperties
    <2>10. UpTo(ring, w, Len(w)) /\ (restarts = 0 => Len(ring) = RingCap \/ Len(ring) = Len(w))
        BY <1>1, <2>2, <2>5 DEF RingFollows, Told
    <2>11. UpTo(ring, v, Len(w))
        BY <1>1, <2>9, <2>10, UpToGrows
    <2> HIDE DEF v, w
    <2>12. Last(v) = c /\ Len(v) - 1 = Len(w)
        BY <2>9 DEF Last
    <2>13. Whole' = v
        BY <2>8 DEF v, w
    <2>14. \A x \in Written' : Whole' # <<>> /\ Last(Whole') = x
        BY <2>5, <2>9, <2>12, <2>13
    <2>15. Told' = Len(w)
        BY <2>5, <2>12, <2>13 DEF Told
    <2>16. UpTo(ring, Whole, Told)'
        BY <2>1, <2>11, <2>13, <2>15 DEF UpTo
    <2> QED
        BY <2>1, <2>10, <2>14, <2>15, <2>16 DEF RingFollows
<1>8. ASSUME NEW c \in Calls, WriteTears(c) \/ WriteFails(c) \/ Abandon(c) PROVE RingFollows'
    <2>1. ~Undisturbed'
        BY <1>1, <1>8 DEF WriteTears, WriteFails, Abandon, Moves, Undisturbed
    <2> QED
        BY <2>1 DEF RingFollows
<1>9. ASSUME NEW c \in Calls, Push(c) PROVE RingFollows'
    <2> DEFINE t == IF Len(ring) >= RingCap THEN Tail(ring) ELSE ring
               w == Whole
    <2>1. /\ place[c] = "written" /\ place'[c] = "done"
          /\ \A x \in Calls : x # c => place'[x] = place[x]
          /\ UNCHANGED <<current, rotated, data, serial, faults, restarts>>
          /\ ring' = Append(t, c)
        BY <1>1, <1>9 DEF Push, Moves, files
    <2> SUFFICES ASSUME Undisturbed' PROVE RingFollows'
        BY DEF RingFollows
    <2>2. Undisturbed
        BY <2>1 DEF Undisturbed
    <2>3. c \in Written /\ Written' = {}
        BY <1>2, <2>1, <2>2 DEF Written
    <2>4. /\ Whole' = w /\ w \in Seq(Calls) /\ w # <<>> /\ Last(w) = c
          /\ Told = Len(w) - 1 /\ Told' = Len(w) /\ Len(w) \in Nat /\ Len(w) > 0
        <3>1. Whole' = w
            BY <2>1 DEF Whole, ContentOf
        <3>2. w \in Seq(Calls) /\ w # <<>> /\ Last(w) = c
            BY <1>1, <1>2, <2>2, <2>3 DEF RingFollows
        <3>3. Len(w) \in Nat /\ Len(w) > 0
            BY <3>2, EmptySeq
        <3> QED
            BY <2>3, <3>1, <3>2, <3>3 DEF Told
    <2>5. UpTo(ring, w, Told) /\ (restarts = 0 => Len(ring) = RingCap \/ Len(ring) = Told)
        BY <1>1, <2>2 DEF RingFollows
    <2> HIDE DEF w
    <2>6. w[Told + 1] = c /\ Told \in Nat /\ Told < Len(w) /\ Told + 1 = Len(w)
        BY <2>4 DEF Last
    <2>7. /\ t \in Seq(Calls) /\ UpTo(t, w, Told) /\ Len(t) \in Nat
          /\ restarts = 0 => Len(t) + 1 = RingCap \/ Len(t) + 1 = Len(w)
        <3>1. CASE Len(ring) >= RingCap
            <4>1. ring # <<>> /\ Len(ring) = RingCap
                BY <1>1, <3>1, EmptySeq
            <4>2. t = Tail(ring)
                BY <3>1
            <4> HIDE DEF t
            <4>3. t \in Seq(Calls) /\ Len(t) = Len(ring) - 1 /\ UpTo(t, w, Told)
                BY <1>1, <2>4, <2>5, <2>6, <4>1, <4>2, UpToTail
            <4> QED
                BY <1>1, <4>1, <4>3
        <3>2. CASE Len(ring) < RingCap
            <4>1. t = ring
                BY <1>1, <3>2
            <4> HIDE DEF t
            <4> QED
                BY <1>1, <2>5, <2>6, <3>2, <4>1
        <3> QED
            BY <1>1, <3>1, <3>2
    <2> HIDE DEF t
    <2>8. UpTo(Append(t, c), w, Len(w)) /\ Len(Append(t, c)) = Len(t) + 1
        BY <2>4, <2>6, <2>7, UpToNext, AppendProperties
    <2> DEFINE a == Append(t, c)
    <2>9. UpTo(a, w, Len(w)) /\ Len(a) = Len(t) + 1 /\ ring' = a
        BY <2>1, <2>8
    <2> HIDE DEF a
    <2>10. UpTo(ring, Whole, Told)'
        BY <2>4, <2>9 DEF UpTo
    <2> QED
        BY <2>1, <2>3, <2>4, <2>7, <2>9, <2>10 DEF RingFollows
<1>10. CASE Restart
    <2>1. /\ \A x \in Calls : place'[x] = IF place[x] \in {"idle", "done"} THEN place[x] ELSE "gone"
          /\ ring' = Newest(ContentOf(current), RingCap) /\ restarts' = restarts + 1
          /\ UNCHANGED <<current, rotated, data, serial, faults>>
        BY <1>1, <1>10 DEF Restart, files
    <2> SUFFICES ASSUME Undisturbed' PROVE RingFollows'
        BY DEF RingFollows
    <2>2. \A x \in Calls : place[x] \in {"idle", "done"}
        BY <2>1 DEF Undisturbed
    <2>3. Undisturbed /\ Written' = {} /\ Whole' = Whole /\ restarts' # 0
        BY <1>1, <2>1, <2>2 DEF Undisturbed, Written, Whole, ContentOf
    <2> DEFINE b == ContentOf(current)
               a == ContentOf(rotated)
               r == Newest(b, RingCap)
    <2>4. a \in Seq(Calls) /\ b \in Seq(Calls) /\ b \in Contents /\ Len(b) \in Nat
        BY <1>2, <2>3, SeqMonotonic DEF Contents
    <2>5. Whole = a \o b /\ ring' = r
        BY <2>1 DEF Whole
    <2>6. /\ r \in Seq(Calls) /\ UpTo(r, b, Len(b)) /\ Len(r) = IF Len(b) > RingCap THEN RingCap ELSE Len(b)
        BY <1>1, <2>4, NewestOf
    <2> HIDE DEF a, b, r
    <2>7. Len(r) <= Len(b)
        BY <1>1, <2>4, <2>6
    <2>8. UpTo(r, a \o b, Len(a \o b))
        BY <2>4, <2>6, <2>7, UpToEnd
    <2>9. Told' = Len(Whole)
        BY <2>3 DEF Told
    <2> QED
        BY <2>3, <2>5, <2>8, <2>9 DEF RingFollows, UpTo
<1>11. CASE UNCHANGED vars
    BY <1>3, <1>11 DEF vars, files, RingFollows, Undisturbed, Written, Whole, ContentOf
<1> QED
    BY <1>4, <1>5, <1>6, <1>7, <1>8, <1>9, <1>10, <1>11 DEF Next, CallStep

\* What the ring holds, for any number of calls, restarts and faults, if a full file
\* has at least as many lines as a full ring: 64 MB, the default, against 1000.
THEOREM RingInvariant == ASSUME RingCap <= Cap PROVE Spec => []RingInv
<1>1. Init => RingInv
    <2> SUFFICES ASSUME Init PROVE RingInv
        OBVIOUS
    <2>1. RingOK
        BY EmptySeq, ConstantsAssumption DEF Init, RingOK
    <2>2. FilesApart /\ LinesAreWhole
        BY EmptySeq DEF Init, FilesApart, LinesAreWhole
    <2>3. Appending \cup Written = {}
        BY DEF Init, Appending, Written
    <2>4. OneAtATime
        BY <2>3 DEF Init, OneAtATime
    <2>5. Whole = <<>>
        <3>1. Whole = <<>> \o <<>> /\ <<>> \in Seq(Calls)
            BY EmptySeq DEF Init, Whole, ContentOf
        <3> QED
            BY <3>1, ConcatEmptySeq
    <2>6. RingFollows
        <3>1. ring = <<>> /\ Len(<<>>) = 0 /\ Told = 0
            BY <2>3, <2>5, EmptySeq DEF Init, Told
        <3>2. UpTo(ring, Whole, Told)
            BY <2>5, <3>1 DEF UpTo
        <3> QED
            BY <2>3, <3>1, <3>2 DEF RingFollows
    <2> QED
        BY <2>1, <2>2, <2>4, <2>6 DEF RingInv
<1>2. Inv /\ RingInv /\ [Next]_vars => RingInv'
    <2> SUFFICES ASSUME Inv, RingInv, [Next]_vars PROVE RingInv'
        OBVIOUS
    <2>1. FilesOK /\ Created /\ RingOK /\ FilesApart /\ LinesAreWhole /\ OneAtATime
        BY DEF Inv, RingInv
    <2>2. RingOK' /\ FilesApart' /\ LinesAreWhole' /\ OneAtATime'
        BY <2>1, RingType, ApartStep, LinesStep, SerialStep
    <2>3. RingFollows'
        BY <2>2, FollowsStep
    <2> QED
        BY <2>2, <2>3 DEF RingInv
<1> QED
    BY <1>1, <1>2, Invariant, PTL DEF Spec

\* The ring keeps to its capacity and shows the newest lines of the log, as long as
\* calls do not overlap, the disk takes every line and every caller stays.
THEOREM RingShowsLog == ASSUME RingCap <= Cap PROVE Spec => []RingIsLog
<1>1. Inv /\ RingInv => RingIsLog
    <2> SUFFICES ASSUME Inv, RingInv, serial, faults = 0, \A c \in Calls : place[c] \in {"idle", "done"}
                 PROVE  ring = Newest(Whole, Len(ring)) /\ (restarts = 0 => ring = Newest(Whole, RingCap))
        BY DEF RingInv, RingOK, RingIsLog
    <2>1. Undisturbed /\ Written = {}
        BY DEF Undisturbed, Written
    <2>2. UpTo(ring, Whole, Len(Whole)) /\ (restarts = 0 => Len(ring) = RingCap \/ Len(ring) = Len(Whole))
        BY <2>1 DEF RingInv, RingFollows, Told
    <2>3. Whole \in Seq(Calls) /\ ring \in Seq(Calls) /\ Len(ring) \in Nat /\ RingCap \in Nat /\ Len(ring) <= RingCap
        BY WholeIs, LenProperties, ConstantsAssumption DEF Inv, RingInv, RingOK, LinesAreWhole
    <2> QED
        BY <2>2, <2>3, EndIsNewest
<1> QED
    BY <1>1, RingInvariant, Invariant, PTL

-----------------------------------------------------------------------------
(* A walk through the pages.                                               *)

\* What is in order stays so when elements are left out at either end,
LEMMA InOrderPart ==
    ASSUME NEW t, NEW T, NEW r \in Seq(T), NEW s \in Seq(T), InOrder(t, s), NEW d \in Nat,
           \A i \in 1..Len(r) : i + d \in 1..Len(s) /\ r[i] = s[i + d]
    PROVE  InOrder(t, r)
<1>1. DOMAIN r = 1..Len(r) /\ DOMAIN s = 1..Len(s)
    BY LenProperties
<1> SUFFICES ASSUME NEW i \in 1..Len(r), NEW j \in 1..Len(r), i < j, r[i] \in Calls, r[j] \in Calls
             PROVE  r[i] # r[j] /\ t[r[i]] <= t[r[j]]
    BY <1>1 DEF InOrder
<1>2. i + d < j + d
    OBVIOUS
<1>3. i + d \in DOMAIN s /\ j + d \in DOMAIN s /\ r[i] = s[i + d] /\ r[j] = s[j + d]
    BY <1>1
<1> QED
    BY <1>2, <1>3 DEF InOrder

\* or anywhere,
LEMMA InOrderFilter ==
    ASSUME NEW t, NEW T, NEW s \in Seq(T), InOrder(t, s), NEW S
    PROVE  InOrder(t, Filter(s, S))
<1> DEFINE f == Filter(s, S)
           I == PositionsOf(s, S)
<1>0. /\ DOMAIN f = 1..Len(f)
      /\ \A k \in 1..Len(f) : Nth(I, k) \in I /\ f[k] = s[Nth(I, k)]
    BY FilterIs
<1>1. \A k, l \in 1..Len(f) : k < l => Nth(I, k) < Nth(I, l)
    BY FilterIs
<1>2. \A i \in I : i \in DOMAIN s
    BY DEF PositionsOf
<1> HIDE DEF f, I
<1> SUFFICES ASSUME NEW i \in 1..Len(f), NEW j \in 1..Len(f), i < j, f[i] \in Calls, f[j] \in Calls
             PROVE  f[i] # f[j] /\ t[f[i]] <= t[f[j]]
    BY <1>0 DEF InOrder, f
<1>3. /\ Nth(I, i) \in DOMAIN s /\ Nth(I, j) \in DOMAIN s /\ Nth(I, i) < Nth(I, j)
      /\ f[i] = s[Nth(I, i)] /\ f[j] = s[Nth(I, j)]
    BY <1>0, <1>1, <1>2
<1> QED
    BY <1>3 DEF InOrder

\* or when a line with a later time is written to its end.
LEMMA InOrderExtended ==
    ASSUME NEW t, NEW s \in Contents, InOrder(t, s), NEW l \in Calls \cup Parts,
           \A i \in DOMAIN s : s[i] \in Calls /\ l \in Calls => s[i] # l /\ t[s[i]] <= t[l]
    PROVE  InOrder(t, Extended(s, l))
<1> DEFINE e == Extended(s, l)
<1>1. /\ DOMAIN s = 1..Len(s) /\ Len(s) \in Nat
      /\ e \in Contents /\ DOMAIN e = 1..Len(e) /\ Len(e) \in Nat
    BY ExtendedType, LenProperties DEF Contents
<1>2. \A i \in DOMAIN e : \/ i \in DOMAIN s /\ e[i] = s[i]
                          \/ e[i] \in {Torn, Cut, Bad, Ruin}
                          \/ i = Len(s) + 1 /\ e[i] = l
    BY ExtendedElements
<1> HIDE DEF e
<1> SUFFICES ASSUME NEW i \in DOMAIN e, NEW j \in DOMAIN e, i < j, e[i] \in Calls, e[j] \in Calls
             PROVE  e[i] # e[j] /\ t[e[i]] <= t[e[j]]
    BY DEF InOrder, e
<1>3. {Torn, Cut, Bad, Ruin} \cap Calls = {}
    BY ConstantsAssumption
<1>4. i \in DOMAIN s /\ e[i] = s[i]
    <2>1. CASE i = Len(s) + 1
        <3>1. j # Len(s) + 1 /\ j \notin DOMAIN s
            BY <1>1, <2>1
        <3> QED
            BY <1>2, <1>3, <3>1
    <2> QED
        BY <1>2, <1>3, <2>1
<1>5. CASE j \in DOMAIN s /\ e[j] = s[j]
    BY <1>4, <1>5 DEF InOrder
<1>6. CASE e[j] = l
    BY <1>4, <1>6
<1> QED
    BY <1>2, <1>3, <1>5, <1>6

LEMMA InOrderAppend ==
    ASSUME NEW t, NEW s \in Seq(Calls), InOrder(t, s), NEW c \in Calls,
           \A i \in DOMAIN s : s[i] # c /\ t[s[i]] <= t[c]
    PROVE  InOrder(t, Append(s, c))
<1>1. s \in Contents
    BY SeqMonotonic DEF Contents
<1>2. Extended(s, c) = Append(s, c)
    BY ExtendedWhole
<1> QED
    BY <1>1, <1>2, InOrderExtended

LEMMA InOrderEmpty ==
    ASSUME NEW t
    PROVE  InOrder(t, <<>>)
BY DEF InOrder

\* Only the times of these lines matter.
LEMMA InOrderTimes ==
    ASSUME NEW t, NEW u, NEW s, InOrder(t, s), \A i \in DOMAIN s : s[i] \in Calls => u[s[i]] = t[s[i]]
    PROVE  InOrder(u, s)
BY DEF InOrder

\* A page is newest first, before the cursor; what is before it and not in the page
\* is not newer than the next cursor.
PageOf(page, log) ==
    /\ page \in Seq(Calls) /\ NewestFirst(ts, page)
    /\ \A x \in Range(page) : x \in Range(log) /\ ts[x] < cursor
    /\ view' = view \o page
    /\ \/ /\ walk' = "over" /\ cursor' = cursor /\ cuts' = cuts
          /\ \A x \in Range(log) : ts[x] < cursor => x \in Range(page)
       \/ /\ walk' = "between" /\ cursor' \in Nat /\ cursor' < cursor /\ cuts' = cuts \cup {cursor'}
          /\ \A x \in Range(page) : ts[x] >= cursor'
          /\ \A x \in Range(log) : ts[x] < cursor => x \in Range(page) \/ ts[x] <= cursor'

LEMMA GivenIsPage ==
    ASSUME ClockOK, NEW log \in Seq(Calls), InOrder(ts, log), cursor \in Nat, Given(log)
    PROVE  \E page : PageOf(page, log)
<1> DEFINE S == {c \in Calls : ts[c] < cursor}
           f == Filter(log, S)
           o == Reverse(f)
           n == Len(f)
<1>1. f \in Seq(Calls) /\ n \in Nat /\ DOMAIN f = 1..n /\ InOrder(ts, f)
    BY FilterIs, InOrderFilter
<1>2. \A k \in DOMAIN f : f[k] \in Range(log) /\ f[k] \in S
    <2> SUFFICES ASSUME NEW k \in DOMAIN f PROVE f[k] \in Range(log) /\ f[k] \in S
        OBVIOUS
    <2> HIDE DEF S
    <2>1. PICK i \in DOMAIN log : log[i] \in S /\ f[k] = log[i]
        BY FilterElements
    <2> QED
        BY <2>1, RangeIs
<1>3. \A x \in Range(log) : x \in S => \E k \in DOMAIN f : f[k] = x
    <2> SUFFICES ASSUME NEW x \in Range(log), x \in S PROVE \E k \in DOMAIN f : f[k] = x
        OBVIOUS
    <2> HIDE DEF S
    <2>1. PICK i \in DOMAIN log : x = log[i]
        BY RangeIs
    <2> QED
        BY <2>1, FilterElements
<1>4. o = [i \in 1..n |-> f[n - i + 1]]
    BY DEF Reverse
<1> HIDE DEF f, n
<1>5. \A i \in 1..n : n - i + 1 \in 1..n /\ n - (n - i + 1) + 1 = i
    BY <1>1
<1>6. \A i \in 1..n : f[i] \in Calls
    BY <1>1, ElementOfSeq DEF n
<1>7. o \in Seq(Calls) /\ Len(o) = n /\ DOMAIN o = 1..n /\ \A i \in 1..n : o[i] = f[n - i + 1]
    <2> HIDE DEF o
    <2>1. \A i \in 1..n : f[n - i + 1] \in Calls
        BY <1>5, <1>6
    <2>2. o \in Seq(Calls)
        BY <1>1, <1>4, <2>1, IsASeq
    <2> QED
        BY <1>1, <1>4, <2>2, LenProperties
<1> HIDE DEF o
<1>8. \A x : x \in Range(o) <=> x \in Range(log) /\ x \in S
    <2>1. ASSUME NEW x \in Range(o) PROVE x \in Range(log) /\ x \in S
        <3>1. PICK i \in 1..n : x = o[i]
            BY <1>7, RangeIs
        <3> QED
            BY <1>1, <1>2, <1>5, <1>7, <3>1
    <2>2. ASSUME NEW x \in Range(log), x \in S PROVE x \in Range(o)
        <3>1. PICK k \in 1..n : f[k] = x
            BY <1>1, <1>3, <2>2
        <3>2. o[n - k + 1] = x /\ n - k + 1 \in 1..n
            BY <1>5, <1>7, <3>1
        <3> QED
            BY <1>7, <3>2, RangeIs
    <2> QED
        BY <2>1, <2>2
<1>9. \A i, j \in 1..n : i < j => o[i] # o[j] /\ ts[o[i]] >= ts[o[j]]
    <2> SUFFICES ASSUME NEW i \in 1..n, NEW j \in 1..n, i < j PROVE o[i] # o[j] /\ ts[o[i]] >= ts[o[j]]
        OBVIOUS
    <2>1. n - j + 1 < n - i + 1 /\ n - i + 1 \in 1..n /\ n - j + 1 \in 1..n
        BY <1>1
    <2>2. o[i] = f[n - i + 1] /\ o[j] = f[n - j + 1] /\ o[i] \in Calls /\ o[j] \in Calls
        BY <1>6, <1>7, <2>1
    <2>3. f[n - j + 1] # f[n - i + 1] /\ ts[f[n - j + 1]] <= ts[f[n - i + 1]]
        BY <1>1, <2>1, <2>2 DEF InOrder
    <2>4. ts[o[i]] \in Nat /\ ts[o[j]] \in Nat
        BY <2>2 DEF ClockOK
    <2> QED
        BY <2>2, <2>3, <2>4
<1>10. CASE ~(Len(o) > PageSize)
    <2>1. view' = view \o o /\ walk' = "over" /\ cursor' = cursor /\ cuts' = cuts
        BY <1>10 DEF Given, o, f
    <2>2. NewestFirst(ts, o)
        BY <1>7, <1>9 DEF NewestFirst
    <2>3. \A x \in Range(log) : ts[x] < cursor => x \in S
        BY RangeIs
    <2> QED
        BY <1>7, <1>8, <2>1, <2>2, <2>3 DEF PageOf
<1>11. CASE Len(o) > PageSize
    <2> DEFINE m == PageSize
               page == SubSeq(o, 1, m)
    <2>1. m \in Nat \ {0} /\ m < n
        BY <1>1, <1>7, <1>11, PagesAssumption
    <2>2. /\ view' = view \o page /\ walk' = "between"
          /\ cursor' = ts[Last(page)] /\ cuts' = cuts \cup {cursor'}
        BY <1>11 DEF Given, o, f
    <2>3. page \in Seq(Calls) /\ Len(page) = m /\ DOMAIN page = 1..m /\ \A i \in 1..m : page[i] = o[i]
        <3>1. \A i \in 1..m : o[i] \in Calls
            BY <1>1, <1>7, <2>1, ElementOfSeq
        <3> HIDE DEF page, m
        <3>2. 1 \in Int /\ m \in Int
            BY <2>1
        <3>3. /\ page \in Seq(Calls) /\ Len(page) = IF 1 <= m THEN m - 1 + 1 ELSE 0
              /\ \A i \in 1..(m - 1 + 1) : page[i] = o[1 + i - 1]
            BY <3>1, <3>2, SubSeqProperties DEF page
        <3>4. m - 1 + 1 = m /\ 1 <= m /\ \A i \in 1..m : 1 + i - 1 = i
            BY <2>1
        <3> QED
            BY <3>3, <3>4, LenProperties
    <2> HIDE DEF page, m
    <2>4. Last(page) = o[m] /\ m \in 1..n /\ \A i \in 1..m : i \in 1..n
        BY <1>1, <2>1, <2>3 DEF Last
    <2>5. \A i \in 1..n : o[i] \in Range(log) /\ o[i] \in S /\ ts[o[i]] \in Nat
        <3>1. \A i \in 1..n : o[i] \in Range(o)
            BY <1>7, RangeIs
        <3> QED
            BY <1>8, <3>1 DEF ClockOK
    <2>6. cursor' = ts[o[m]] /\ cursor' \in Nat /\ cursor' < cursor
        BY <2>2, <2>4, <2>5
    <2>7. NewestFirst(ts, page)
        BY <1>9, <2>3, <2>4 DEF NewestFirst
    <2>8. \A x \in Range(page) : x \in Range(log) /\ ts[x] < cursor /\ ts[x] >= cursor'
        <3> SUFFICES ASSUME NEW i \in 1..m
                     PROVE  o[i] \in Range(log) /\ ts[o[i]] < cursor /\ ts[o[i]] >= cursor'
            BY <2>3, RangeIs
        <3>1. i = m \/ i < m
            BY <2>1
        <3> QED
            BY <1>9, <2>4, <2>5, <2>6, <3>1
    <2>9. \A x \in Range(log) : ts[x] < cursor => x \in Range(page) \/ ts[x] <= cursor'
        <3> SUFFICES ASSUME NEW x \in Range(log), ts[x] < cursor, x \notin Range(page)
                     PROVE  ts[x] <= cursor'
            OBVIOUS
        <3>1. x \in Range(o)
            BY <1>8, RangeIs
        <3>2. PICK i \in 1..n : x = o[i]
            BY <1>7, <3>1, RangeIs
        <3>3. i \notin 1..m
            BY <2>3, <3>2, RangeIs
        <3>4. m < i
            BY <1>1, <2>1, <3>3
        <3> QED
            BY <1>9, <2>4, <2>5, <2>6, <3>2, <3>4
    <2> QED
        BY <2>2, <2>3, <2>6, <2>7, <2>8, <2>9 DEF PageOf
<1> QED
    BY <1>10, <1>11

\* An entry gets its time before its call begins, and keeps it.
LEMMA TimeStep ==
    ASSUME FilesOK, ClockOK, [LogsNext]_logsVars
    PROVE  /\ ClockOK' /\ [Next]_vars
           /\ \A c \in Calls : place[c] # "idle" \/ c \in stamped => ts'[c] = ts[c]
<1>1. CASE Logged
    BY <1>1 DEF Logged, ClockOK
<1>2. CASE Second
    BY <1>2, PagesAssumption DEF Second, ClockOK, vars, files
<1>3. ASSUME NEW c \in Calls, Stamp(c)
      PROVE  /\ ClockOK' /\ UNCHANGED vars
             /\ \A d \in Calls : place[d] # "idle" \/ d \in stamped => ts'[d] = ts[d]
    BY <1>3 DEF Stamp, ClockOK, vars, files
<1>4. CASE ReadLog \/ ReadRing \/ UNCHANGED logsVars
    <2>1. UNCHANGED <<vars, clock>>
        BY <1>4 DEF ReadLog, ReadRing, logsVars
    <2> QED
        BY <2>1 DEF ClockOK, vars, files, clock
<1> QED
    BY <1>1, <1>2, <1>3, <1>4 DEF LogsNext

\* No call comes back.
LEMMA PlaceStep ==
    ASSUME FilesOK, [Next]_vars
    PROVE  /\ \A c \in Calls : place[c] # "idle" => place'[c] # "idle"
           /\ Past \subseteq Past' /\ Past \ Written \subseteq (Past \ Written)'
<1>1. ASSUME NEW c \in Calls, CallStep(c)
      PROVE  /\ place' \in [Calls -> Places] /\ \A d \in Calls : d # c => place'[d] = place[d]
             /\ place'[c] # "idle" /\ (place[c] \in {"written", "done", "gone"} => place'[c] \in {"done", "gone"})
    BY <1>1, ZenonT(60) DEF CallStep, Stat, Rename, Open, Write, WriteTears, WriteFails, Push,
       Abandon, Moves, FilesOK, Places
<1>2. ASSUME NEW c \in Calls, CallStep(c)
      PROVE  /\ \A d \in Calls : place[d] # "idle" => place'[d] # "idle"
             /\ Past \subseteq Past' /\ Past \ Written \subseteq (Past \ Written)'
    BY <1>1, <1>2 DEF Past, Written
<1>3. CASE Restart
    BY <1>3 DEF Restart, Past, Written, FilesOK
<1>4. CASE UNCHANGED vars
    BY <1>4 DEF vars, Past, Written
<1> QED
    BY <1>2, <1>3, <1>4 DEF Next

\* What can be read of a file is in it.
LEMMA ReadableElements ==
    ASSUME NEW s \in Contents
    PROVE  /\ \A k \in DOMAIN Readable(s) : \E i \in DOMAIN s : s[i] \in Calls /\ Readable(s)[k] = s[i]
           /\ \A x : x \in Range(Readable(s)) <=> Text(s) /\ x \in Calls /\ x \in Range(s)
<1>1. CASE Text(s)
    <2> DEFINE f == Filter(s, Calls)
    <2>1. Readable(s) = f
        BY <1>1 DEF Readable
    <2>2. /\ \A k \in DOMAIN f : \E i \in DOMAIN s : s[i] \in Calls /\ f[k] = s[i]
          /\ \A i \in DOMAIN s : s[i] \in Calls => \E k \in DOMAIN f : f[k] = s[i]
        BY FilterElements DEF Contents
    <2> HIDE DEF f
    <2>3. /\ \A x : x \in Range(f) <=> \E k \in DOMAIN f : x = f[k]
          /\ \A x : x \in Range(s) <=> \E i \in DOMAIN s : x = s[i]
        BY DEF Range
    <2>4. \A x : x \in Range(f) <=> x \in Range(s) /\ x \in Calls
        BY <2>2, <2>3
    <2> QED
        BY <1>1, <2>1, <2>2, <2>4
<1>2. CASE ~Text(s)
    <2>1. Readable(s) = <<>>
        BY <1>2 DEF Readable
    <2>2. DOMAIN Readable(s) = {} /\ Range(Readable(s)) = {}
        BY <2>1 DEF Range
    <2> QED
        BY <1>2, <2>2
<1> QED
    BY <1>1, <1>2

\* What is in the file was written; what is in the ring was pushed, or seeded.
LEMMA PastStep ==
    ASSUME FilesOK, RingOK, LinesArePast, [Next]_vars
    PROVE  LinesArePast'
<1>1. Past \subseteq Past' /\ Past \ Written \subseteq (Past \ Written)'
    BY PlaceStep
<1>2. ring \in Seq(Calls) /\ DOMAIN ring = 1..Len(ring) /\ Len(ring) \in Nat
    BY LenProperties DEF RingOK
<1>3. ASSUME data' = data, ring' = ring PROVE LinesArePast'
    BY <1>1, <1>3 DEF LinesArePast
<1>4. ASSUME NEW c \in Calls, Write(c) \/ WriteTears(c) PROVE LinesArePast'
    <2>1. PICK l \in Calls \cup Parts :
            /\ data' = [data EXCEPT ![handle[c]] = Extended(@, l)] /\ ring' = ring
            /\ l \in Calls => l = c
        <3>1. CASE Write(c)
            BY <3>1 DEF Write
        <3>2. CASE WriteTears(c)
            BY <3>2, ConstantsAssumption DEF WriteTears, Parts
        <3> QED
            BY <1>4, <3>1, <3>2
    <2>2. c \in Past'
        BY <1>4 DEF Write, WriteTears, Moves, Past, FilesOK
    <2>3. ASSUME NEW f \in Calls, NEW i \in DOMAIN data'[f], data'[f][i] \in Calls
          PROVE  data'[f][i] \in Past'
        <3>1. CASE f = handle[c]
            <4> DEFINE s == data[f]
            <4>1. s \in Contents /\ data'[f] = Extended(s, l)
                BY <2>1, <3>1 DEF FilesOK, Contents
            <4>2. \A k \in DOMAIN s : s[k] \in Calls => s[k] \in Past
                BY DEF LinesArePast
            <4> HIDE DEF s
            <4>3. \/ i \in DOMAIN s /\ data'[f][i] = s[i]
                  \/ data'[f][i] \in {Torn, Cut, Bad, Ruin}
                  \/ data'[f][i] = l
                BY <2>3, <4>1, ExtendedElements
            <4> QED
                BY <1>1, <2>1, <2>2, <2>3, <4>2, <4>3, ConstantsAssumption
        <3>2. CASE f # handle[c]
            <4>1. data'[f] = data[f]
                BY <2>1, <3>2 DEF FilesOK
            <4> QED
                BY <1>1, <2>3, <4>1 DEF LinesArePast
        <3> QED
            BY <3>1, <3>2
    <2>4. \A i \in DOMAIN ring' : ring'[i] \in (Past \ Written)'
        BY <1>1, <2>1 DEF LinesArePast
    <2> QED
        BY <2>3, <2>4 DEF LinesArePast
<1>5. ASSUME NEW c \in Calls, Push(c) PROVE LinesArePast'
    <2> DEFINE r == IF Len(ring) >= RingCap THEN Tail(ring) ELSE ring
    <2>1. data' = data /\ ring' = Append(r, c) /\ c \in (Past \ Written)'
        BY <1>5 DEF Push, Moves, files, FilesOK, Past, Written
    <2>2. r \in Seq(Calls) /\ \A i \in DOMAIN r : \E j \in DOMAIN ring : r[i] = ring[j]
        <3>1. CASE Len(ring) >= RingCap
            <4>1. ring # <<>>
                BY <1>2, <3>1, EmptySeq, ConstantsAssumption
            <4>2. /\ Tail(ring) \in Seq(Calls) /\ Len(Tail(ring)) = Len(ring) - 1
                  /\ \A i \in 1..Len(Tail(ring)) : Tail(ring)[i] = ring[i + 1]
                BY <1>2, <4>1, HeadTailProperties
            <4>3. DOMAIN Tail(ring) = 1..Len(Tail(ring))
                BY <4>2, LenProperties
            <4>4. \A i \in 1..Len(Tail(ring)) : i + 1 \in DOMAIN ring
                BY <1>2, <4>2
            <4>5. r = Tail(ring)
                BY <3>1
            <4> QED
                BY <4>2, <4>3, <4>4, <4>5
        <3>2. CASE ~(Len(ring) >= RingCap)
            BY <1>2, <3>2
        <3> QED
            BY <3>1, <3>2, SMTT(30)
    <2> HIDE DEF r
    <2>3. /\ DOMAIN Append(r, c) = 1..(Len(r) + 1) /\ DOMAIN r = 1..Len(r) /\ Len(r) \in Nat
          /\ Append(r, c)[Len(r) + 1] = c /\ \A i \in 1..Len(r) : Append(r, c)[i] = r[i]
        BY <2>2, AppendProperties, LenProperties
    <2>4. ASSUME NEW i \in DOMAIN ring' PROVE ring'[i] \in (Past \ Written)'
        <3>1. i \in 1..Len(r) \/ i = Len(r) + 1
            BY <2>1, <2>3
        <3>2. CASE i \in 1..Len(r)
            <4>1. PICK j \in DOMAIN ring : ring'[i] = ring[j]
                BY <2>1, <2>2, <2>3, <3>2
            <4> QED
                BY <1>1, <4>1 DEF LinesArePast
        <3>3. CASE i = Len(r) + 1
            BY <2>1, <2>3, <3>3
        <3> QED
            BY <3>1, <3>2, <3>3
    <2>5. \A f \in Calls : \A i \in DOMAIN data'[f] : data'[f][i] \in Calls => data'[f][i] \in Past'
        BY <1>1, <2>1 DEF LinesArePast
    <2> QED
        BY <2>4, <2>5 DEF LinesArePast
<1>6. ASSUME Restart PROVE LinesArePast'
    <2> DEFINE s == ContentOf(current)
               ls == Readable(s)
               r == Newest(s, RingCap)
    <2>1. data' = data /\ ring' = r /\ Past \subseteq (Past \ Written)'
        <3>1. data' = data /\ ring' = r
            BY <1>6 DEF Restart, files
        <3>2. Past \subseteq (Past \ Written)'
            BY <1>6 DEF Restart, Past, Written, FilesOK
        <3> QED
            BY <1>1, <3>1, <3>2
    <2>2. s \in Contents /\ \A i \in DOMAIN s : s[i] \in Calls => s[i] \in Past
        BY EmptySeq DEF ContentOf, FilesOK, Contents, LinesArePast
    <2> HIDE DEF s
    <2>3. /\ r \in Seq(Calls) /\ ls \in Seq(Calls) /\ UpTo(r, ls, Len(ls))
        BY <2>2, NewestOf, ConstantsAssumption
    <2>4. \A k \in DOMAIN ls : \E i \in DOMAIN s : s[i] \in Calls /\ ls[k] = s[i]
        BY <2>2, ReadableElements
    <2> HIDE DEF r, ls
    <2>5. /\ DOMAIN r = 1..Len(r) /\ Len(r) \in Nat /\ DOMAIN ls = 1..Len(ls) /\ Len(ls) \in Nat
        BY <2>3, LenProperties
    <2>6. ASSUME NEW i \in DOMAIN ring' PROVE ring'[i] \in (Past \ Written)'
        <3>1. i \in 1..Len(r) /\ r[i] = ls[Len(ls) - Len(r) + i] /\ Len(r) <= Len(ls)
            BY <2>1, <2>3, <2>5 DEF UpTo
        <3>2. Len(ls) - Len(r) + i \in DOMAIN ls
            BY <2>5, <3>1
        <3>3. r[i] \in Past
            BY <2>2, <2>4, <3>1, <3>2
        <3> QED
            BY <2>1, <3>3
    <2>7. \A f \in Calls : \A i \in DOMAIN data'[f] : data'[f][i] \in Calls => data'[f][i] \in Past'
        BY <1>1, <2>1 DEF LinesArePast
    <2> QED
        BY <2>6, <2>7 DEF LinesArePast
<1>7. ASSUME NEW c \in Calls, Stat(c) \/ Rename(c) \/ Open(c) \/ WriteFails(c) \/ Abandon(c)
      PROVE  LinesArePast'
    BY <1>3, <1>7 DEF Stat, Rename, Open, WriteFails, Abandon, files
<1>8. CASE UNCHANGED vars
    BY <1>3, <1>8 DEF vars, files
<1> QED
    BY <1>4, <1>5, <1>6, <1>7, <1>8 DEF Next, CallStep

-----------------------------------------------------------------------------
(* The files as one log.                                                   *)

\* What is behind the beginning of a sequence.
LEMMA EndOfConcat ==
    ASSUME NEW T, NEW a \in Seq(T), NEW b \in Seq(T)
    PROVE  SubSeq(a \o b, Len(a) + 1, Len(a \o b)) = b
<1> DEFINE u == a \o b
           e == SubSeq(u, Len(a) + 1, Len(u))
<1>1. /\ u \in Seq(T) /\ Len(u) = Len(a) + Len(b)
      /\ \A i \in 1..(Len(a) + Len(b)) : u[i] = IF i <= Len(a) THEN a[i] ELSE b[i - Len(a)]
    BY ConcatProperties
<1>2. Len(a) \in Nat /\ Len(b) \in Nat /\ Len(u) \in Nat
    BY <1>1, LenProperties
<1> HIDE DEF u
<1>3. \A i \in (Len(a) + 1)..Len(u) : i \in 1..Len(u)
    BY <1>2
<1>4. \A i \in (Len(a) + 1)..Len(u) : u[i] \in T
    BY <1>1, <1>3, ElementOfSeq
<1>5. Len(a) + 1 \in Int /\ Len(u) \in Int
    BY <1>2
<1>6. /\ e \in Seq(T)
      /\ Len(e) = IF Len(a) + 1 <= Len(u) THEN Len(u) - (Len(a) + 1) + 1 ELSE 0
      /\ \A i \in 1..(Len(u) - (Len(a) + 1) + 1) : e[i] = u[Len(a) + 1 + i - 1]
    BY <1>4, <1>5, SubSeqProperties
<1> HIDE DEF e
<1>7. Len(e) = Len(b)
    BY <1>1, <1>2, <1>6
<1>8. ASSUME NEW i \in 1..Len(b) PROVE e[i] = b[i]
    <2>1. /\ i \in 1..(Len(u) - (Len(a) + 1) + 1) /\ Len(a) + 1 + i - 1 = Len(a) + i
          /\ Len(a) + i \in 1..(Len(a) + Len(b)) /\ ~(Len(a) + i <= Len(a)) /\ (Len(a) + i) - Len(a) = i
        BY <1>1, <1>2
    <2> QED
        BY <1>1, <1>6, <2>1
<1> QED
    BY <1>6, <1>7, <1>8, SeqEqual DEF e, u

\* The call that writes has no line yet.
LEMMA LineIsNew ==
    ASSUME FilesOK, LinesArePast, \A f \in Calls : data[f] \in Seq(Calls), NEW c \in Calls, place[c] = "open"
    PROVE  \A i \in DOMAIN Whole : Whole[i] # c
<1> DEFINE a == ContentOf(rotated)
           b == ContentOf(current)
<1>1. a \in Seq(Calls) /\ b \in Seq(Calls)
    BY WholeIs
<1>2. (\A i \in DOMAIN a : a[i] \in Past) /\ (\A i \in DOMAIN b : b[i] \in Past)
    <2>1. \A f \in Calls : \A i \in DOMAIN data[f] : data[f][i] \in Calls
        BY LenProperties, ElementOfSeq
    <2> QED
        BY <2>1, EmptySeq DEF ContentOf, FilesOK, LinesArePast
<1>3. c \notin Past
    BY DEF Past
<1>4. Whole = a \o b
    BY DEF Whole
<1> HIDE DEF a, b
<1>5. /\ Len(a \o b) = Len(a) + Len(b) /\ a \o b \in Seq(Calls)
      /\ \A i \in 1..(Len(a) + Len(b)) : (a \o b)[i] = IF i <= Len(a) THEN a[i] ELSE b[i - Len(a)]
    BY <1>1, ConcatProperties
<1>6. /\ Len(a) \in Nat /\ Len(b) \in Nat /\ DOMAIN a = 1..Len(a) /\ DOMAIN b = 1..Len(b)
      /\ DOMAIN (a \o b) = 1..Len(a \o b)
    BY <1>1, <1>5, LenProperties
<1>7. ASSUME NEW i \in DOMAIN (a \o b) PROVE (a \o b)[i] \in Past
    <2>1. i \in 1..(Len(a) + Len(b))
        BY <1>5, <1>6
    <2>2. CASE i <= Len(a)
        <3>1. i \in DOMAIN a
            BY <1>6, <2>1, <2>2
        <3> QED
            BY <1>2, <1>5, <2>1, <2>2, <3>1
    <2>3. CASE ~(i <= Len(a))
        <3>1. i - Len(a) \in DOMAIN b
            BY <1>6, <2>1, <2>3
        <3> QED
            BY <1>2, <1>5, <2>1, <2>3, <3>1
    <2> QED
        BY <2>2, <2>3
<1> QED
    BY <1>3, <1>4, <1>7

\* A line that is written to the file is the last of the log.
LEMMA WholeGrows ==
    ASSUME FilesOK, FilesApart, \A f \in Calls : data[f] \in Seq(Calls),
           NEW c \in Calls, Write(c), handle[c] = current
    PROVE  Whole' = Append(Whole, c)
<1> DEFINE a == ContentOf(rotated)
           b == ContentOf(current)
<1>1. /\ UNCHANGED <<current, rotated>> /\ current \in Calls /\ current # None /\ current # rotated
      /\ data' = [data EXCEPT ![current] = Extended(data[current], c)]
    BY ConstantsAssumption DEF Write, FilesOK, FilesApart
<1>2. data'[current] = Append(data[current], c) /\ \A f \in Calls : f # current => data'[f] = data[f]
    <2>1. Extended(data[current], c) = Append(data[current], c)
        BY <1>1, ExtendedWhole
    <2>2. data \in [Calls -> Seq(Calls \cup {Torn, Cut, Bad, Ruin})]
        BY DEF FilesOK
    <2> QED
        BY <1>1, <2>1, <2>2
<1>3. ContentOf(current)' = Append(b, c) /\ ContentOf(rotated)' = a
    <2>1. rotated = None \/ rotated \in Calls
        BY DEF FilesOK
    <2> QED
        BY <1>1, <1>2, <2>1 DEF ContentOf
<1>4. a \in Seq(Calls) /\ b \in Seq(Calls) /\ <<c>> \in Seq(Calls)
    BY WholeIs
<1>5. Whole' = a \o Append(b, c) /\ Whole = a \o b
    BY <1>3 DEF Whole
<1> HIDE DEF a, b
<1>6. Append(b, c) = b \o <<c>> /\ Append(a \o b, c) = (a \o b) \o <<c>>
    BY <1>4, AppendIsConcat, ConcatProperties
<1>7. (a \o b) \o <<c>> = a \o (b \o <<c>>)
    BY <1>4, ConcatAssociative
<1> QED
    BY <1>5, <1>6, <1>7

\* As long as appends do not overlap and no write fails, each step adds a line, forgets
\* the rotated file, or changes nothing of the log.
LEMMA LogStep ==
    ASSUME Inv, FilesApart, LinesAreWhole, LinesArePast, [Next]_vars
    PROVE  [Log!Next]_<<Whole, overlapped = {} /\ faults = 0>>
<1> DEFINE calm == overlapped = {} /\ faults = 0
<1>1. CASE ~calm'
    BY <1>1 DEF Log!Next, Log!Disturb
<1> SUFFICES ASSUME calm' PROVE [Log!Next]_<<Whole, calm>>
    BY <1>1
<1>2. /\ FilesOK /\ Created /\ SeesFile /\ faults \in Nat /\ overlapped \in SUBSET Calls
      /\ current \in Calls \cup {None} /\ None \notin Calls /\ Cap \in Nat
    BY ConstantsAssumption DEF Inv, FilesOK
<1>3. calm
    BY <1>2 DEF Next, CallStep, vars, Stat, Rename, Open, Write, WriteTears, WriteFails, Push,
       Abandon, Restart, Starts
<1>4. /\ \A f \in Calls : data[f] \in Seq(Calls)
      /\ ContentOf(current) \in Seq(Calls) /\ ContentOf(rotated) \in Seq(Calls)
      /\ Whole \in Seq(Calls) /\ Len(Whole) \in Nat /\ Len(ContentOf(current)) \in Nat
    BY <1>2, <1>3, WholeIs DEF LinesAreWhole
<1>5. ASSUME Whole' = Whole PROVE UNCHANGED <<Whole, calm>>
    BY <1>3, <1>5
<1>6. ASSUME NEW c \in Calls, Stat(c) \/ Push(c) \/ Abandon(c) PROVE UNCHANGED <<Whole, calm>>
    <2>1. Whole' = Whole
        BY <1>6 DEF Stat, Push, Abandon, files, Whole, ContentOf
    <2> QED
        BY <1>5, <2>1
<1>7. ASSUME NEW c \in Calls, Rename(c) PROVE Log!Next
    <2> DEFINE a == ContentOf(rotated)
               b == ContentOf(current)
    <2>1. c \in Appending \ overlapped /\ place[c] = "full"
        BY <1>3, <1>7 DEF Rename, Appending
    <2>2. current # None /\ Len(b) >= Cap
        BY <1>2, <2>1 DEF SeesFile
    <2>3. rotated' = current /\ current' = None /\ data' = data
        BY <1>7, <2>2 DEF Rename
    <2>4. Whole' = b
        <3>1. Whole' = b \o <<>>
            BY <2>2, <2>3 DEF Whole, ContentOf
        <3> QED
            BY <1>4, <3>1, ConcatEmptySeq
    <2>5. Whole = a \o b /\ a \in Seq(Calls) /\ b \in Seq(Calls)
        BY <1>4 DEF Whole
    <2> HIDE DEF a, b
    <2>6. SubSeq(Whole, Len(a) + 1, Len(Whole)) = b
        BY <2>5, EndOfConcat
    <2>7. Len(Whole) = Len(a) + Len(b) /\ Len(a) \in Nat /\ Len(b) \in Nat
        BY <2>5, ConcatProperties, LenProperties
    <2>8. Len(a) \in 0..Len(Whole) /\ Cap <= Len(Whole) - Len(a)
        BY <1>2, <2>2, <2>7
    <2>9. Log!Forget(Len(a))
        BY <1>3, <2>4, <2>6, <2>8 DEF Log!Forget
    <2> QED
        BY <2>8, <2>9 DEF Log!Next
<1>8. ASSUME NEW c \in Calls, Open(c) PROVE UNCHANGED <<Whole, calm>>
    <2>1. /\ UNCHANGED <<rotated, data>> /\ place[c] = "fits"
          /\ current' = IF current = None THEN c ELSE current
        BY <1>8 DEF Open
    <2>2. data[c] = <<>>
        BY <1>2, <2>1 DEF Created
    <2>3. Whole' = Whole
        BY <1>2, <2>1, <2>2 DEF Whole, ContentOf
    <2> QED
        BY <1>5, <2>3
<1>9. ASSUME NEW c \in Calls, Write(c) PROVE Log!Next
    <2>1. c \in Appending \ overlapped /\ place[c] = "open"
        BY <1>3, <1>9 DEF Write, Appending
    <2>2. handle[c] = current
        BY <1>2, <2>1 DEF SeesFile
    <2>3. Whole' = Append(Whole, c)
        BY <1>2, <1>4, <1>9, <2>2, WholeGrows
    <2>4. \A i \in DOMAIN Whole : Whole[i] # c
        BY <1>2, <1>4, <2>1, LineIsNew
    <2>5. Log!Add(c)
        BY <1>3, <2>3, <2>4 DEF Log!Add
    <2> QED
        BY <2>5 DEF Log!Next
<1>10. ASSUME NEW c \in Calls, WriteTears(c) \/ WriteFails(c) PROVE FALSE
    BY <1>2, <1>10 DEF WriteTears, WriteFails
<1>11. CASE Restart \/ UNCHANGED vars
    <2>1. Whole' = Whole
        BY <1>11 DEF Restart, vars, files, Whole, ContentOf
    <2> QED
        BY <1>5, <2>1
<1> QED
    BY <1>6, <1>7, <1>8, <1>9, <1>10, <1>11 DEF Next, CallStep

\* The two files implement AppendLog: as long as no two appends overlap and no write
\* fails, the log grows at its end and forgets its oldest, and a full file stays.
THEOREM LogRefines == Spec => LogSpec
<1> DEFINE I == RingOK /\ FilesApart /\ LinesAreWhole /\ LinesArePast
<1>1. ASSUME Init PROVE I /\ Log!Init
    <2>1. RingOK /\ LinesArePast
        BY <1>1, EmptySeq, ConstantsAssumption DEF Init, RingOK, LinesArePast
    <2>2. FilesApart /\ LinesAreWhole
        BY <1>1, EmptySeq DEF Init, FilesApart, LinesAreWhole
    <2>3. Whole = <<>>
        <3>1. Whole = <<>> \o <<>> /\ <<>> \in Seq(Calls)
            BY <1>1, EmptySeq DEF Init, Whole, ContentOf
        <3> QED
            BY <3>1, ConcatEmptySeq
    <2>4. Log!Init
        BY <1>1, <2>3 DEF Init, Log!Init
    <2> QED
        BY <2>1, <2>2, <2>4
<1>2. Inv /\ I /\ [Next]_vars => I'
    <2> SUFFICES ASSUME Inv, I, [Next]_vars PROVE I'
        OBVIOUS
    <2>1. FilesOK /\ Created
        BY DEF Inv
    <2> QED
        BY <2>1, RingType, ApartStep, LinesStep, PastStep
<1>3. Inv /\ I /\ [Next]_vars => [Log!Next]_<<Whole, overlapped = {} /\ faults = 0>>
    BY LogStep
<1> QED
    BY <1>1, <1>2, <1>3, Invariant, PTL DEF Spec, LogSpec, Log!Spec

-----------------------------------------------------------------------------
(* The order of the log, and what a walk over its pages shows.             *)

\* A file gets no line that is not the one of a call at its write, and does not
\* become text.
LEMMA OldLines ==
    ASSUME FilesOK, Created, [Next]_vars, NEW x \in Past, x \in Range(ContentOf(current)')
    PROVE  x \in Range(ContentOf(current)) /\ (Text(ContentOf(current)') => Text(ContentOf(current)))
<1> DEFINE s == ContentOf(current)
           u == ContentOf(current)'
<1>1. s \in Contents
    BY EmptySeq DEF ContentOf, FilesOK, Contents
<1>2. x \in Calls /\ x \notin {Torn, Cut, Bad, Ruin} /\ place[x] \in {"written", "done", "gone"}
    BY ConstantsAssumption DEF Past
<1>3. u # <<>>
    BY DEF Range
<1>4. CASE current' = current /\ data' = data
    BY <1>4 DEF ContentOf
<1>5. ASSUME NEW c \in Calls, Rename(c) PROVE u = s \/ u = <<>>
    BY <1>5 DEF Rename, ContentOf
<1>6. ASSUME NEW c \in Calls, Open(c) PROVE u = s \/ u = <<>>
    <2>1. current = None => current' = c /\ data'[c] = <<>> /\ c # None
        BY <1>6, ConstantsAssumption DEF Open, Created
    <2>2. current # None => current' = current /\ data' = data
        BY <1>6 DEF Open
    <2> QED
        BY <2>1, <2>2 DEF ContentOf
<1>7. ASSUME NEW c \in Calls, Write(c) \/ WriteTears(c) PROVE x \in Range(s) /\ (Text(u) => Text(s))
    <2>1. PICK l \in Calls \cup Parts :
            /\ data' = [data EXCEPT ![handle[c]] = Extended(@, l)] /\ current' = current
            /\ place[c] = "open"
            /\ l \in Calls => l = c
        <3>1. CASE Write(c)
            BY <3>1 DEF Write
        <3>2. CASE WriteTears(c)
            BY <3>2, ConstantsAssumption DEF WriteTears, Parts
        <3> QED
            BY <1>7, <3>1, <3>2
    <2>2. CASE current = None \/ handle[c] # current
        <3>1. u = s
            BY <2>1, <2>2 DEF ContentOf, FilesOK
        <3> QED
            BY <3>1
    <2>3. CASE current # None /\ handle[c] = current
        <3>1. u = Extended(s, l)
            BY <2>1, <2>3 DEF ContentOf, FilesOK
        <3> HIDE DEF s, u
        <3>0. Text(u) => Text(s)
            BY <1>1, <3>1, ExtendedText
        <3>2. PICK i \in DOMAIN u : x = u[i]
            BY DEF Range, u
        <3>3. i \in DOMAIN s /\ u[i] = s[i]
            <4>1. x # l
                BY <1>2, <2>1
            <4>2. \/ i \in DOMAIN s /\ u[i] = s[i]
                  \/ u[i] \in {Torn, Cut, Bad, Ruin}
                  \/ u[i] = l
                BY <1>1, <3>1, <3>2, ExtendedElements
            <4> QED
                BY <1>2, <3>2, <4>1, <4>2
        <3> QED
            BY <3>0, <3>2, <3>3 DEF Range
    <2> QED
        BY <2>2, <2>3
<1>8. Restart \/ UNCHANGED vars => current' = current /\ data' = data
    BY DEF Restart, vars, files
<1>9. ASSUME NEW c \in Calls, Stat(c) \/ WriteFails(c) \/ Push(c) \/ Abandon(c)
      PROVE  current' = current /\ data' = data
    BY <1>9 DEF Stat, WriteFails, Push, Abandon, files
<1> QED
    BY <1>3, <1>4, <1>5, <1>6, <1>7, <1>8, <1>9 DEF Next, CallStep

\* Nor does what can be read of it.
LEMMA OldReadable ==
    ASSUME FilesOK, Created, [Next]_vars, NEW x \in Past, x \in Range(Readable(ContentOf(current)'))
    PROVE  x \in Range(Readable(ContentOf(current)))
<1>1. ContentOf(current) \in Contents
    BY EmptySeq DEF ContentOf, FilesOK, Contents
<1>2. ContentOf(current)' \in Contents
    BY Files, EmptySeq DEF ContentOf, FilesOK, Contents
<1> DEFINE u == ContentOf(current)'
<1> HIDE DEF u
<1>3. u \in Contents /\ x \in Range(Readable(u))
    BY <1>2 DEF u
<1>4. x \in Range(u) /\ x \in Calls /\ Text(u)
    BY <1>3, ReadableElements
<1>5. x \in Range(ContentOf(current)) /\ Text(ContentOf(current))
    BY <1>4, OldLines DEF u
<1> QED
    BY <1>1, <1>4, <1>5, ReadableElements

\* Who is busy: a call becomes so when it makes its entry, and whoever begins has
\* made its own.
LEMMA BusyStep ==
    ASSUME FilesOK, ClockOK, [LogsNext]_logsVars
    PROVE  \/ \E e \in Calls : Stamp(e)
           \/ /\ Busy' \subseteq Busy /\ apart' = apart
              /\ \A d \in Calls : place'[d] # "idle" => place[d] # "idle" \/ d \in stamped
<1> DEFINE Kept == /\ Busy' \subseteq Busy /\ apart' = apart
                   /\ \A d \in Calls : place'[d] # "idle" => place[d] # "idle" \/ d \in stamped
<1> USE DEF FilesOK, Busy, Appending, Written
<1>1. ASSUME Logged PROVE Kept
    <2>1. /\ apart' = apart /\ stamped' \subseteq stamped
          /\ \A d \in stamped' : place'[d] = "idle"
          /\ \A d \in Calls : place[d] = "idle" /\ place'[d] # "idle" => d \in stamped
        BY <1>1 DEF Logged, ClockOK, Next, Restart
    <2>2. ASSUME NEW e \in Calls, CallStep(e)
          PROVE  /\ \A d \in Calls : d # e => place'[d] = place[d]
                 /\ e \in Appending \cup Written \/ (place[e] = "idle" /\ place'[e] # "idle")
        <3>1. CASE Stat(e)
            BY <3>1 DEF Stat, Moves
        <3>2. CASE Rename(e) \/ Open(e)
            BY <3>2 DEF Rename, Open, Moves
        <3>3. CASE Write(e) \/ WriteTears(e) \/ WriteFails(e)
            BY <3>3 DEF Write, WriteTears, WriteFails, Moves
        <3>4. CASE Push(e) \/ Abandon(e)
            BY <3>4 DEF Push, Abandon, Moves
        <3> QED
            BY <2>2, <3>1, <3>2, <3>3, <3>4 DEF CallStep
    <2>3. ASSUME NEW e \in Calls, CallStep(e) PROVE (Appending \cup Written)' \subseteq Busy
        BY <2>1, <2>2, <2>3
    <2>4. ASSUME Restart PROVE (Appending \cup Written)' \subseteq Busy
        BY <2>4 DEF Restart
    <2> QED
        BY <1>1, <2>1, <2>3, <2>4 DEF Logged, Next
<1>2. ASSUME Second \/ ReadLog \/ ReadRing \/ UNCHANGED logsVars PROVE Kept
    <2>1. UNCHANGED <<place, stamped, apart>>
        BY <1>2 DEF Second, ReadLog, ReadRing, logsVars, vars, clock
    <2> QED
        BY <2>1
<1> QED
    BY <1>1, <1>2 DEF LogsNext

\* As long as calls are apart, one is busy at a time.
LEMMA OneIsBusyStep ==
    ASSUME FilesOK, ClockOK, OneIsBusy, [LogsNext]_logsVars
    PROVE  OneIsBusy' /\ (apart' => apart /\ serial)
<1>1. ASSUME NEW e \in Calls, Stamp(e), apart' PROVE OneIsBusy' /\ apart /\ serial
    <2>1. apart /\ Busy = {} /\ Busy' = {e} /\ serial' = serial
        BY <1>1 DEF Stamp, Busy, Appending, Written, vars
    <2> QED
        BY <2>1 DEF OneIsBusy
<1>2. ASSUME Busy' \subseteq Busy, apart' = apart, apart PROVE OneIsBusy' /\ serial
    <2>1. serial /\ \A c, d \in Busy : c = d
        BY <1>2 DEF OneIsBusy
    <2>2. serial'
        <3>1. ASSUME NEW e \in Calls, Stat(e), Logged PROVE serial'
            <4>1. e \in Busy /\ e \notin Appending \cup Written
                BY <3>1 DEF Logged, Stat, Moves, FilesOK, Busy, Appending, Written
            <4>2. Appending \cup Written = {}
                BY <2>1, <4>1 DEF Busy
            <4> QED
                BY <2>1, <3>1, <4>2 DEF Stat, Starts, Written
        <3>2. ASSUME NEW e \in Calls, CallStep(e), ~Stat(e) PROVE serial' = serial
            BY <3>2 DEF CallStep, Rename, Open, Write, WriteTears, WriteFails, Push, Abandon
        <3>3. CASE Logged
            BY <2>1, <3>1, <3>2, <3>3 DEF Logged, Next, Restart
        <3>4. CASE ~Logged
            BY <2>1, <3>4 DEF LogsNext, Second, Stamp, ReadLog, ReadRing, logsVars, vars
        <3> QED
            BY <3>3, <3>4
    <2> QED
        BY <1>2, <2>1, <2>2 DEF OneIsBusy
<1>3. ASSUME ~apart' PROVE OneIsBusy'
    BY <1>3 DEF OneIsBusy
<1> QED
    BY <1>1, <1>2, <1>3, BusyStep

\* Whoever has yet to write or to push has the last time.
LEMMA LastStep ==
    ASSUME FilesOK, ClockOK, OneIsBusy, LogInOrder, [LogsNext]_logsVars, apart',
           NEW c \in Busy', NEW d \in Calls, place'[d] # "idle"
    PROVE  ts'[d] <= ts'[c]
<1>1. /\ apart /\ \A e \in Calls : place[e] # "idle" \/ e \in stamped => ts'[e] = ts[e]
      /\ Busy \subseteq Calls /\ Busy' \subseteq Calls
      /\ ts' \in [Calls -> Nat]
    BY TimeStep, OneIsBusyStep DEF ClockOK, Busy, Appending, Written
<1>2. ASSUME NEW e \in Calls, Stamp(e) PROVE ts'[d] <= ts'[c]
    <2>1. Busy = {} /\ Busy' = {e} /\ place' = place /\ ts'[e] = second
        BY <1>2 DEF Stamp, Busy, Appending, Written, vars, ClockOK
    <2>2. ts'[d] = ts[d] /\ ts[d] <= second
        BY <1>1, <2>1 DEF ClockOK
    <2> QED
        BY <2>1, <2>2
<1>3. ASSUME Busy' \subseteq Busy, place[d] # "idle" PROVE ts'[d] <= ts'[c]
    <2>1. c \in Busy /\ (place[c] # "idle" \/ c \in stamped) /\ c \in Calls
        BY <1>1, <1>3 DEF Busy, Appending, Written
    <2>2. ts[d] <= ts[c]
        BY <1>1, <1>3, <2>1 DEF LogInOrder
    <2> QED
        BY <1>1, <1>3, <2>1, <2>2
<1>4. ASSUME Busy' \subseteq Busy, d \in stamped PROVE ts'[d] <= ts'[c]
    <2>1. d = c
        BY <1>1, <1>4 DEF OneIsBusy, Busy
    <2> QED
        BY <1>1, <2>1
<1> QED
    BY <1>2, <1>3, <1>4, BusyStep

\* The file stays in order: nothing is written to it but by the one who began last.
LEMMA FileOrderStep ==
    ASSUME Inv, OneAtATime, OneIsBusy, ClockOK, LinesArePast, LogInOrder, [LogsNext]_logsVars, apart'
    PROVE  InOrder(ts', ContentOf(current)')
<1> DEFINE s == ContentOf(current)
           u == ContentOf(current)'
<1> USE DEF Inv
<1>1. /\ [Next]_vars /\ apart /\ serial
      /\ \A e \in Calls : place[e] # "idle" => ts'[e] = ts[e]
    BY TimeStep, OneIsBusyStep
<1>2. s \in Contents /\ \A i \in DOMAIN s : s[i] \in Calls => s[i] \in Past
    BY EmptySeq DEF ContentOf, FilesOK, Contents, LinesArePast
<1>3. InOrder(ts', s)
    <2>1. InOrder(ts, s)
        BY <1>1 DEF LogInOrder
    <2>2. \A i \in DOMAIN s : s[i] \in Calls => ts'[s[i]] = ts[s[i]]
        BY <1>1, <1>2 DEF Past
    <2> HIDE DEF s
    <2> QED
        BY <2>1, <2>2, InOrderTimes
<1>4. ASSUME u = s \/ u = <<>> PROVE InOrder(ts', u)
    BY <1>3, <1>4, InOrderEmpty
<1>5. ASSUME NEW c \in Calls, Rename(c) PROVE u = s \/ u = <<>>
    BY <1>5 DEF Rename, ContentOf
<1>6. ASSUME NEW c \in Calls, Open(c) PROVE u = s \/ u = <<>>
    <2>1. current = None => current' = c /\ data'[c] = <<>> /\ c # None
        BY <1>6, ConstantsAssumption DEF Open, Created
    <2>2. current # None => current' = current /\ data' = data
        BY <1>6 DEF Open
    <2> QED
        BY <2>1, <2>2 DEF ContentOf
<1>7. ASSUME NEW c \in Calls, Write(c) \/ WriteTears(c) PROVE InOrder(ts', u)
    <2>1. PICK l \in Calls \cup Parts :
            /\ data' = [data EXCEPT ![handle[c]] = Extended(@, l)] /\ current' = current
            /\ place[c] = "open"
            /\ l \in Calls => l = c
        <3>1. CASE Write(c)
            BY <3>1 DEF Write
        <3>2. CASE WriteTears(c)
            BY <3>2, ConstantsAssumption DEF WriteTears, Parts
        <3> QED
            BY <1>7, <3>1, <3>2
    <2>2. c \in Appending /\ handle[c] = current /\ handle[c] # None
        <3>1. c \in Appending /\ overlapped = {}
            BY <1>1, <2>1 DEF Appending, OneAtATime
        <3> QED
            BY <2>1, <3>1 DEF SeesFile, FilesOK
    <2>3. u = Extended(s, l)
        BY <2>1, <2>2 DEF ContentOf, FilesOK
    <2>4. ASSUME NEW i \in DOMAIN s, s[i] \in Calls, l \in Calls
          PROVE  s[i] # l /\ ts'[s[i]] <= ts'[l]
        <3>1. s[i] \in Past /\ l = c
            BY <1>2, <2>1, <2>4
        <3>2. place[s[i]] \in {"written", "done", "gone"}
            BY <3>1 DEF Past
        <3>3. ts[s[i]] <= ts[c]
            BY <1>1, <2>2, <2>4, <3>2 DEF LogInOrder, Busy
        <3>4. ts'[s[i]] = ts[s[i]] /\ ts'[c] = ts[c]
            BY <1>1, <2>1, <2>4, <3>2
        <3> QED
            BY <2>1, <3>1, <3>2, <3>3, <3>4
    <2> HIDE DEF s, u
    <2> QED
        BY <1>2, <1>3, <2>3, <2>4, InOrderExtended
<1>8. ASSUME Restart \/ UNCHANGED vars PROVE u = s
    BY <1>8 DEF Restart, vars, files, ContentOf
<1>9. ASSUME NEW c \in Calls, Stat(c) \/ WriteFails(c) \/ Push(c) \/ Abandon(c) PROVE u = s
    BY <1>9 DEF Stat, WriteFails, Push, Abandon, files, ContentOf
<1> HIDE DEF s, u
<1> QED
    BY <1>1, <1>4, <1>5, <1>6, <1>7, <1>8, <1>9 DEF Next, CallStep, u

\* So does the ring.
LEMMA RingOrderStep ==
    ASSUME FilesOK, RingOK, OneIsBusy, ClockOK, LinesArePast, LogInOrder, [LogsNext]_logsVars, apart'
    PROVE  InOrder(ts', ring')
<1>1. /\ [Next]_vars /\ apart /\ serial
      /\ \A e \in Calls : place[e] # "idle" => ts'[e] = ts[e]
    BY TimeStep, OneIsBusyStep
<1>2. ring \in Seq(Calls) /\ DOMAIN ring = 1..Len(ring) /\ Len(ring) \in Nat
    BY LenProperties DEF RingOK
<1>3. \A i \in DOMAIN ring : ring[i] \in Calls /\ place[ring[i]] \in {"done", "gone"}
    BY DEF LinesArePast, Past, Written
<1>4. InOrder(ts', ring)
    <2>1. InOrder(ts, ring)
        BY <1>1 DEF LogInOrder
    <2>2. \A i \in DOMAIN ring : ring[i] \in Calls => ts'[ring[i]] = ts[ring[i]]
        BY <1>1, <1>3
    <2> QED
        BY <2>1, <2>2, InOrderTimes
<1>5. ASSUME NEW c \in Calls, Push(c) PROVE InOrder(ts', ring')
    <2> DEFINE r == IF Len(ring) >= RingCap THEN Tail(ring) ELSE ring
    <2>1. ring' = Append(r, c) /\ place[c] = "written" /\ c \in Written
        BY <1>5 DEF Push, Written
    <2>2. /\ r \in Seq(Calls) /\ InOrder(ts', r)
          /\ \A i \in DOMAIN r : \E j \in DOMAIN ring : r[i] = ring[j]
        <3>1. CASE Len(ring) >= RingCap
            <4>1. ring # <<>>
                BY <1>2, <3>1, EmptySeq, ConstantsAssumption
            <4> DEFINE t == Tail(ring)
            <4>2. /\ t \in Seq(Calls) /\ Len(t) = Len(ring) - 1
                  /\ \A i \in 1..Len(t) : t[i] = ring[i + 1]
                BY <1>2, <4>1, HeadTailProperties
            <4> HIDE DEF t
            <4>3. DOMAIN t = 1..Len(t)
                BY <4>2, LenProperties
            <4>4. \A i \in 1..Len(t) : i + 1 \in 1..Len(ring)
                BY <1>2, <4>2
            <4>5. InOrder(ts', t)
                <5>1. 1 \in Nat /\ \A i \in 1..Len(t) : i + 1 \in 1..Len(ring) /\ t[i] = ring[i + 1]
                    BY <4>2, <4>4
                <5> QED
                    BY <1>2, <1>4, <4>2, <5>1, InOrderPart
            <4>6. r = t
                BY <3>1 DEF t
            <4> HIDE DEF r
            <4> QED
                BY <1>2, <4>2, <4>3, <4>4, <4>5, <4>6
        <3>2. CASE ~(Len(ring) >= RingCap)
            BY <1>2, <1>4, <3>2
        <3> QED
            BY <3>1, <3>2
    <2> HIDE DEF r
    <2>3. ASSUME NEW i \in DOMAIN r PROVE r[i] # c /\ ts'[r[i]] <= ts'[c]
        <3>1. PICK j \in DOMAIN ring : r[i] = ring[j]
            BY <2>2
        <3>2. place[ring[j]] \in {"done", "gone"} /\ ring[j] \in Calls
            BY <1>3
        <3>3. ts[ring[j]] <= ts[c]
            BY <1>1, <2>1, <3>2 DEF LogInOrder, Busy
        <3>4. ts'[ring[j]] = ts[ring[j]] /\ ts'[c] = ts[c]
            BY <1>1, <2>1, <3>2
        <3> QED
            BY <2>1, <3>1, <3>2, <3>3, <3>4
    <2> QED
        BY <2>1, <2>2, <2>3, InOrderAppend
<1>6. ASSUME Restart PROVE InOrder(ts', ring')
    <2> DEFINE s == ContentOf(current)
               ls == Readable(s)
               r == Newest(s, RingCap)
    <2>1. ring' = r
        BY <1>6 DEF Restart
    <2>2. s \in Contents /\ InOrder(ts, s) /\ \A i \in DOMAIN s : s[i] \in Calls => s[i] \in Past
        BY <1>1, EmptySeq DEF ContentOf, FilesOK, Contents, LinesArePast, LogInOrder
    <2> HIDE DEF s
    <2>3. InOrder(ts', s)
        <3>1. \A i \in DOMAIN s : s[i] \in Calls => ts'[s[i]] = ts[s[i]]
            BY <1>1, <2>2 DEF Past
        <3> QED
            BY <2>2, <3>1, InOrderTimes
    <2>4. InOrder(ts', ls)
        BY <2>2, <2>3, InOrderFilter, InOrderEmpty DEF Contents, Readable
    <2>5. r \in Seq(Calls) /\ ls \in Seq(Calls) /\ UpTo(r, ls, Len(ls))
        BY <2>2, NewestOf, ConstantsAssumption
    <2> HIDE DEF r, ls
    <2> DEFINE d == Len(ls) - Len(r)
    <2>6. Len(r) \in Nat /\ Len(ls) \in Nat /\ Len(r) <= Len(ls) /\ \A i \in 1..Len(r) : r[i] = ls[d + i]
        BY <2>5, LenProperties DEF UpTo
    <2>7. d \in Nat /\ \A i \in 1..Len(r) : i + d \in 1..Len(ls) /\ d + i = i + d
        BY <2>6
    <2> HIDE DEF d
    <2>8. \A i \in 1..Len(r) : i + d \in 1..Len(ls) /\ r[i] = ls[i + d]
        BY <2>6, <2>7
    <2>9. InOrder(ts', r)
        BY <2>4, <2>5, <2>7, <2>8, InOrderPart
    <2> QED
        BY <2>1, <2>9
<1>7. ASSUME NEW c \in Calls, Stat(c) \/ Rename(c) \/ Open(c) \/ Write(c) \/ WriteTears(c) \/ WriteFails(c) \/ Abandon(c)
      PROVE  ring' = ring
    BY <1>7 DEF Stat, Rename, Open, Write, WriteTears, WriteFails, Abandon
<1>8. UNCHANGED vars => ring' = ring
    BY DEF vars
<1> QED
    BY <1>1, <1>4, <1>5, <1>6, <1>7, <1>8 DEF Next, CallStep

\* A step of the log, or of the clock, takes nothing from a walk.
LEMMA WalkKept ==
    ASSUME Inv, OneIsBusy, ClockOK, WalkOK, ViewIsWhole, [LogsNext]_logsVars, UNCHANGED pages
    PROVE  WalkOK' /\ ViewIsWhole'
<1> USE DEF pages
<1>1. ASSUME apart' PROVE apart
    BY <1>1, OneIsBusyStep DEF Inv
<1>2. /\ [Next]_vars /\ Past \subseteq Past'
      /\ \A e \in Past : ts'[e] = ts[e]
    BY TimeStep, PlaceStep DEF Inv, Past
<1>3. \A x \in Past : x \in Range(Readable(ContentOf(current)')) => x \in Range(Readable(ContentOf(current)))
    BY <1>2, OldReadable DEF Inv
<1>4. WalkOK'
    <2> SUFFICES ASSUME apart'
                 PROVE  /\ Range(view) \cup began \subseteq Past'
                        /\ walk = "atRing" => began \cap Range(Readable(ContentOf(current)')) = {}
        BY <1>1 DEF WalkOK
    <2>1. Range(view) \cup began \subseteq Past /\ (walk = "atRing" => began \cap Range(Readable(ContentOf(current))) = {})
        BY <1>1 DEF WalkOK
    <2> QED
        BY <1>2, <1>3, <2>1
<1>5. ViewIsWhole'
    <2> SUFFICES ASSUME apart', walk # "over"
                 PROVE  /\ NewestFirst(ts', view) /\ \A i \in DOMAIN view : ts'[view[i]] >= cursor
                        /\ \A c \in began \cap Range(Readable(ContentOf(current)')) :
                            c \in Range(view) \/ ts'[c] \in cuts \/ ts'[c] < cursor
        BY DEF ViewIsWhole
    <2>1. /\ NewestFirst(ts, view) /\ \A i \in DOMAIN view : ts[view[i]] >= cursor
          /\ \A c \in began \cap Range(Readable(ContentOf(current))) :
                c \in Range(view) \/ ts[c] \in cuts \/ ts[c] < cursor
        BY <1>1 DEF ViewIsWhole
    <2>2. began \subseteq Past /\ \A i \in DOMAIN view : view[i] \in Past
        BY <1>1, RangeIs DEF WalkOK
    <2>3. \A i \in DOMAIN view : ts'[view[i]] = ts[view[i]]
        BY <1>2, <2>2
    <2>4. NewestFirst(ts', view) /\ \A i \in DOMAIN view : ts'[view[i]] >= cursor
        BY <2>1, <2>3 DEF NewestFirst
    <2>5. ASSUME NEW c \in began, c \in Range(Readable(ContentOf(current)'))
          PROVE  c \in Range(view) \/ ts'[c] \in cuts \/ ts'[c] < cursor
        <3>1. c \in Past /\ c \in Range(Readable(ContentOf(current))) /\ ts'[c] = ts[c]
            BY <1>2, <1>3, <2>2, <2>5
        <3> QED
            BY <2>1, <3>1
    <2> QED
        BY <2>4, <2>5
<1> QED
    BY <1>4, <1>5

\* A page goes on where the last one ended.
LEMMA PageAdds ==
    ASSUME ClockOK, WalkOK, ViewIsWhole, apart, walk # "over",
           NEW log \in Seq(Calls), NEW page, PageOf(page, log)
    PROVE  /\ view' \in Seq(Calls) /\ NewestFirst(ts, view')
           /\ \A x : x \in Range(view') <=> x \in Range(view) \/ x \in Range(page)
           /\ cursor' \in Nat
           /\ walk' = "between" => \A i \in DOMAIN view' : ts[view'[i]] >= cursor'
<1>1. /\ view \in Seq(Calls) /\ cursor \in Nat
      /\ NewestFirst(ts, view) /\ \A i \in DOMAIN view : ts[view[i]] >= cursor
    BY DEF WalkOK, ViewIsWhole
<1>2. /\ page \in Seq(Calls) /\ NewestFirst(ts, page)
      /\ \A x \in Range(page) : ts[x] < cursor
      /\ view' = view \o page
    BY DEF PageOf
<1>3. /\ view' \in Seq(Calls)
      /\ \A x : x \in Range(view') <=> x \in Range(view) \/ x \in Range(page)
    BY <1>1, <1>2, JoinedIs
<1> DEFINE n == Len(view)
<1>4. /\ n \in Nat /\ Len(page) \in Nat /\ DOMAIN view = 1..n /\ DOMAIN page = 1..Len(page)
      /\ Len(view') = n + Len(page) /\ DOMAIN view' = 1..Len(view')
      /\ \A i \in 1..Len(view') : view'[i] = IF i <= n THEN view[i] ELSE page[i - n]
    BY <1>1, <1>2, <1>3, ConcatProperties, LenProperties
<1> HIDE DEF n
<1>5. ASSUME NEW i \in DOMAIN view'
      PROVE  \/ i \in 1..n /\ view'[i] = view[i]
             \/ i - n \in 1..Len(page) /\ ~(i <= n) /\ view'[i] = page[i - n]
    BY <1>4
<1>6. \A i \in 1..Len(page) : page[i] \in Range(page)
    BY <1>2, RangeIs
<1>7. \A i \in 1..n : ts[view[i]] \in Nat
    BY <1>1, <1>4, ElementOfSeq DEF ClockOK
<1>7b. \A i \in 1..Len(page) : ts[page[i]] \in Nat
    BY <1>2, <1>4, ElementOfSeq DEF ClockOK
<1>8. ASSUME NEW i \in DOMAIN view', NEW j \in DOMAIN view', i < j
      PROVE  view'[i] # view'[j] /\ ts[view'[i]] >= ts[view'[j]]
    <2>1. CASE i \in 1..n /\ j \in 1..n
        BY <1>1, <1>4, <1>5, <1>8, <2>1 DEF NewestFirst
    <2>2. CASE i \in 1..n /\ j \notin 1..n
        <3>1. view'[i] = view[i] /\ view'[j] = page[j - n] /\ j - n \in 1..Len(page)
            BY <1>4, <1>5, <2>2
        <3>2. ts[view[i]] >= cursor /\ ts[page[j - n]] < cursor
            BY <1>1, <1>2, <1>4, <1>6, <2>2, <3>1
        <3>3. ts[view[i]] \in Nat /\ ts[page[j - n]] \in Nat
            BY <1>7, <1>7b, <2>2, <3>1
        <3> QED
            BY <1>1, <3>1, <3>2, <3>3
    <2>3. CASE i \notin 1..n
        <3>1. j \notin 1..n /\ i - n < j - n
            BY <1>4, <1>8, <2>3
        <3>2. /\ view'[i] = page[i - n] /\ i - n \in DOMAIN page
              /\ view'[j] = page[j - n] /\ j - n \in DOMAIN page
            BY <1>4, <1>5, <2>3, <3>1
        <3> QED
            BY <1>2, <3>1, <3>2 DEF NewestFirst
    <2> QED
        BY <2>1, <2>2, <2>3
<1>9. cursor' \in Nat
    BY <1>1 DEF PageOf
<1>10. ASSUME walk' = "between", NEW i \in DOMAIN view'
       PROVE  ts[view'[i]] >= cursor'
    <2>1. cursor' < cursor /\ \A x \in Range(page) : ts[x] >= cursor'
        BY <1>10 DEF PageOf
    <2>2. CASE i \in 1..n
        <3>1. view'[i] = view[i] /\ ts[view[i]] >= cursor /\ ts[view[i]] \in Nat
            BY <1>1, <1>4, <1>5, <1>7, <2>2
        <3> QED
            BY <1>1, <1>9, <2>1, <3>1
    <2>3. CASE i \notin 1..n
        BY <1>5, <1>6, <2>1, <2>3
    <2> QED
        BY <2>2, <2>3
<1> QED
    BY <1>3, <1>8, <1>9, <1>10 DEF NewestFirst

\* What a walk has shown when it is over.
Shown ==
    /\ NewestFirst(ts, view')
    /\ \A c \in began' \cap Range(Readable(ContentOf(current))) : c \in Range(view') \/ ts[c] \in cuts

\* What can be read of the file.
LEMMA ReadableIs ==
    ASSUME FilesOK, ClockOK, LinesArePast, LogInOrder, apart
    PROVE  /\ Readable(ContentOf(current)) \in Seq(Calls)
           /\ InOrder(ts, Readable(ContentOf(current)))
           /\ Range(Readable(ContentOf(current))) \subseteq Past
<1> DEFINE s == ContentOf(current)
           log == Readable(s)
<1>1. s \in Contents /\ InOrder(ts, s) /\ \A i \in DOMAIN s : s[i] \in Calls => s[i] \in Past
    BY EmptySeq DEF ContentOf, FilesOK, Contents, LinesArePast, LogInOrder
<1> HIDE DEF s
<1>2. log \in Seq(Calls)
    BY <1>1, NewestOf, ConstantsAssumption
<1>3. InOrder(ts, log)
    BY <1>1, InOrderFilter, InOrderEmpty DEF Readable, Contents
<1>4. \A k \in DOMAIN log : \E i \in DOMAIN s : s[i] \in Calls /\ log[k] = s[i]
    BY <1>1, ReadableElements
<1> HIDE DEF log
<1>5. \A x : x \in Range(log) <=> \E k \in DOMAIN log : x = log[k]
    BY DEF Range
<1>6. \A x \in Range(log) : x \in Past
    BY <1>1, <1>4, <1>5
<1> QED
    BY <1>2, <1>3, <1>6 DEF log, s

\* A page from the file.
LEMMA ReadLogStep ==
    ASSUME FilesOK, ClockOK, LinesArePast, LogInOrder, WalkOK, ViewIsWhole, ReadLog, apart
    PROVE  WalkOK' /\ ViewIsWhole' /\ (walk' = "over" => Shown)
<1> DEFINE content == ContentOf(current)
           log == Readable(content)
<1>1. /\ UNCHANGED <<place, current, data, apart, second, ts>>
      /\ walk \in {"idle", "between"}
      /\ began' = IF walk = "idle" THEN Range(log) ELSE began
    BY DEF ReadLog, vars, files, clock
<1>2. ContentOf(current)' = content /\ Past' = Past
    BY <1>1 DEF ContentOf, Past
<1>3. log \in Seq(Calls) /\ InOrder(ts, log) /\ Range(log) \subseteq Past
    BY ReadableIs
<1>4. /\ view \in Seq(Calls) /\ Range(view) \subseteq Past /\ began \subseteq Past /\ cursor \in Nat
      /\ walk = "idle" => cursor = MaxSecond + 1 /\ view = <<>>
    BY DEF WalkOK
<1>5. began' \subseteq Past
    BY <1>1, <1>3, <1>4
<1>6. ASSUME NEW c \in began', c \in Range(log)
      PROVE  ts[c] \in Nat /\ (c \in Range(view) \/ ts[c] \in cuts \/ ts[c] < cursor)
    <2>1. c \in Calls
        BY <1>3, <1>5, <1>6 DEF Past
    <2>2. CASE walk = "idle"
        <3>1. ts[c] \in Nat /\ ts[c] <= second /\ second \in 0..MaxSecond /\ cursor = MaxSecond + 1
            BY <1>4, <2>1, <2>2 DEF ClockOK
        <3> QED
            BY <2>1, <3>1, PagesAssumption
    <2>3. CASE walk = "between"
        BY <1>1, <1>6, <2>1, <2>3 DEF ViewIsWhole, ClockOK
    <2> QED
        BY <1>1, <2>2, <2>3
<1> HIDE DEF content
<1>7. CASE log = <<>>
    <2>1. UNCHANGED <<view, cursor, cuts>> /\ walk' = "atRing"
        BY <1>7 DEF ReadLog, content
    <2>2. began' \cap Range(log) = {}
        <3>1. \A x : x \notin Range(log)
            BY <1>7 DEF Range
        <3> QED
            BY <1>6, <3>1
    <2>3. WalkOK'
        BY <1>1, <1>2, <1>4, <1>5, <2>1, <2>2 DEF WalkOK
    <2>4. ViewIsWhole'
        <3>1. NewestFirst(ts, view) /\ \A i \in DOMAIN view : ts[view[i]] >= cursor
            BY <1>1 DEF ViewIsWhole
        <3> QED
            BY <1>1, <1>2, <2>1, <2>2, <3>1 DEF ViewIsWhole
    <2> QED
        BY <2>1, <2>3, <2>4
<1>8. CASE log # <<>>
    <2>1. Given(log)
        BY <1>8 DEF ReadLog, content
    <2> HIDE DEF log
    <2>2. PICK page : PageOf(page, log)
        BY <1>3, <1>4, <2>1, GivenIsPage
    <2>3. walk # "over"
        BY <1>1
    <2>4. /\ view' \in Seq(Calls) /\ NewestFirst(ts, view')
          /\ \A x : x \in Range(view') <=> x \in Range(view) \/ x \in Range(page)
          /\ cursor' \in Nat
          /\ walk' = "between" => \A i \in DOMAIN view' : ts[view'[i]] >= cursor'
        BY <1>3, <2>2, <2>3, PageAdds
    <2>5. \A x \in Range(page) : x \in Range(log)
        BY <2>2 DEF PageOf
    <2>6. Range(view') \subseteq Past
        BY <1>3, <1>4, <2>4, <2>5
    <2>7. walk' \in {"over", "between"}
        BY <2>2 DEF PageOf
    <2>8. WalkOK'
        BY <1>1, <1>2, <1>5, <2>4, <2>6, <2>7 DEF WalkOK
    <2>9. ASSUME NEW c \in began', c \in Range(log), walk' = "between"
          PROVE  c \in Range(view') \/ ts[c] \in cuts' \/ ts[c] < cursor'
        <3>1. ts[c] \in Nat /\ (c \in Range(view) \/ ts[c] \in cuts \/ ts[c] < cursor)
            BY <1>6, <2>9
        <3>2. cuts' = cuts \cup {cursor'} /\ (ts[c] < cursor => c \in Range(page) \/ ts[c] <= cursor')
            BY <2>2, <2>9, <3>1 DEF PageOf
        <3>3. ts[c] <= cursor' => ts[c] = cursor' \/ ts[c] < cursor'
            BY <2>4, <3>1
        <3> QED
            BY <2>4, <3>1, <3>2, <3>3
    <2>10. ViewIsWhole'
        BY <1>1, <1>2, <2>4, <2>7, <2>9 DEF ViewIsWhole, content, log
    <2>11. ASSUME NEW c \in began', c \in Range(log), walk' = "over"
           PROVE  c \in Range(view') \/ ts[c] \in cuts
        <3>1. (c \in Range(view) \/ ts[c] \in cuts \/ ts[c] < cursor)
            BY <1>6, <2>11
        <3>2. ts[c] < cursor => c \in Range(page)
            BY <2>2, <2>11, <3>1 DEF PageOf
        <3> QED
            BY <2>4, <3>1, <3>2
    <2> QED
        BY <2>4, <2>8, <2>10, <2>11 DEF Shown, content, log
<1> QED
    BY <1>7, <1>8

\* A page from the ring: nothing is left of the file that the walk began with.
LEMMA ReadRingStep ==
    ASSUME RingOK, ClockOK, LinesArePast, LogInOrder, WalkOK, ViewIsWhole, ReadRing, apart
    PROVE  WalkOK' /\ ViewIsWhole' /\ (walk' = "over" => Shown)
<1>1. /\ UNCHANGED <<place, current, data, apart, second, ts, began>>
      /\ walk = "atRing" /\ Given(ring)
    BY DEF ReadRing, vars, files, clock
<1>2. ContentOf(current)' = ContentOf(current) /\ Past' = Past
    BY <1>1 DEF ContentOf, Past
<1>3. /\ ring \in Seq(Calls) /\ InOrder(ts, ring)
      /\ \A x \in Range(ring) : x \in Past
    <2>1. ring \in Seq(Calls) /\ InOrder(ts, ring)
        BY DEF RingOK, LogInOrder
    <2>2. \A i \in 1..Len(ring) : ring[i] \in Past
        BY <2>1, LenProperties DEF LinesArePast
    <2> QED
        BY <2>1, <2>2, RangeIs
<1>4. /\ Range(view) \subseteq Past /\ began \subseteq Past /\ cursor \in Nat
      /\ began \cap Range(Readable(ContentOf(current))) = {}
    BY <1>1 DEF WalkOK
<1>5. PICK page : PageOf(page, ring)
    BY <1>1, <1>3, <1>4, GivenIsPage
<1>6. /\ view' \in Seq(Calls) /\ NewestFirst(ts, view')
      /\ \A x : x \in Range(view') <=> x \in Range(view) \/ x \in Range(page)
      /\ cursor' \in Nat
      /\ walk' = "between" => \A i \in DOMAIN view' : ts[view'[i]] >= cursor'
    BY <1>1, <1>3, <1>5, PageAdds
<1>7. walk' \in {"over", "between"} /\ \A x \in Range(page) : x \in Range(ring)
    BY <1>5 DEF PageOf
<1>8. Range(view') \subseteq Past
    BY <1>3, <1>4, <1>6, <1>7
<1>9. WalkOK'
    BY <1>1, <1>2, <1>4, <1>6, <1>7, <1>8 DEF WalkOK
<1>10. ViewIsWhole'
    BY <1>1, <1>2, <1>4, <1>6, <1>7 DEF ViewIsWhole
<1>11. Shown
    BY <1>1, <1>4, <1>6 DEF Shown
<1> QED
    BY <1>9, <1>10, <1>11

\* The inductive invariant of a walk.
THEOREM PagesInvariant == LogsSpec => []PagesInv
<1>1. LogsInit => PagesInv
    <2> SUFFICES ASSUME LogsInit PROVE PagesInv
        OBVIOUS
    <2>1. /\ ring = <<>> /\ current = None /\ walk = "idle" /\ view = <<>> /\ began = {}
          /\ cursor = MaxSecond + 1 /\ serial /\ apart = TRUE /\ stamped = {} /\ overlapped = {}
          /\ second = 0 /\ ts = [c \in Calls |-> 0]
          /\ \A c \in Calls : place[c] = "idle" /\ data[c] = <<>>
        BY DEF LogsInit, Init
    <2>2. RingOK /\ LinesArePast
        BY <2>1, EmptySeq, ConstantsAssumption DEF RingOK, LinesArePast
    <2>3. OneAtATime /\ OneIsBusy /\ ClockOK
        BY <2>1, PagesAssumption DEF OneAtATime, OneIsBusy, Busy, Appending, Written, ClockOK
    <2>4. LogInOrder
        BY <2>1, InOrderEmpty DEF LogInOrder, ContentOf
    <2>5. WalkOK
        <3>1. view \in Seq(Calls) /\ Range(view) = {} /\ MaxSecond + 1 \in Nat
            BY <2>1, EmptySeq, PagesAssumption DEF Range
        <3> QED
            BY <2>1, <3>1 DEF WalkOK
    <2>6. ViewIsWhole
        BY <2>1 DEF ViewIsWhole, NewestFirst
    <2> QED
        BY <2>2, <2>3, <2>4, <2>5, <2>6 DEF PagesInv
<1>2. ASSUME Inv, PagesInv, [LogsNext]_logsVars PROVE PagesInv'
    <2> USE DEF PagesInv
    <2>1. [Next]_vars /\ ClockOK' /\ FilesOK
        BY <1>2, TimeStep DEF Inv
    <2>2. RingOK' /\ OneAtATime' /\ OneIsBusy' /\ LinesArePast'
        BY <1>2, <2>1, RingType, SerialStep, OneIsBusyStep, PastStep
    <2>3. LogInOrder'
        <3> SUFFICES ASSUME apart'
                     PROVE  /\ InOrder(ts', ContentOf(current)') /\ InOrder(ts', ring')
                            /\ \A c \in Busy', d \in Calls : place'[d] # "idle" => ts'[d] <= ts'[c]
            BY DEF LogInOrder
        <3> QED
            BY <1>2, <2>1, FileOrderStep, RingOrderStep, LastStep
    <2>4. WalkOK' /\ ViewIsWhole'
        <3>1. CASE UNCHANGED pages
            BY <1>2, <3>1, WalkKept
        <3>2. CASE ReadLog \/ ReadRing
            <4>1. apart' = apart
                BY <3>2 DEF ReadLog, ReadRing, clock
            <4>2. CASE apart
                BY <1>2, <2>1, <3>2, <4>2, ReadLogStep, ReadRingStep
            <4>3. CASE ~apart
                BY <4>1, <4>3 DEF WalkOK, ViewIsWhole
            <4> QED
                BY <4>2, <4>3
        <3>3. Logged \/ Second \/ (\E c \in Calls : Stamp(c)) \/ UNCHANGED logsVars => UNCHANGED pages
            BY DEF Logged, Second, Stamp, logsVars
        <3> QED
            BY <1>2, <3>1, <3>2, <3>3 DEF LogsNext
    <2> QED
        BY <2>1, <2>2, <2>3, <2>4
<1> QED
    BY <1>1, <1>2, ReadersLeaveTheLog, Invariant, PTL DEF LogsSpec

\* A walk through the pages of the log shows no entry twice, newest first, and all
\* that it began with and that can be read still, but for seconds in which a page ended.
THEOREM WalksAreWhole == LogsSpec => WalkIsWhole
<1> DEFINE WalkEnds ==
        walk # "over" /\ walk' = "over" /\ apart =>
            /\ \A i, j \in DOMAIN view' : i < j => view'[i] # view'[j] /\ ts[view'[i]] >= ts[view'[j]]
            /\ \A c \in began' \cap Range(Readable(ContentOf(current))) : c \in Range(view') \/ ts[c] \in cuts
<1>1. ASSUME Inv, PagesInv, [LogsNext]_logsVars PROVE [WalkEnds]_logsVars
    <2> SUFFICES ASSUME walk # "over", walk' = "over", apart PROVE Shown
        BY DEF Shown, NewestFirst
    <2>1. ~(Logged \/ Second \/ (\E c \in Calls : Stamp(c)) \/ UNCHANGED logsVars)
        BY DEF Logged, Second, Stamp, logsVars, pages
    <2>2. ReadLog \/ ReadRing
        BY <1>1, <2>1 DEF LogsNext
    <2> QED
        BY <1>1, <2>2, ReadLogStep, ReadRingStep DEF Inv, PagesInv
<1> QED
    BY <1>1, ReadersLeaveTheLog, Invariant, PagesInvariant, PTL DEF LogsSpec, WalkIsWhole
=============================================================================
