--------------------------- MODULE FileEditsProofs ---------------------------
(***************************************************************************)
(* Proofs about the file that the tools of GroupTools edit, for any lines,  *)
(* texts, agents, calls and crashes: what a suggestion is good for, what an *)
(* edit writes, and what becomes of a memory.                               *)
(***************************************************************************)
EXTENDS GroupTools, FiniteSetTheorems, SequenceTheorems, WellFoundedInduction, TLAPS

-----------------------------------------------------------------------------
(* The invariant.  ~stale says that no other call has changed the file      *)
(* since this one began.                                                    *)

Text == Content \cup {NoFile}
Offer == [call : EditCall, whole : BOOLEAN, aim : Seq(Line)]

Job ==
  [step : {"idle", "keeps", "reads", "looks", "writes", "verifies", "restores", "unlinks"},
   call : Call \cup {Unset}, seen : Text, next : Text, kept : Text, before : Text,
   answer : {"none", "done", "refused", "ambiguous"}, options : SUBSET Offer,
   aim : Seq(Line) \cup {Unset}, whole : BOOLEAN, stale : BOOLEAN]

Bounds ==
  [first : Content \cup {NoFile}, memory : BOOLEAN, editors : SUBSET Editor,
   calls : Nat, crashes : Nat, asked : SUBSET Call]

(* The tools of a call at each of its steps, and what it may write.         *)
Formed(r, memory) ==
  /\ r.answer # "none" => r.step = "idle"
  /\ r.options # {} => r.answer = "ambiguous"
  /\ r.step # "idle" => r.call \in Call /\ ~(memory /\ r.call.tool = "replace")
  /\ r.answer # "none" \/ r.aim # Unset => r.call \in Call
  /\ r.step = "keeps" => memory
  /\ r.step \in {"keeps", "verifies", "restores"} => r.call \in EditCall
  /\ r.step = "reads" => r.call.tool \in {"edit", "range", "replace"}
  /\ r.step = "looks" => r.call.tool \in {"create", "forget"}
  /\ r.step = "writes" => r.call.tool # "forget"
  /\ r.step = "unlinks" => r.call.tool = "forget"
  /\ r.step \in {"verifies", "restores"} => memory
  /\ r.step \in {"writes", "verifies", "restores"} => r.next \in Content
  /\ memory /\ r.step \in {"looks", "writes"} /\ r.call.tool = "create" =>
       r.call.new \in Content /\ HasTopic(r.call.new)
  /\ r.step = "writes" /\ r.call.tool = "create" => r.next = r.call.new

(* Where a call finds the file, if no other has changed it in between.      *)
Steady(r, content, memory) ==
  ~r.stale =>
    /\ r.step \in {"keeps", "reads", "looks", "writes", "unlinks"} => content = r.before
    /\ r.step \in {"writes", "verifies", "restores"} /\ r.call \in EditCall => r.seen = r.before
    /\ r.step \in {"verifies", "restores"} => content = r.next
    /\ r.step = "restores" => ~HasTopic(r.next)
    /\ memory /\ r.step \in {"reads", "writes", "verifies", "restores"} /\ r.call \in EditCall =>
         r.kept = r.before
    /\ r.answer \in {"refused", "ambiguous"} => content = r.before
    /\ r.answer = "done" /\ r.call \in EditCall => content = r.next /\ r.seen = r.before

(* The file new is old but for one place that the anchors of c match.       *)
Exact(was, c, new) ==
  LET old == IF was = NoFile THEN Nothing ELSE was
  IN  \E first \in 1 .. Len(old.lines) + 1, last \in 0 .. Len(old.lines) :
        /\ old.lines # <<>> =>
             /\ first \in BlockStarts(old.lines, c.first, TRUE)
             /\ last - Len(c.last) + 1 \in BlockStarts(old.lines, c.last, TRUE)
             /\ first <= last - Len(c.last) + 1
        /\ new.lines = Spliced(old.lines, <<first, last>>, c.new)
        /\ new.ended = IF last < Len(old.lines) THEN old.ended ELSE new.lines # <<>>

(* What an edit is going to write, or has written, is such a file.          *)
Exactly(r) ==
  r.call \in EditCall /\ (r.step \in {"writes", "verifies", "restores"} \/ r.answer = "done")
    => Exact(r.seen, r.call, r.next)

(* The call c resolves to one place, and makes of the file what was aimed   *)
(* at.                                                                      *)
Hits(content, c, aim) ==
  /\ content # NoFile
  /\ c.first # <<>>
  /\ \E p \in Places(content.lines, c) :
       /\ Places(content.lines, c) = {p}
       /\ Spliced(content.lines, Span(p, c), c.new) = aim

(* A retry is on its way to what its suggestion was made for.               *)
Aimed(r, content, memory) ==
  r.aim # Unset /\ r.whole /\ ~r.stale /\ r.call \in EditCall /\ r.call.tool = "edit" =>
    /\ r.step \in {"keeps", "reads"} => Hits(content, r.call, r.aim)
    /\ r.step \in {"writes", "verifies", "restores"} => r.next.lines = r.aim
    /\ r.step = "idle" =>
         \/ r.answer = "done" /\ r.next.lines = r.aim
         \/ r.answer = "refused" /\ memory /\ ~HasTopic([lines |-> r.aim])

(* A suggestion is good for as long as nobody changes the file.             *)
Offered(r, content) ==
  ~r.stale => \A o \in r.options : o.whole /\ o.call.tool = "edit" => Hits(content, o.call, o.aim)

JobOK(r, content, memory) ==
  /\ Formed(r, memory)
  /\ Steady(r, content, memory)
  /\ Exactly(r)
  /\ Aimed(r, content, memory)
  /\ Offered(r, content)

(* Only what has no topic is taken back; and a memory without one has an    *)
(* editor that found it with one, has written it, and has not looked at it  *)
(* yet or is about to take it back.                                         *)
TopicIsTakenBack ==
  ~lost => \A k \in work.editors : job[k].step = "restores" => ~HasTopic(job[k].next)

TopicIsWatched ==
  work.memory /\ ~lost /\ ~crashed /\ file # NoFile /\ ~HasTopic(file) =>
    \E k \in work.editors :
      /\ job[k].step \in {"verifies", "restores"}
      /\ job[k].seen = NoFile \/ HasTopic(job[k].seen)

FilesTyped ==
  /\ work \in Bounds /\ (work.memory => work.asked \cap ReplaceCall = {})
  /\ file \in Text
  /\ job \in [work.editors -> Job]
  /\ lost \in BOOLEAN /\ crashed \in BOOLEAN

FilesInv ==
  /\ FilesTyped
  /\ \A e \in work.editors : JobOK(job[e], file, work.memory)
  /\ TopicIsTakenBack
  /\ TopicIsWatched

-----------------------------------------------------------------------------
(* Lines and windows                                                        *)

(* A non-empty set of numbers has its Min.                                  *)
LEMMA MinIsIn ==
  ASSUME NEW S \in SUBSET Nat, S # {}
  PROVE  Min(S) \in S /\ \A j \in S : Min(S) <= j
<1>1. PICK k \in S : \A j \in S : ~ (<<j, k>> \in OpToRel(<, Nat))
  BY NatLessThanWellFounded, WFMin
<1>2. \A j \in S : ~(j < k)
  <2>1. ASSUME NEW j \in S, j < k PROVE <<j, k>> \in OpToRel(<, Nat)
    BY <2>1, Zenon DEF OpToRel
  <2> QED BY <1>1, <2>1
<1>3. \A j \in S : k <= j
  BY <1>2
<1> QED BY <1>3 DEF Min

(* What a window shows.                                                     *)
LEMMA WindowShows ==
  ASSUME NEW S, NEW s \in Seq(S), NEW m \in 1 .. Len(s) + 1, NEW n \in m - 1 .. Len(s)
  PROVE  /\ Window(s, <<m, n>>) \in Seq(S)
         /\ Len(Window(s, <<m, n>>)) = n - m + 1
         /\ \A i \in 1 .. n - m + 1 : Window(s, <<m, n>>)[i] = s[m + i - 1]
<1>1. Window(s, <<m, n>>) = SubSeq(s, m, n)
  BY DEF Window
<1>2. n \in Int /\ m \in Int /\ \A i \in m .. n : s[i] \in S
  OBVIOUS
<1>3. /\ SubSeq(s, m, n) \in Seq(S)
      /\ Len(SubSeq(s, m, n)) = IF m <= n THEN n - m + 1 ELSE 0
      /\ \A i \in 1 .. n - m + 1 : SubSeq(s, m, n)[i] = s[m + i - 1]
  BY <1>2, SubSeqProperties
<1>4. Len(SubSeq(s, m, n)) = n - m + 1
  BY <1>3
<1> QED BY <1>1, <1>3, <1>4

(* Lines around a window, with others in its place.                         *)
LEMMA SplicedIsLines ==
  ASSUME NEW S, NEW s \in Seq(S), NEW new \in Seq(S),
         NEW m \in 1 .. Len(s) + 1, NEW n \in m - 1 .. Len(s)
  PROVE  /\ Spliced(s, <<m, n>>, new) \in Seq(S)
         /\ Len(Spliced(s, <<m, n>>, new)) = m - 1 + Len(new) + Len(s) - n
         /\ n < Len(s) => /\ Spliced(s, <<m, n>>, new) # <<>>
                          /\ Last(Spliced(s, <<m, n>>, new)) = Last(s)
<1> DEFINE a == SubSeq(s, 1, m - 1)  b == SubSeq(s, n + 1, Len(s))  c == a \o new
           t == Spliced(s, <<m, n>>, new)
<1>0. Len(s) \in Nat /\ Len(new) \in Nat
  OBVIOUS
<1>1. a \in Seq(S) /\ Len(a) = m - 1
  BY <1>0, SubSeqProperties
<1>2. b \in Seq(S) /\ Len(b) = Len(s) - n
  BY <1>0, SubSeqProperties
<1>3. \A i \in 1 .. Len(s) - n : b[i] = s[n + i]
  BY <1>0, SubSeqProperties
<1>4. t = c \o b
  BY DEF Spliced
<1>5. c \in Seq(S) /\ Len(c) = m - 1 + Len(new)
  BY <1>1, ConcatProperties
<1> HIDE DEF a, b, c, t
<1>6. t \in Seq(S) /\ Len(t) = m - 1 + Len(new) + (Len(s) - n)
  <2>1. c \o b \in Seq(S) /\ Len(c \o b) = Len(c) + Len(b)
    BY <1>2, <1>5, ConcatProperties
  <2> QED BY <1>2, <1>4, <1>5, <2>1
<1>7. \A i \in 1 .. Len(c) + Len(b) :
        t[i] = IF i <= Len(c) THEN c[i] ELSE b[i - Len(c)]
  <2>1. \A i \in 1 .. Len(c) + Len(b) :
          (c \o b)[i] = IF i <= Len(c) THEN c[i] ELSE b[i - Len(c)]
    BY <1>2, <1>5, ConcatProperties
  <2> QED BY <1>4, <2>1
<1>8. ASSUME n < Len(s) PROVE t # <<>> /\ Last(t) = Last(s)
  <2>1. Len(t) \in 1 .. Len(c) + Len(b) /\ ~(Len(t) <= Len(c))
    BY <1>0, <1>2, <1>5, <1>6, <1>8
  <2>2. t[Len(t)] = b[Len(t) - Len(c)]
    BY <1>7, <2>1
  <2>3. Len(t) - Len(c) = Len(s) - n
    BY <1>0, <1>5, <1>6
  <2>4. Len(s) - n \in 1 .. Len(s) - n /\ n + (Len(s) - n) = Len(s)
    BY <1>0, <1>8
  <2>5. b[Len(s) - n] = s[Len(s)]
    BY <1>3, <2>4
  <2>6. t # <<>>
    BY <2>1
  <2> QED BY <2>2, <2>3, <2>5, <2>6 DEF Last
<1>9. Len(t) = m - 1 + Len(new) + Len(s) - n
  BY <1>0, <1>6
<1> QED BY <1>6, <1>8, <1>9 DEF t

(* Lines that are joined and split again stay lines; what apply() writes is *)
(* a file, and it has all the lines if it ends with one that has characters *)
(* or with a newline.                                                       *)
LEMMA ResplitIsLines ==
  ASSUME NEW s \in Seq(Line)
  PROVE  /\ Resplit(s) \in Seq(Line)
         /\ Resplit(s) # s => Len(Resplit(s)) = Len(s) - 1
         /\ s = <<>> \/ Last(s) # Blank => Resplit(s) = s
         /\ s # <<>> /\ Last(s) = Blank => Resplit(s) # s
<1>1. CASE s # <<>> /\ Last(s) = Blank
  <2>1. Resplit(s) = SubSeq(s, 1, Len(s) - 1)
    BY <1>1 DEF Resplit, Front
  <2>2. Len(s) \in Nat /\ Len(s) >= 1
    BY <1>1, EmptySeq
  <2>3. SubSeq(s, 1, Len(s) - 1) \in Seq(Line) /\ Len(SubSeq(s, 1, Len(s) - 1)) = Len(s) - 1
    BY <2>2, SubSeqProperties
  <2>4. Resplit(s) # s
    BY <2>1, <2>2, <2>3
  <2> QED BY <1>1, <2>1, <2>3, <2>4
<1>2. CASE ~(s # <<>> /\ Last(s) = Blank)
  BY <1>2 DEF Resplit
<1> QED BY <1>1, <1>2

LEMMA NothingIsContent == Nothing \in Content
<1>1. <<>> \in Seq(Line)
  OBVIOUS
<1> QED BY <1>1 DEF Nothing, Content

LEMMA JoinedIsContent ==
  ASSUME NEW s \in Seq(Line), NEW ended \in BOOLEAN, ended => s # <<>>
  PROVE  /\ Joined(s, ended) \in Content
         /\ ended \/ s = <<>> \/ Last(s) # Blank =>
              Joined(s, ended).lines = s /\ Joined(s, ended).ended = ended
<1>1. CASE ended
  BY <1>1 DEF Joined, Content
<1>2. CASE ~ended
  <2> DEFINE t == Resplit(s)
  <2>1. Joined(s, ended) = [lines |-> t, ended |-> Len(t) \notin {0, Len(s)}]
    BY <1>2 DEF Joined
  <2>2. t \in Seq(Line)
    BY ResplitIsLines
  <2>3. CASE t = s
    <3>1. Joined(s, ended) = [lines |-> s, ended |-> FALSE]
      BY <2>1, <2>3
    <3>2. s = <<>> \/ Last(s) # Blank
      BY <2>3, ResplitIsLines
    <3>3. [lines |-> s, ended |-> FALSE] \in Content
      BY <3>2, Zenon DEF Content
    <3>4. ended = FALSE /\ Joined(s, ended).lines = s /\ Joined(s, ended).ended = FALSE
      BY <1>2, <3>1
    <3> QED BY <3>1, <3>3, <3>4, Zenon
  <2>4. CASE t # s
    <3>1. Len(t) = Len(s) - 1 /\ Len(s) \in Nat /\ s # <<>> /\ Last(s) = Blank
      BY <2>4, ResplitIsLines
    <3>2. Len(t) # Len(s)
      BY <3>1
    <3>3. Joined(s, ended) = [lines |-> t, ended |-> t # <<>>]
      BY <2>1, <2>2, <3>2, EmptySeq
    <3>4. CASE t = <<>>
      <4>1. Joined(s, ended) = Nothing
        BY <3>3, <3>4 DEF Nothing
      <4> QED BY <1>2, <3>1, <4>1, NothingIsContent
    <3>5. CASE t # <<>>
      <4>1. Joined(s, ended) = [lines |-> t, ended |-> TRUE]
        BY <3>3, <3>5
      <4>2. [lines |-> t, ended |-> TRUE] \in Content
        BY <2>2, <3>5 DEF Content
      <4> QED BY <1>2, <3>1, <4>1, <4>2
    <3> QED BY <3>4, <3>5
  <2> QED BY <2>3, <2>4
<1> QED BY <1>1, <1>2

-----------------------------------------------------------------------------
(* Matching and editing                                                     *)

LEMMA StartsAreLines ==
  ASSUME NEW lines \in Seq(Line), NEW block \in Seq(Line),
         NEW s \in BlockStarts(lines, block, TRUE)
  PROVE  /\ s \in 1 .. Len(lines) /\ s \in Nat
         /\ block # <<>> /\ Len(block) \in Nat \ {0}
         /\ s + Len(block) - 1 \in s .. Len(lines)
<1>1. s \in 1 .. Len(lines) /\ block # <<>> /\ s + Len(block) - 1 <= Len(lines)
  BY DEF BlockStarts
<1>2. Len(block) \in Nat /\ Len(block) # 0
  BY <1>1, EmptySeq
<1> QED BY <1>1, <1>2

(* What matches exactly matches without its white space as well.            *)
LEMMA UniqueIsFuzzy ==
  ASSUME NEW lines, NEW block
  PROVE  UniqueOrFuzzy(lines, block) \subseteq BlockStarts(lines, block, TRUE)
<1>1. ASSUME NEW actual, BlockMatches(actual, block, FALSE) PROVE BlockMatches(actual, block, TRUE)
  BY <1>1 DEF BlockMatches
<1>2. BlockStarts(lines, block, FALSE) \subseteq BlockStarts(lines, block, TRUE)
  BY <1>1 DEF BlockStarts
<1> QED BY <1>2 DEF UniqueOrFuzzy

LEMMA PlacesMatch ==
  ASSUME NEW lines \in Seq(Line), NEW c \in EditCall, NEW p \in Places(lines, c)
  PROVE  /\ p = <<p[1], p[2]>>
         /\ p[1] \in BlockStarts(lines, c.first, TRUE)
         /\ p[2] \in BlockStarts(lines, c.last, TRUE)
         /\ p[1] \in Nat /\ p[2] \in Nat /\ p[1] <= p[2]
<1> DEFINE firsts == UniqueOrFuzzy(lines, c.first)
           lasts == UniqueOrFuzzy(lines, c.last)
           After(s) == {e \in lasts : e >= s}
<1>1. c.first \in Seq(Line) /\ c.last \in Seq(Line) /\ (c.tool = "edit" => c.first = c.last)
  BY DEF EditCall
<1>2. firsts \subseteq BlockStarts(lines, c.first, TRUE) /\ lasts \subseteq BlockStarts(lines, c.last, TRUE)
  BY UniqueIsFuzzy
<1>3. firsts \subseteq Nat /\ lasts \subseteq Nat
  <2>1. ASSUME NEW s \in firsts PROVE s \in Nat
    <3>1. s \in BlockStarts(lines, c.first, TRUE)
      BY <1>2
    <3> QED BY <1>1, <3>1, StartsAreLines
  <2>2. ASSUME NEW s \in lasts PROVE s \in Nat
    <3>1. s \in BlockStarts(lines, c.last, TRUE)
      BY <1>2
    <3> QED BY <1>1, <3>1, StartsAreLines
  <2> QED BY <2>1, <2>2
<1> HIDE DEF firsts, lasts
<1>4. CASE c.tool = "edit"
  <2>1. PICK s \in firsts : p = <<s, s>>
    BY <1>4 DEF Places, firsts
  <2>2. s \in Nat /\ s \in BlockStarts(lines, c.first, TRUE) /\ c.last = c.first
    BY <1>1, <1>2, <1>3, <1>4
  <2>3. p[1] = s /\ p[2] = s
    BY <2>1
  <2>4. p[1] \in BlockStarts(lines, c.first, TRUE) /\ p[2] \in BlockStarts(lines, c.last, TRUE)
    BY <2>2, <2>3, Zenon
  <2>5. p = <<p[1], p[2]>>
    BY <2>1
  <2>6. p[1] \in Nat /\ p[2] \in Nat /\ p[1] <= p[2]
    BY <2>2, <2>3
  <2> QED BY <2>4, <2>5, <2>6, Zenon
<1>5. CASE c.tool # "edit"
  <2>1. Places(lines, c) = {<<s, Min(After(s))>> : s \in {f \in firsts : After(f) # {}}}
    BY <1>5 DEF Places, firsts, lasts
  <2>2. PICK s \in firsts : After(s) # {} /\ p = <<s, Min(After(s))>>
    BY <2>1
  <2>3. After(s) \in SUBSET Nat
    BY <1>3
  <2>4. Min(After(s)) \in After(s)
    BY <2>2, <2>3, MinIsIn
  <2> QED BY <1>2, <1>3, <2>2, <2>4
<1> QED BY <1>4, <1>5

(* The lines of a place lie in the file.                                    *)
LEMMA SpanIsWindow ==
  ASSUME NEW lines \in Seq(Line), NEW c \in EditCall, NEW p \in Places(lines, c)
  PROVE  /\ Span(p, c) = <<Span(p, c)[1], Span(p, c)[2]>>
         /\ Span(p, c)[1] = p[1] /\ Span(p, c)[2] - Len(c.last) + 1 = p[2]
         /\ Span(p, c)[1] \in 1 .. Len(lines)
         /\ Span(p, c)[2] \in Span(p, c)[1] .. Len(lines)
<1>1. c.first \in Seq(Line) /\ c.last \in Seq(Line)
  BY DEF EditCall
<1>2. p[1] \in 1 .. Len(lines) /\ p[2] \in 1 .. Len(lines) /\ p[1] <= p[2]
  BY <1>1, PlacesMatch, StartsAreLines
<1>3. Len(c.last) \in Nat \ {0} /\ p[2] + Len(c.last) - 1 \in p[2] .. Len(lines)
  BY <1>1, PlacesMatch, StartsAreLines
<1>4. Span(p, c) = <<p[1], p[2] + Len(c.last) - 1>>
  BY DEF Span
<1> QED BY <1>2, <1>3, <1>4

(* An edit that resolves to a place makes a file of the lines around it and *)
(* the new ones, and is exact.                                              *)
LEMMA EditedIsExact ==
  ASSUME NEW content \in Content, NEW c \in EditCall, NEW p \in Places(content.lines, c)
  PROVE  /\ Edited(content, Span(p, c), c.new) \in Content
         /\ Edited(content, Span(p, c), c.new).lines = Spliced(content.lines, Span(p, c), c.new)
         /\ Exact(content, c, Edited(content, Span(p, c), c.new))
<1> DEFINE lines == content.lines
           t == Spliced(lines, Span(p, c), c.new)
           ended == IF Span(p, c)[2] = Len(lines) THEN t # <<>> ELSE content.ended
<1>0. /\ lines \in Seq(Line) /\ Len(lines) \in Nat /\ content.ended \in BOOLEAN
      /\ content.ended \/ lines = <<>> \/ Last(lines) # Blank
  BY DEF Content
<1>1. c.new \in Seq(Line) /\ p \in Places(lines, c)
  BY DEF EditCall
<1> HIDE DEF lines
<1>2. PICK m \in 1 .. Len(lines), n \in 1 .. Len(lines) : m <= n /\
        Span(p, c) = <<m, n>> /\ m = p[1] /\ n - Len(c.last) + 1 = p[2]
  BY <1>0, <1>1, SpanIsWindow
<1>3. /\ t = Spliced(lines, <<m, n>>, c.new)
      /\ n = Len(lines) => (ended <=> t # <<>>)
      /\ n # Len(lines) => (ended <=> content.ended)
  BY <1>2
<1>4. m \in 1 .. Len(lines) + 1 /\ n \in m - 1 .. Len(lines) /\ n \in 0 .. Len(lines)
  BY <1>0, <1>2
<1>5. t \in Seq(Line) /\ (n < Len(lines) => t # <<>> /\ Last(t) = Last(lines))
  BY <1>0, <1>1, <1>3, <1>4, SplicedIsLines
<1>6. lines # <<>>
  BY <1>2, EmptySeq
<1>7. ended \in BOOLEAN
  BY <1>0
<1> HIDE DEF t, ended
<1>8. ended => t # <<>>
  BY <1>3, <1>4, <1>5
<1>9. ended \/ t = <<>> \/ Last(t) # Blank
  BY <1>0, <1>3, <1>4, <1>5, <1>6
<1>10. Edited(content, Span(p, c), c.new) = Joined(t, ended)
  BY DEF Edited, lines, t, ended
<1>11. Joined(t, ended) \in Content /\ Joined(t, ended).lines = t /\ Joined(t, ended).ended = ended
  BY <1>5, <1>7, <1>8, <1>9, JoinedIsContent
<1>12. Exact(content, c, Joined(t, ended))
  <2>1. content # NoFile
    BY EditsAssumption
  <2>2. p[1] \in BlockStarts(lines, c.first, TRUE) /\ p[2] \in BlockStarts(lines, c.last, TRUE) /\ p[1] <= p[2]
    BY <1>0, <1>1, PlacesMatch
  <2>3. Joined(t, ended).ended = IF n < Len(lines) THEN content.ended ELSE Joined(t, ended).lines # <<>>
    <3>1. CASE n < Len(lines)
      <4>1. ended = content.ended
        BY <1>0, <1>3, <1>7, <3>1
      <4> QED BY <1>11, <3>1, <4>1
    <3>2. CASE ~(n < Len(lines))
      <4>1. n = Len(lines)
        BY <1>2, <3>2
      <4>2. ended = (t # <<>>)
        BY <1>3, <1>7, <4>1
      <4> QED BY <1>11, <3>2, <4>2
    <3> QED BY <3>1, <3>2
  <2>4. Joined(t, ended).lines = Spliced(lines, <<m, n>>, c.new)
    BY <1>3, <1>11
  <2>5. m \in BlockStarts(lines, c.first, TRUE) /\ n - Len(c.last) + 1 \in BlockStarts(lines, c.last, TRUE)
          /\ m <= n - Len(c.last) + 1
    BY <1>2, <2>2
  <2> QED BY <1>4, <2>1, <2>3, <2>4, <2>5 DEF Exact, lines
<1> QED BY <1>10, <1>11, <1>12 DEF t, lines

(* An edit with empty anchors makes a file of its new lines out of nothing. *)
LEMMA MadeIsExact ==
  ASSUME NEW was \in Text, was = NoFile \/ was.lines = <<>>, NEW c \in EditCall
  PROVE  /\ Edited(IF was = NoFile THEN Nothing ELSE was, <<1, 0>>, c.new) \in Content
         /\ Exact(was, c, Edited(IF was = NoFile THEN Nothing ELSE was, <<1, 0>>, c.new))
<1> DEFINE old == IF was = NoFile THEN Nothing ELSE was
<1>1. old \in Content /\ old.lines = <<>> /\ old.ended \in BOOLEAN
  BY NothingIsContent DEF Nothing, Text, Content
<1>2. c.new \in Seq(Line)
  BY DEF EditCall
<1>3. Spliced(old.lines, <<1, 0>>, c.new) = c.new
  <2>1. SubSeq(old.lines, 1, 0) = <<>> /\ SubSeq(old.lines, 1, Len(old.lines)) = <<>>
    BY <1>1, SubSeqEmpty
  <2>2. <<>> \o c.new = c.new /\ c.new \o <<>> = c.new
    BY <1>2, ConcatEmptySeq
  <2>3. Spliced(old.lines, <<1, 0>>, c.new) = SubSeq(old.lines, 1, 0) \o c.new \o SubSeq(old.lines, 1, Len(old.lines))
    <3>1. 1 - 1 = 0 /\ 0 + 1 = 1 /\ <<1, 0>>[1] = 1 /\ <<1, 0>>[2] = 0
      OBVIOUS
    <3> QED BY <3>1 DEF Spliced
  <2> QED BY <2>1, <2>2, <2>3
<1>4. Edited(old, <<1, 0>>, c.new) = Joined(c.new, c.new # <<>>)
  BY <1>1, <1>3 DEF Edited
<1>5. (c.new # <<>>) \in BOOLEAN
  OBVIOUS
<1>6. /\ Joined(c.new, c.new # <<>>) \in Content
      /\ Joined(c.new, c.new # <<>>).lines = c.new
      /\ Joined(c.new, c.new # <<>>).ended = (c.new # <<>>)
  BY <1>2, <1>5, JoinedIsContent
<1> DEFINE new == Edited(old, <<1, 0>>, c.new)
<1>7. new \in Content /\ new.lines = c.new /\ new.ended = (new.lines # <<>>)
  BY <1>4, <1>6
<1> HIDE DEF old, new
<1>8. \E first \in 1 .. Len(old.lines) + 1, last \in 0 .. Len(old.lines) :
        /\ old.lines # <<>> =>
             /\ first \in BlockStarts(old.lines, c.first, TRUE)
             /\ last - Len(c.last) + 1 \in BlockStarts(old.lines, c.last, TRUE)
             /\ first <= last - Len(c.last) + 1
        /\ new.lines = Spliced(old.lines, <<first, last>>, c.new)
        /\ new.ended = IF last < Len(old.lines) THEN old.ended ELSE new.lines # <<>>
  <2>1. 1 \in 1 .. Len(old.lines) + 1 /\ 0 \in 0 .. Len(old.lines) /\ ~(0 < Len(old.lines))
    BY <1>1
  <2>2. new.ended = IF 0 < Len(old.lines) THEN old.ended ELSE new.lines # <<>>
    BY <1>7, <2>1
  <2> QED BY <1>1, <1>3, <1>7, <2>1, <2>2
<1>9. Exact(was, c, new)
  BY <1>8 DEF Exact, old
<1> QED BY <1>7, <1>9 DEF new, old

(* ReplaceAll makes a file, too.                                            *)
LEMMA ReplacedIsContent ==
  ASSUME NEW content \in Content, NEW old, NEW new \in Line
  PROVE  Joined([i \in DOMAIN content.lines |-> IF content.lines[i] = old THEN new ELSE content.lines[i]],
                content.ended) \in Content
<1> DEFINE lines == content.lines
           t == [i \in DOMAIN lines |-> IF lines[i] = old THEN new ELSE lines[i]]
<1>1. lines \in Seq(Line) /\ content.ended \in BOOLEAN /\ (content.ended => lines # <<>>)
  BY DEF Content
<1>2. DOMAIN lines = 1 .. Len(lines) /\ Len(lines) \in Nat /\ \A i \in 1 .. Len(lines) : lines[i] \in Line
  BY <1>1
<1> HIDE DEF lines
<1>3. t \in [1 .. Len(lines) -> Line]
  BY <1>2
<1>4. t \in Seq(Line) /\ Len(t) = Len(lines)
  BY <1>2, <1>3, IsASeq
<1>5. content.ended => t # <<>>
  BY <1>1, <1>4, EmptySeq
<1> QED BY <1>1, <1>4, <1>5, JoinedIsContent DEF lines

-----------------------------------------------------------------------------
(* Suggestions                                                              *)

(* A span that n lines of context are added to stays in the file, and grows *)
(* to all of it in the end.                                                 *)
LEMMA WidenedIsWindow ==
  ASSUME NEW lines \in Seq(Line), NEW a \in 1 .. Len(lines), NEW b \in a .. Len(lines), NEW n \in Nat
  PROVE  /\ Widened(lines, <<a, b>>, n) =
              <<IF a > n THEN a - n ELSE 1, IF Len(lines) <= b + n THEN Len(lines) ELSE b + n>>
         /\ Widened(lines, <<a, b>>, n)[1] \in 1 .. a
         /\ Widened(lines, <<a, b>>, n)[2] \in b .. Len(lines)
         /\ n = Len(lines) => Widened(lines, <<a, b>>, n) = <<1, Len(lines)>>
<1>0. Len(lines) \in Nat /\ a \in Nat /\ b \in Nat
  OBVIOUS
<1>1. {Len(lines), b + n} \in SUBSET Nat /\ {Len(lines), b + n} # {}
  BY <1>0
<1>2. /\ Min({Len(lines), b + n}) \in {Len(lines), b + n}
      /\ \A j \in {Len(lines), b + n} : Min({Len(lines), b + n}) <= j
  BY <1>1, MinIsIn
<1> DEFINE low == Min({Len(lines), b + n})
<1>3. low \in {Len(lines), b + n} /\ low <= Len(lines) /\ low <= b + n
  BY <1>2
<1>4. Widened(lines, <<a, b>>, n) = <<IF a > n THEN a - n ELSE 1, low>>
  BY DEF Widened
<1> HIDE DEF low
<1>5. low = IF Len(lines) <= b + n THEN Len(lines) ELSE b + n
  BY <1>0, <1>3
<1>6. low \in b .. Len(lines) /\ (IF a > n THEN a - n ELSE 1) \in 1 .. a
  BY <1>0, <1>5
<1>7. n = Len(lines) => low = Len(lines) /\ (IF a > n THEN a - n ELSE 1) = 1
  BY <1>0, <1>5
<1> QED BY <1>4, <1>5, <1>6, <1>7

LEMMA WholeFileIsUnique ==
  ASSUME NEW lines \in Seq(Line), lines # <<>>
  PROVE  BlockStarts(lines, Window(lines, <<1, Len(lines)>>), FALSE) = {1}
<1>0. Len(lines) \in Nat /\ Len(lines) >= 1
  BY EmptySeq
<1>1. Window(lines, <<1, Len(lines)>>) = lines
  BY SubSeqFull DEF Window
<1>2. \A s \in BlockStarts(lines, lines, FALSE) : s = 1
  <2>1. ASSUME NEW s \in BlockStarts(lines, lines, FALSE) PROVE s = 1
    <3>1. s \in 1 .. Len(lines) /\ s + Len(lines) - 1 <= Len(lines)
      BY DEF BlockStarts
    <3> QED BY <1>0, <3>1
  <2> QED BY <2>1
<1>3. 1 \in BlockStarts(lines, lines, FALSE)
  <2>1. 1 + Len(lines) - 1 = Len(lines) /\ 1 \in 1 .. Len(lines)
    BY <1>0
  <2>2. BlockMatches(Window(lines, <<1, 1 + Len(lines) - 1>>), lines, FALSE)
    BY <1>1, <2>1 DEF BlockMatches
  <2>3. 1 + Len(lines) - 1 <= Len(lines)
    BY <1>0
  <2> QED BY <2>1, <2>2, <2>3 DEF BlockStarts
<1> QED BY <1>1, <1>2, <1>3

(* There is a context with which every span is found at one place.          *)
LEMMA ContextResolves ==
  ASSUME NEW lines \in Seq(Line), lines # <<>>,
         NEW spans, \A s \in spans : \E a \in 1 .. Len(lines), b \in 1 .. Len(lines) : a <= b /\ s = <<a, b>>
  PROVE  /\ Context(lines, spans) \in 1 .. Len(lines)
         /\ \A s \in spans : SpanResolved(lines, s, Context(lines, spans))
<1> DEFINE S == {n \in 1 .. Len(lines) : \A s \in spans : SpanResolved(lines, s, n)}
<1>1. S \in SUBSET Nat
  OBVIOUS
<1>2. Len(lines) \in Nat /\ Len(lines) \in 1 .. Len(lines)
  BY EmptySeq
<1>3. ASSUME NEW s \in spans PROVE SpanResolved(lines, s, Len(lines))
  <2>1. PICK a \in 1 .. Len(lines), b \in 1 .. Len(lines) : a <= b /\ s = <<a, b>>
    OBVIOUS
  <2>2. b \in a .. Len(lines)
    BY <1>2, <2>1
  <2>3. Widened(lines, <<a, b>>, Len(lines)) = <<1, Len(lines)>>
    BY <1>2, <2>2, WidenedIsWindow
  <2>4. Widened(lines, s, Len(lines)) = <<1, Len(lines)>> /\ <<1, Len(lines)>>[1] = 1
    BY <2>1, <2>3
  <2> QED BY <2>4, WholeFileIsUnique DEF SpanResolved
<1>4. S # {}
  BY <1>2, <1>3
<1>5. Context(lines, spans) = Min(S)
  BY DEF Context
<1> HIDE DEF S
<1>6. Min(S) \in S
  BY <1>1, <1>4, MinIsIn
<1> QED BY <1>5, <1>6 DEF S

(* What a suggestion is made of.                                            *)
LEMMA SuggestionParts ==
  ASSUME NEW lines \in Seq(Line), NEW c \in EditCall, NEW o \in Suggestions(lines, c)
  PROVE  \E p \in Places(lines, c), n \in 1 .. Len(lines) :
           /\ o = Suggestion(lines, c, p, n)
           /\ SpanResolved(lines, Span(p, c), n)
<1> DEFINE spans == {Span(p, c) : p \in Places(lines, c)}
           n == Context(lines, spans)
<1>1. PICK p \in Places(lines, c) : o = Suggestion(lines, c, p, n)
  BY DEF Suggestions
<1>2. Len(lines) \in Nat
  OBVIOUS
<1>3. \A s \in spans : \E a \in 1 .. Len(lines), b \in 1 .. Len(lines) : a <= b /\ s = <<a, b>>
  <2>1. ASSUME NEW q \in Places(lines, c)
        PROVE  \E a \in 1 .. Len(lines), b \in 1 .. Len(lines) : a <= b /\ Span(q, c) = <<a, b>>
    <3>1. /\ Span(q, c) = <<Span(q, c)[1], Span(q, c)[2]>>
          /\ Span(q, c)[1] \in 1 .. Len(lines)
          /\ Span(q, c)[2] \in Span(q, c)[1] .. Len(lines)
      BY SpanIsWindow
    <3>2. Span(q, c)[2] \in 1 .. Len(lines) /\ Span(q, c)[1] <= Span(q, c)[2]
      BY <1>2, <3>1
    <3> QED BY <3>1, <3>2
  <2> QED BY <2>1
<1>4. lines # <<>>
  <2>1. Span(p, c)[1] \in 1 .. Len(lines)
    BY SpanIsWindow
  <2> QED BY <2>1, EmptySeq
<1>5. Span(p, c) \in spans
  OBVIOUS
<1> HIDE DEF spans
<1>6. n \in 1 .. Len(lines) /\ SpanResolved(lines, Span(p, c), n)
  BY <1>3, <1>4, <1>5, ContextResolves
<1> QED BY <1>1, <1>6

(* Where the windows of a suggestion begin and end.                         *)
LEMMA SuggestionWindows ==
  ASSUME NEW lines \in Seq(Line), NEW c \in EditCall, NEW p \in Places(lines, c),
         NEW n \in 1 .. Len(lines)
  PROVE  \E a \in 1 .. Len(lines), b \in 1 .. Len(lines), u \in 1 .. Len(lines), v \in 1 .. Len(lines) :
           /\ Span(p, c) = <<a, b>> /\ Widened(lines, Span(p, c), n) = <<u, v>>
           /\ u <= a /\ a <= b /\ b <= v
           /\ p[1] = a /\ p[2] \in a .. b
           /\ p[1] + Len(c.first) - 1 \in a .. Len(lines)
<1>0. Len(lines) \in Nat /\ n \in Nat
  OBVIOUS
<1>1. PICK a \in 1 .. Len(lines), b \in 1 .. Len(lines) :
        a <= b /\ Span(p, c) = <<a, b>> /\ p[1] = a /\ b - Len(c.last) + 1 = p[2]
  <2>1. /\ Span(p, c) = <<Span(p, c)[1], Span(p, c)[2]>>
        /\ Span(p, c)[1] = p[1] /\ Span(p, c)[2] - Len(c.last) + 1 = p[2]
        /\ Span(p, c)[1] \in 1 .. Len(lines)
        /\ Span(p, c)[2] \in Span(p, c)[1] .. Len(lines)
    BY SpanIsWindow
  <2>2. Span(p, c)[2] \in 1 .. Len(lines) /\ Span(p, c)[1] <= Span(p, c)[2]
    BY <1>0, <2>1
  <2> QED BY <2>1, <2>2
<1>2. b \in a .. Len(lines)
  BY <1>0, <1>1
<1>3. PICK u \in 1 .. Len(lines), v \in 1 .. Len(lines) :
        u <= a /\ b <= v /\ Widened(lines, <<a, b>>, n) = <<u, v>>
  <2>1. /\ Widened(lines, <<a, b>>, n) =
              <<IF a > n THEN a - n ELSE 1, IF Len(lines) <= b + n THEN Len(lines) ELSE b + n>>
        /\ Widened(lines, <<a, b>>, n)[1] \in 1 .. a
        /\ Widened(lines, <<a, b>>, n)[2] \in b .. Len(lines)
    BY <1>0, <1>2, WidenedIsWindow
  <2>2. Widened(lines, <<a, b>>, n) =
          <<Widened(lines, <<a, b>>, n)[1], Widened(lines, <<a, b>>, n)[2]>>
    BY <2>1
  <2> QED BY <1>0, <2>1, <2>2
<1>4. c.first \in Seq(Line) /\ c.last \in Seq(Line)
  BY DEF EditCall
<1>5. /\ p[1] \in BlockStarts(lines, c.first, TRUE) /\ p[2] \in BlockStarts(lines, c.last, TRUE)
      /\ p[1] <= p[2] /\ p[1] \in Nat /\ p[2] \in Nat
  BY PlacesMatch
<1>6. p[1] + Len(c.first) - 1 \in p[1] .. Len(lines) /\ Len(c.last) \in Nat \ {0}
  BY <1>4, <1>5, StartsAreLines
<1>7. p[2] \in a .. b
  <2> DEFINE q == p[2]  k == Len(c.last)
  <2>1. b - k + 1 = q /\ a <= q
    BY <1>1, <1>5
  <2>2. k \in Nat /\ k # 0 /\ q \in Nat /\ a \in Nat /\ b \in Nat
    BY <1>0, <1>5, <1>6
  <2> HIDE DEF q, k
  <2>3. q \in a .. b
    BY <2>1, <2>2
  <2> QED BY <2>3 DEF q
<1> QED BY <1>0, <1>1, <1>3, <1>6, <1>7

(* A suggestion is a call, and an aim.                                      *)
LEMMA SuggestionIsTyped ==
  ASSUME NEW lines \in Seq(Line), NEW c \in EditCall, NEW o \in Suggestions(lines, c)
  PROVE  o \in Offer
<1>1. PICK p \in Places(lines, c), n \in 1 .. Len(lines) : o = Suggestion(lines, c, p, n)
  BY SuggestionParts
<1> DEFINE span == Span(p, c)
           wide == Widened(lines, span, n)
           first == IF c.tool = "edit" THEN Window(lines, wide)
                    ELSE Window(lines, <<wide[1], p[1] + Len(c.first) - 1>>)
           last == IF c.tool = "edit" THEN first ELSE Window(lines, <<p[2], wide[2]>>)
           new == Window(lines, <<wide[1], span[1] - 1>>) \o c.new
                    \o Window(lines, <<span[2] + 1, wide[2]>>)
           call0 == [tool |-> c.tool, first |-> Resplit(first), last |-> Resplit(last),
                     new |-> Resplit(new)]
           whole == \A s \in {first, last, new} : Resplit(s) = s
<1>2. o = [call |-> call0, whole |-> whole, aim |-> Spliced(lines, span, c.new)]
  BY <1>1 DEF Suggestion
<1>3. PICK a \in 1 .. Len(lines), b \in 1 .. Len(lines), u \in 1 .. Len(lines), v \in 1 .. Len(lines) :
        /\ span = <<a, b>> /\ wide = <<u, v>>
        /\ u <= a /\ a <= b /\ b <= v
        /\ p[1] = a /\ p[2] \in a .. b
        /\ p[1] + Len(c.first) - 1 \in a .. Len(lines)
  BY SuggestionWindows
<1> HIDE DEF span, wide
<1>4. c.new \in Seq(Line) /\ c.tool \in {"edit", "range"}
  BY DEF EditCall
<1>5. Len(lines) \in Nat
  OBVIOUS
<1>6. Window(lines, wide) \in Seq(Line) /\ Window(lines, <<p[2], wide[2]>>) \in Seq(Line)
  <2>1. u \in 1 .. Len(lines) + 1 /\ v \in u - 1 .. Len(lines)
    BY <1>3, <1>5
  <2>2. p[2] \in 1 .. Len(lines) + 1 /\ v \in p[2] - 1 .. Len(lines)
    BY <1>3, <1>5
  <2>3. wide[2] = v
    BY <1>3
  <2>4. Window(lines, <<u, v>>) \in Seq(Line) /\ Window(lines, <<p[2], v>>) \in Seq(Line)
    BY <2>1, <2>2, WindowShows
  <2> QED BY <1>3, <2>3, <2>4
<1>7. Window(lines, <<wide[1], p[1] + Len(c.first) - 1>>) \in Seq(Line)
  <2>1. u \in 1 .. Len(lines) + 1 /\ p[1] + Len(c.first) - 1 \in u - 1 .. Len(lines) /\ wide[1] = u
    BY <1>3, <1>5
  <2> QED BY <2>1, WindowShows
<1>8. Window(lines, <<wide[1], span[1] - 1>>) \in Seq(Line)
        /\ Window(lines, <<span[2] + 1, wide[2]>>) \in Seq(Line)
  <2>1. u \in 1 .. Len(lines) + 1 /\ a - 1 \in u - 1 .. Len(lines)
    BY <1>3, <1>5
  <2>2. b + 1 \in 1 .. Len(lines) + 1 /\ v \in (b + 1) - 1 .. Len(lines)
    BY <1>3, <1>5
  <2>3. wide[1] = u /\ wide[2] = v /\ span[1] = a /\ span[2] = b
    BY <1>3
  <2>4. Window(lines, <<u, a - 1>>) \in Seq(Line) /\ Window(lines, <<b + 1, v>>) \in Seq(Line)
    BY <2>1, <2>2, WindowShows
  <2> QED BY <2>3, <2>4
<1>9. first \in Seq(Line) /\ last \in Seq(Line) /\ (c.tool = "edit" => first = last)
  BY <1>6, <1>7
<1>10. new \in Seq(Line)
  BY <1>4, <1>8, ConcatProperties
<1>11. Spliced(lines, span, c.new) \in Seq(Line)
  <2>1. a \in 1 .. Len(lines) + 1 /\ b \in a - 1 .. Len(lines)
    BY <1>3, <1>5
  <2> QED BY <1>3, <1>4, <2>1, SplicedIsLines
<1>12. whole \in BOOLEAN
  OBVIOUS
<1> HIDE DEF first, last, new, whole
<1>13. Resplit(first) \in Seq(Line) /\ Resplit(last) \in Seq(Line) /\ Resplit(new) \in Seq(Line)
  BY <1>9, <1>10, ResplitIsLines
<1>14. call0 \in EditCall
  BY <1>4, <1>9, <1>13 DEF EditCall
<1> HIDE DEF call0
<1> QED BY <1>2, <1>11, <1>12, <1>14 DEF Offer

LEMMA LinesAssociate ==
  \A s, t, u \in Seq(Line) : (s \o t) \o u = s \o (t \o u)
<1> SUFFICES ASSUME NEW s \in Seq(Line), NEW t \in Seq(Line), NEW u \in Seq(Line)
             PROVE  (s \o t) \o u = s \o (t \o u)
  OBVIOUS
<1> QED BY ConcatAssociative

(* Sent back to the file it was made of, a suggestion of an edit from which *)
(* nothing goes missing finds the one place that it shows, and makes of the *)
(* file what it was made for (_describe_old_text_ambiguity).                *)
THEOREM SuggestionHits ==
  ASSUME NEW content \in Content, NEW c \in EditCall, NEW o \in Suggestions(content.lines, c),
         o.whole, o.call.tool = "edit"
  PROVE  Hits(content, o.call, o.aim)
<1> DEFINE lines == content.lines
<1>0. lines \in Seq(Line) /\ Len(lines) \in Nat
  BY DEF Content
<1>1. PICK p \in Places(lines, c), n \in 1 .. Len(lines) :
        o = Suggestion(lines, c, p, n) /\ SpanResolved(lines, Span(p, c), n)
  BY <1>0, SuggestionParts
<1> HIDE DEF lines
<1> DEFINE span == Span(p, c)
           wide == Widened(lines, span, n)
           first == Window(lines, wide)
           new == Window(lines, <<wide[1], span[1] - 1>>) \o c.new
                    \o Window(lines, <<span[2] + 1, wide[2]>>)
<1>2. PICK a \in 1 .. Len(lines), b \in 1 .. Len(lines), u \in 1 .. Len(lines), v \in 1 .. Len(lines) :
        /\ span = <<a, b>> /\ wide = <<u, v>>
        /\ u <= a /\ a <= b /\ b <= v
  BY <1>0, <1>1, SuggestionWindows
<1>3. c.tool = "edit" /\ c.new \in Seq(Line)
  BY <1>1 DEF Suggestion, EditCall
<1>4. o.call = [tool |-> "edit", first |-> first, last |-> first, new |-> new]
  <2>1. /\ o.call = [tool |-> "edit", first |-> Resplit(first), last |-> Resplit(first),
                     new |-> Resplit(new)]
        /\ \A s \in {first, first, new} : Resplit(s) = s
    BY <1>1, <1>3 DEF Suggestion
  <2> HIDE DEF first, new
  <2> QED BY <2>1
<1>5. o.aim = Spliced(lines, <<a, b>>, c.new)
  <2>1. o.aim = Spliced(lines, span, c.new)
    BY <1>1 DEF Suggestion
  <2> QED BY <1>2, <2>1
<1>6. BlockStarts(lines, first, FALSE) = {u}
  <2>1. BlockStarts(lines, first, FALSE) = {wide[1]}
    BY <1>1 DEF SpanResolved
  <2>2. wide[1] = u
    BY <1>2
  <2> QED BY <2>1, <2>2, Zenon
<1>17. /\ first = Window(lines, <<u, v>>)
      /\ new = (Window(lines, <<u, a - 1>>) \o c.new) \o Window(lines, <<b + 1, v>>)
  <2>1. wide[1] = u /\ wide[2] = v /\ span[1] = a /\ span[2] = b
    BY <1>2
  <2> HIDE DEF span, wide
  <2> QED BY <1>2, <2>1
<1> HIDE DEF first, new, span, wide
<1>7. u \in 1 .. Len(lines) + 1 /\ v \in u - 1 .. Len(lines)
  BY <1>0, <1>2
<1>8. first \in Seq(Line) /\ Len(first) = v - u + 1
  BY <1>0, <1>7, <1>17, WindowShows
<1>9. first # <<>>
  BY <1>0, <1>2, <1>8, EmptySeq
<1>10. UniqueOrFuzzy(lines, first) = {u}
  BY <1>6 DEF UniqueOrFuzzy
<1>11. Places(lines, o.call) = {<<u, u>>}
  BY <1>4, <1>10 DEF Places
<1>12. Span(<<u, u>>, o.call) = <<u, v>>
  BY <1>0, <1>2, <1>4, <1>8 DEF Span
<1>13. Spliced(lines, <<u, v>>, new) = Spliced(lines, <<a, b>>, c.new)
  <2> DEFINE before == SubSeq(lines, 1, u - 1)  near == SubSeq(lines, u, a - 1)
             close == SubSeq(lines, b + 1, v)  after == SubSeq(lines, v + 1, Len(lines))
  <2>1. u \in 1 .. Len(lines) + 1 /\ u - 1 \in 0 .. Len(lines) /\ a - 1 \in u - 1 .. Len(lines)
    BY <1>0, <1>2
  <2>2. b + 1 \in 1 .. Len(lines) + 1 /\ v \in (b + 1) - 1 .. Len(lines) /\ Len(lines) \in v .. Len(lines)
    BY <1>0, <1>2
  <2>3. before \o near = SubSeq(lines, 1, a - 1)
    <3>1. (u - 1) + 1 = u /\ 1 - 1 = 0 /\ 1 \in 1 .. Len(lines) + 1
      BY <1>0, <1>2
    <3> QED BY <1>0, <2>1, <3>1, ConcatAdjacentSubSeq
  <2>4. close \o after = SubSeq(lines, b + 1, Len(lines))
    BY <1>0, <2>2, ConcatAdjacentSubSeq
  <2>5. before \in Seq(Line) /\ near \in Seq(Line)
    <3>1. \A i \in 1 .. u - 1 : lines[i] \in Line
      BY <1>0, <1>2
    <3>2. \A i \in u .. a - 1 : lines[i] \in Line
      BY <1>0, <1>2
    <3> QED BY <1>0, <1>2, <3>1, <3>2, SubSeqProperties
  <2>6. close \in Seq(Line) /\ after \in Seq(Line)
    <3>1. \A i \in b + 1 .. v : lines[i] \in Line
      BY <1>0, <1>2
    <3>2. \A i \in v + 1 .. Len(lines) : lines[i] \in Line
      BY <1>0, <1>2
    <3> QED BY <1>0, <1>2, <3>1, <3>2, SubSeqProperties
  <2>7. new = (near \o c.new) \o close
    BY <1>17 DEF Window
  <2>8. Spliced(lines, <<u, v>>, new) = (before \o new) \o after
    BY DEF Spliced
  <2>9. Spliced(lines, <<a, b>>, c.new) = (SubSeq(lines, 1, a - 1) \o c.new) \o SubSeq(lines, b + 1, Len(lines))
    BY DEF Spliced
  <2> HIDE DEF before, near, close, after
  <2>15. \A s, t, w \in Seq(Line) : (s \o t) \o w = s \o (t \o w)
    BY LinesAssociate
  <2>10. near \o c.new \in Seq(Line) /\ before \o near \in Seq(Line)
    BY <1>3, <2>5, ConcatProperties
  <2>11. before \o (near \o c.new) = (before \o near) \o c.new
    BY <1>3, <2>5, <2>15
  <2>12. before \o new = (before \o (near \o c.new)) \o close
    BY <2>5, <2>6, <2>7, <2>10, <2>15
  <2>13. (before \o near) \o c.new \in Seq(Line)
    BY <1>3, <2>10, ConcatProperties
  <2>14. (((before \o near) \o c.new) \o close) \o after = ((before \o near) \o c.new) \o (close \o after)
    BY <2>6, <2>13, <2>15
  <2> QED BY <2>3, <2>4, <2>8, <2>9, <2>11, <2>12, <2>14
<1>14. o.call.first # <<>> /\ o.call.new = new
  BY <1>4, <1>9
<1>15. Spliced(lines, Span(<<u, u>>, o.call), o.call.new) = o.aim
  BY <1>5, <1>12, <1>13, <1>14
<1>16. content # NoFile
  BY EditsAssumption
<1> QED BY <1>11, <1>14, <1>15, <1>16 DEF Hits, lines

-----------------------------------------------------------------------------
(* Steps                                                                    *)

LEMMA CallKinds ==
  ASSUME NEW c \in Call
  PROVE  /\ c.tool \in {"edit", "range", "replace", "create", "forget"}
         /\ c \in EditCall <=> c.tool \in {"edit", "range"}
         /\ c \in ReplaceCall <=> c.tool = "replace"
         /\ c.tool = "create" => c.new \in Content
         /\ c.tool = "replace" => c.search \in Line /\ c.new \in Line
<1>1. CASE c \in EditCall
  <2>1. c.tool \in {"edit", "range"}
    BY <1>1 DEF EditCall
  <2>2. c \notin ReplaceCall
    BY <2>1 DEF ReplaceCall
  <2> QED BY <1>1, <2>1, <2>2
<1>2. CASE c \in ReplaceCall
  <2>1. c.tool = "replace" /\ c.search \in Line /\ c.new \in Line
    BY <1>2 DEF ReplaceCall
  <2>2. c \notin EditCall
    BY <2>1 DEF EditCall
  <2> QED BY <1>2, <2>1, <2>2
<1>3. CASE c \in [tool : {"create"}, new : Content]
  <2>1. c.tool = "create" /\ c.new \in Content
    BY <1>3
  <2>2. c \notin EditCall /\ c \notin ReplaceCall
    BY <2>1 DEF EditCall, ReplaceCall
  <2> QED BY <2>1, <2>2
<1>4. CASE c \in [tool : {"forget"}]
  <2>1. c.tool = "forget"
    BY <1>4
  <2>2. c \notin EditCall /\ c \notin ReplaceCall
    BY <2>1 DEF EditCall, ReplaceCall
  <2> QED BY <2>1, <2>2
<1> QED BY <1>1, <1>2, <1>3, <1>4 DEF Call

(* What holds of a call while another goes on.                              *)
LEMMA OthersStand ==
  ASSUME NEW r \in Job, NEW content, NEW new, NEW memory, JobOK(r, content, memory)
  PROVE  /\ [r EXCEPT !.stale = r.stale \/ new # content] \in Job
         /\ JobOK([r EXCEPT !.stale = r.stale \/ new # content], new, memory)
<1> DEFINE s == [r EXCEPT !.stale = r.stale \/ new # content]
<1>0. s \in Job
  <2>1. (r.stale \/ new # content) \in BOOLEAN
    OBVIOUS
  <2> QED BY <2>1 DEF Job
<1>1. /\ s.step = r.step /\ s.call = r.call /\ s.seen = r.seen /\ s.next = r.next /\ s.kept = r.kept
      /\ s.before = r.before /\ s.answer = r.answer /\ s.options = r.options /\ s.aim = r.aim
      /\ s.whole = r.whole
  BY DEF Job
<1>2. ~s.stale => ~r.stale /\ new = content
  <2>1. s.stale = (r.stale \/ new # content)
    BY DEF Job
  <2> QED BY <2>1
<1> HIDE DEF s
<1>3. Formed(s, memory)
  BY <1>1 DEF Formed, JobOK
<1>4. Steady(s, new, memory)
  BY <1>1, <1>2 DEF Steady, JobOK
<1>5. Exactly(s)
  BY <1>1 DEF Exactly, JobOK
<1>6. Aimed(s, new, memory)
  BY <1>1, <1>2 DEF Aimed, JobOK
<1>7. Offered(s, new)
  BY <1>1, <1>2 DEF Offered, JobOK
<1>8. JobOK(s, new, memory)
  BY <1>3, <1>4, <1>5, <1>6, <1>7 DEF JobOK
<1> QED BY <1>0, <1>8 DEF s

Watches(r) == r.step \in {"verifies", "restores"} /\ (r.seen = NoFile \/ HasTopic(r.seen))

WorkStands ==
  /\ work' \in Bounds
  /\ work'.memory = work.memory /\ work'.editors = work.editors /\ work'.asked = work.asked

(* A step of one call keeps the invariant if it leaves that call in order,  *)
(* and leaves a memory without a topic only to one who has it in view.      *)
LEMMA StepKeeps ==
  ASSUME FilesInv, NEW e \in work.editors, NEW mine \in Job, NEW content \in Text,
         Becomes(e, mine, content), WorkStands,
         JobOK(mine, content, work.memory),
         lost' \in BOOLEAN, crashed' = crashed, lost => lost',
         ~lost' /\ mine.step = "restores" => ~HasTopic(mine.next),
         work.memory /\ ~lost' /\ ~crashed /\ content # NoFile /\ ~HasTopic(content) =>
           Watches(mine) \/ (file # NoFile /\ ~HasTopic(file) /\ ~Watches(job[e]))
  PROVE  FilesInv'
<1>1. FilesTyped /\ (\A d \in work.editors : JobOK(job[d], file, work.memory))
        /\ TopicIsTakenBack /\ TopicIsWatched
  BY DEF FilesInv
<1>2. job \in [work.editors -> Job] /\ crashed \in BOOLEAN /\ lost \in BOOLEAN
        /\ (work.memory => work.asked \cap ReplaceCall = {})
  BY <1>1 DEF FilesTyped
<1>3. file' = content
  BY DEF Becomes
<1>4. job' = [d \in work.editors |-> IF d = e THEN mine
                                ELSE [job[d] EXCEPT !.stale = job[d].stale \/ content # file]]
  BY <1>2 DEF Becomes
<1>5. job'[e] = mine
  BY <1>4
<1>6. \A d \in work.editors \ {e} : job'[d] = [job[d] EXCEPT !.stale = job[d].stale \/ content # file]
  BY <1>4
<1>7. \A d \in work.editors \ {e} :
        /\ job'[d] \in Job /\ JobOK(job'[d], content, work.memory)
        /\ job'[d].step = job[d].step /\ job'[d].seen = job[d].seen /\ job'[d].next = job[d].next
  <2> SUFFICES ASSUME NEW d \in work.editors \ {e}
               PROVE  /\ job'[d] \in Job /\ JobOK(job'[d], content, work.memory)
                      /\ job'[d].step = job[d].step /\ job'[d].seen = job[d].seen
                      /\ job'[d].next = job[d].next
    OBVIOUS
  <2>1. job[d] \in Job /\ JobOK(job[d], file, work.memory)
    BY <1>1, <1>2
  <2>2. job'[d] = [job[d] EXCEPT !.stale = job[d].stale \/ content # file]
    BY <1>6
  <2>3. job'[d] \in Job /\ JobOK(job'[d], content, work.memory)
    BY <2>1, <2>2, OthersStand
  <2>4. job'[d].step = job[d].step /\ job'[d].seen = job[d].seen /\ job'[d].next = job[d].next
    BY <2>1, <2>2 DEF Job
  <2> QED BY <2>3, <2>4
<1>8. \A d \in work.editors : job'[d] \in Job /\ JobOK(job'[d], content, work.memory)
  BY <1>5, <1>7
<1>9. FilesTyped'
  <2>1. job' \in [work.editors -> Job]
    BY <1>4, <1>8
  <2>2. work' \in Bounds /\ (work'.memory => work'.asked \cap ReplaceCall = {})
          /\ work'.editors = work.editors
    BY <1>2 DEF WorkStands
  <2> QED BY <1>2, <1>3, <2>1, <2>2 DEF FilesTyped
<1>10. \A d \in work'.editors : JobOK(job'[d], file', work'.memory)
  <2>1. work'.editors = work.editors /\ work'.memory = work.memory
    BY DEF WorkStands
  <2> QED BY <1>3, <1>8, <2>1
<1>11. TopicIsTakenBack'
  <2> SUFFICES ASSUME ~lost', NEW k \in work.editors, job'[k].step = "restores"
               PROVE  ~HasTopic(job'[k].next)
    BY DEF TopicIsTakenBack, WorkStands, HasTopic
  <2>1. CASE k = e
    BY <1>5, <2>1
  <2>2. CASE k # e
    <3>1. job[k].step = "restores" /\ job'[k].next = job[k].next /\ ~lost
      BY <1>2, <1>7, <2>2
    <3> QED BY <1>1, <3>1 DEF TopicIsTakenBack
  <2> QED BY <2>1, <2>2
<1>12. TopicIsWatched'
  <2> SUFFICES ASSUME work.memory, ~lost', ~crashed, content # NoFile, ~HasTopic(content)
               PROVE  \E k \in work.editors :
                        /\ job'[k].step \in {"verifies", "restores"}
                        /\ job'[k].seen = NoFile \/ HasTopic(job'[k].seen)
    BY <1>3 DEF TopicIsWatched, WorkStands, HasTopic
  <2>1. CASE Watches(mine)
    BY <1>5, <2>1 DEF Watches
  <2>2. CASE file # NoFile /\ ~HasTopic(file) /\ ~Watches(job[e])
    <3>1. PICK k \in work.editors : /\ job[k].step \in {"verifies", "restores"}
                                    /\ job[k].seen = NoFile \/ HasTopic(job[k].seen)
      BY <1>1, <2>2 DEF TopicIsWatched
    <3>2. k # e
      BY <2>2, <3>1 DEF Watches
    <3> QED BY <1>7, <3>1, <3>2
  <2> QED BY <2>1, <2>2
<1> QED BY <1>9, <1>10, <1>11, <1>12 DEF FilesInv

LEMMA IdleIsInOrder ==
  ASSUME NEW content, NEW memory
  PROVE  Idle \in Job /\ JobOK(Idle, content, memory)
<1>1. Idle \in Job
  BY DEF Idle, Job, Text
<1>2. Idle.step = "idle" /\ Idle.answer = "none" /\ Idle.aim = Unset /\ Idle.options = {}
  BY DEF Idle
<1> QED BY <1>1, <1>2 DEF JobOK, Formed, Steady, Exactly, Aimed, Offered

(* What every step finds.                                                   *)
LEMMA StandsAt ==
  ASSUME FilesInv, NEW e \in work.editors
  PROVE  /\ job[e] \in Job /\ JobOK(job[e], file, work.memory)
         /\ file \in Text /\ work \in Bounds /\ work.memory \in BOOLEAN
         /\ lost \in BOOLEAN /\ crashed \in BOOLEAN
BY DEF FilesInv, FilesTyped, Bounds

LEMMA GoesKeeps ==
  ASSUME FilesInv, NEW e \in work.editors, NEW mine \in Job, Goes(e, mine), WorkStands,
         JobOK(mine, file, work.memory), UNCHANGED <<lost, crashed>>,
         ~Does(e, "verifies"), ~Does(e, "restores"), mine.step # "restores"
  PROVE  FilesInv'
<1>1. file \in Text /\ lost \in BOOLEAN
  BY StandsAt
<1>2. Becomes(e, mine, file)
  BY DEF Goes
<1>3. ~Watches(job[e])
  BY DEF Watches, Does
<1>4. lost' = lost /\ crashed' = crashed
  OBVIOUS
<1> QED BY <1>1, <1>2, <1>3, <1>4, StepKeeps

LEMMA SameWork == ASSUME FilesInv, UNCHANGED work PROVE WorkStands
BY DEF FilesInv, FilesTyped, WorkStands

(* A call begins with an aim only if it hits it.                            *)
LEMMA BeginsKeeps ==
  ASSUME FilesInv, NEW e \in work.editors,
         NEW c \in Call, ~(work.memory /\ c.tool = "replace"),
         NEW aim \in Seq(Line) \cup {Unset}, NEW whole \in BOOLEAN,
         aim # Unset /\ whole /\ c \in EditCall /\ c.tool = "edit" => Hits(file, c, aim),
         Begins(e, c, aim, whole)
  PROVE  FilesInv'
<1> DEFINE m == [Idle EXCEPT !.step = FirstStep(c), !.call = c, !.aim = aim,
                             !.whole = whole, !.before = file]
<1>1. job[e] \in Job /\ file \in Text /\ work \in Bounds /\ work.memory \in BOOLEAN
  BY StandsAt
<1>2. /\ c.tool \in {"edit", "range", "replace", "create", "forget"}
      /\ c \in EditCall <=> c.tool \in {"edit", "range"}
      /\ c.tool = "create" => c.new \in Content
  BY CallKinds
<1>3. WorkStands
  <2>1. work' = [work EXCEPT !.calls = @ - 1] /\ work.calls > 0
    BY DEF Begins
  <2>2. work.calls \in Nat
    BY <1>1 DEF Bounds
  <2>3. work.calls - 1 \in Nat
    BY <2>1, <2>2
  <2> QED BY <1>1, <2>1, <2>3 DEF WorkStands, Bounds
<1>4. /\ FirstStep(c) \in {"keeps", "reads", "looks"}
      /\ FirstStep(c) = "keeps" => work.memory /\ c.tool \in {"edit", "range"}
      /\ FirstStep(c) = "reads" => c.tool \in {"edit", "range", "replace"}
      /\ FirstStep(c) = "reads" /\ work.memory => c.tool = "replace"
      /\ FirstStep(c) = "looks" => c.tool \in {"create", "forget"}
  BY <1>1, <1>2 DEF FirstStep
<1>5. Does(e, "idle") /\ lost' = lost /\ crashed' = crashed
  BY DEF Begins
<1>6. ~Does(e, "verifies") /\ ~Does(e, "restores")
  BY <1>5 DEF Does
<1>7. /\ m.call = c /\ m.aim = aim /\ m.whole = whole /\ m.before = file /\ m.stale = FALSE
      /\ m.options = {} /\ m.answer = "none" /\ m.step = FirstStep(c)
  BY DEF Idle
<1>8. m \in Job
  <2>1. Idle \in Job
    BY IdleIsInOrder
  <2> QED BY <1>1, <1>4, <2>1 DEF Job
<1> HIDE DEF m
<1>9. CASE c.tool = "create" /\ work.memory /\ ~HasTopic(c.new)
  <2> DEFINE n == [m EXCEPT !.step = "idle", !.answer = "refused"]
  <2>1. Goes(e, n)
    BY <1>9 DEF Begins, m
  <2>2. n \in Job
    BY <1>8 DEF Job
  <2>3. /\ n.call = c /\ n.aim = aim /\ n.whole = whole /\ n.before = file /\ n.stale = FALSE
        /\ n.options = {} /\ n.answer = "refused" /\ n.step = "idle"
    BY <1>7, <1>8 DEF Job
  <2>4. c \notin EditCall
    BY <1>2, <1>9
  <2> HIDE DEF n
  <2>5. JobOK(n, file, work.memory)
    BY <2>3, <2>4 DEF JobOK, Formed, Steady, Exactly, Aimed, Offered
  <2> QED BY <1>3, <1>5, <1>6, <2>1, <2>2, <2>3, <2>5, GoesKeeps
<1>10. CASE ~(c.tool = "create" /\ work.memory /\ ~HasTopic(c.new))
  <2>1. Goes(e, m)
    BY <1>10 DEF Begins, m
  <2>2. Formed(m, work.memory)
    BY <1>2, <1>4, <1>7, <1>10 DEF Formed
  <2>3. Steady(m, file, work.memory)
    BY <1>2, <1>4, <1>7 DEF Steady
  <2>4. Exactly(m) /\ Offered(m, file)
    BY <1>4, <1>7 DEF Exactly, Offered
  <2>5. Aimed(m, file, work.memory)
    BY <1>4, <1>7 DEF Aimed
  <2>6. JobOK(m, file, work.memory)
    BY <2>2, <2>3, <2>4, <2>5 DEF JobOK
  <2>7. m.step # "restores"
    BY <1>4, <1>7
  <2> QED BY <1>3, <1>5, <1>6, <1>8, <2>1, <2>6, <2>7, GoesKeeps
<1> QED BY <1>9, <1>10

LEMMA AskKeeps == ASSUME FilesInv, NEW e \in work.editors, Ask(e) PROVE FilesInv'
<1>1. PICK c \in work.asked : Begins(e, c, Unset, TRUE)
  BY DEF Ask
<1>2. work \in Bounds /\ (work.memory => work.asked \cap ReplaceCall = {})
  BY DEF FilesInv, FilesTyped
<1>3. c \in Call
  BY <1>2 DEF Bounds
<1>4. ~(work.memory /\ c.tool = "replace")
  BY <1>2, <1>3, CallKinds
<1> QED BY <1>1, <1>3, <1>4, BeginsKeeps

LEMMA RetryKeeps == ASSUME FilesInv, NEW e \in work.editors, Retry(e) PROVE FilesInv'
<1>1. job[e] \in Job /\ JobOK(job[e], file, work.memory)
  BY StandsAt
<1>2. PICK o \in job[e].options : Begins(e, o.call, IF job[e].stale THEN Unset ELSE o.aim, o.whole)
  BY DEF Retry
<1> DEFINE aim == IF job[e].stale THEN Unset ELSE o.aim
<1>3. o \in Offer
  BY <1>1 DEF Job
<1>4. o.call \in EditCall /\ o.whole \in BOOLEAN /\ aim \in Seq(Line) \cup {Unset}
  BY <1>3 DEF Offer
<1>5. o.call \in Call /\ o.call.tool # "replace"
  <2>1. o.call.tool \in {"edit", "range"}
    BY <1>4 DEF EditCall
  <2> QED BY <1>4, <2>1 DEF Call
<1>6. aim # Unset /\ o.whole /\ o.call \in EditCall /\ o.call.tool = "edit" => Hits(file, o.call, aim)
  BY <1>1 DEF JobOK, Offered
<1>7. Begins(e, o.call, aim, o.whole)
  BY <1>2
<1> HIDE DEF aim
<1> QED BY <1>4, <1>5, <1>6, <1>7, BeginsKeeps

LEMMA KeepKeeps == ASSUME FilesInv, NEW e \in work.editors, Keep(e) PROVE FilesInv'
<1>1. job[e] \in Job /\ JobOK(job[e], file, work.memory) /\ file \in Text
  BY StandsAt
<1> DEFINE r == job[e]
           m == [r EXCEPT !.step = "reads", !.kept = file]
<1>2. r.step = "keeps" /\ Goes(e, m) /\ UNCHANGED <<work, lost, crashed>>
  BY DEF Keep, Does
<1>3. m \in Job
  BY <1>1 DEF Job
<1>4. /\ m.step = "reads" /\ m.kept = file /\ m.call = r.call /\ m.aim = r.aim /\ m.whole = r.whole
      /\ m.before = r.before /\ m.stale = r.stale /\ m.options = r.options /\ m.answer = r.answer
  BY <1>1 DEF Job
<1>5. ~Does(e, "verifies") /\ ~Does(e, "restores")
  BY <1>2 DEF Does
<1> HIDE DEF r, m
<1>6. JobOK(r, file, work.memory)
  BY <1>1 DEF r
<1>7. r.call \in EditCall /\ r.call \in Call /\ r.call.tool \in {"edit", "range"}
  BY <1>2, <1>6 DEF JobOK, Formed, EditCall, Call
<1>8. Formed(m, work.memory)
  BY <1>2, <1>4, <1>6, <1>7 DEF JobOK, Formed
<1>9. Steady(m, file, work.memory)
  BY <1>2, <1>4, <1>6 DEF JobOK, Formed, Steady
<1>10. Exactly(m) /\ Offered(m, file)
  BY <1>2, <1>4, <1>6 DEF JobOK, Formed, Exactly, Offered
<1>11. Aimed(m, file, work.memory)
  BY <1>2, <1>4, <1>6 DEF JobOK, Aimed
<1>12. JobOK(m, file, work.memory)
  BY <1>8, <1>9, <1>10, <1>11 DEF JobOK
<1>13. WorkStands
  BY <1>2, SameWork
<1> QED BY <1>2, <1>3, <1>4, <1>5, <1>12, <1>13, GoesKeeps

(* A call that is refused leaves the file as it is, and no aim of its own   *)
(* is missed but that of a memory without a topic.                          *)
LEMMA RefusedIsInOrder ==
  ASSUME NEW r \in Job, NEW content, NEW memory, r.options = {}, r.call \in Call,
         ~r.stale => content = r.before,
         r.aim # Unset /\ r.whole /\ ~r.stale /\ r.call \in EditCall /\ r.call.tool = "edit" =>
           memory /\ ~HasTopic([lines |-> r.aim])
  PROVE  /\ [r EXCEPT !.step = "idle", !.answer = "refused"] \in Job
         /\ JobOK([r EXCEPT !.step = "idle", !.answer = "refused"], content, memory)
<1> DEFINE m == [r EXCEPT !.step = "idle", !.answer = "refused"]
<1>1. m \in Job
  BY DEF Job
<1>2. /\ m.step = "idle" /\ m.answer = "refused" /\ m.call = r.call /\ m.aim = r.aim /\ m.whole = r.whole
      /\ m.before = r.before /\ m.stale = r.stale /\ m.options = r.options
  BY DEF Job
<1> HIDE DEF m
<1>3. m.options = {}
  BY <1>2
<1>4. Formed(m, memory) /\ Exactly(m) /\ Offered(m, content)
  BY <1>2, <1>3 DEF Formed, Exactly, Offered
<1>5. Steady(m, content, memory)
  BY <1>2 DEF Steady
<1>6. Aimed(m, content, memory)
  BY <1>2 DEF Aimed
<1> QED BY <1>1, <1>4, <1>5, <1>6 DEF JobOK, m

LEMMA RefusesKeeps ==
  ASSUME FilesInv, NEW e \in work.editors, Refuses(e), UNCHANGED <<work, lost, crashed>>,
         job[e].step \in {"reads", "looks", "unlinks"},
         ~(job[e].aim # Unset /\ job[e].whole /\ ~job[e].stale /\ job[e].call \in EditCall
             /\ job[e].call.tool = "edit")
  PROVE  FilesInv'
<1>1. job[e] \in Job /\ JobOK(job[e], file, work.memory) /\ file \in Text /\ work.memory \in BOOLEAN
  BY StandsAt
<1> DEFINE r == job[e]
           m == [r EXCEPT !.step = "idle", !.answer = "refused"]
<1>2. Goes(e, m)
  BY DEF Refuses, Answered
<1>3. ~r.stale => file = r.before
  BY <1>1 DEF JobOK, Steady
<1>4. m \in Job /\ JobOK(m, file, work.memory)
  <2>1. r.options = {} /\ r.call \in Call
    BY <1>1 DEF JobOK, Formed
  <2>2. r.aim # Unset /\ r.whole /\ ~r.stale /\ r.call \in EditCall /\ r.call.tool = "edit" =>
          work.memory /\ ~HasTopic([lines |-> r.aim])
    OBVIOUS
  <2>3. r \in Job
    BY <1>1
  <2> HIDE DEF r
  <2> QED BY <1>1, <1>3, <2>1, <2>2, <2>3, RefusedIsInOrder
<1>5. m.step = "idle"
  BY <1>1 DEF Job
<1>6. WorkStands /\ ~Does(e, "verifies") /\ ~Does(e, "restores")
  BY SameWork DEF Does
<1> HIDE DEF m
<1> QED BY <1>2, <1>4, <1>5, <1>6, GoesKeeps

(* An edit that resolves is going to write what it should.                  *)
LEMMA ResolvesKeeps ==
  ASSUME FilesInv, NEW e \in work.editors, NEW span, Resolves(e, span), UNCHANGED <<work, lost, crashed>>,
         Does(e, "reads"), job[e].call \in EditCall,
         NEW next \in Content, next = Edited(IF file = NoFile THEN Nothing ELSE file, span, job[e].call.new),
         Exact(file, job[e].call, next),
         job[e].aim # Unset /\ job[e].whole /\ ~job[e].stale /\ job[e].call.tool = "edit" =>
           next.lines = job[e].aim
  PROVE  FilesInv'
<1>1. job[e] \in Job /\ JobOK(job[e], file, work.memory) /\ file \in Text /\ work.memory \in BOOLEAN
  BY StandsAt
<1> DEFINE r == job[e]
           m == [r EXCEPT !.step = "writes", !.seen = file, !.next = next]
<1>2. Goes(e, m)
  BY DEF Resolves
<1>3. m \in Job
  BY <1>1 DEF Job, Text
<1>4. /\ m.step = "writes" /\ m.seen = file /\ m.next = next /\ m.kept = r.kept /\ m.call = r.call
      /\ m.aim = r.aim /\ m.whole = r.whole /\ m.before = r.before /\ m.stale = r.stale
      /\ m.options = r.options /\ m.answer = r.answer
  BY <1>1 DEF Job
<1>5. r.step = "reads" /\ r.call.tool \in {"edit", "range"} /\ r.call \in EditCall
  BY DEF Does, EditCall
<1>6. ~Does(e, "verifies") /\ ~Does(e, "restores")
  BY DEF Does
<1>7. Exact(file, r.call, next) /\ JobOK(r, file, work.memory)
        /\ (r.aim # Unset /\ r.whole /\ ~r.stale /\ r.call.tool = "edit" => next.lines = r.aim)
  BY <1>1
<1> HIDE DEF r, m
<1>8. Formed(m, work.memory)
  BY <1>4, <1>5, <1>7 DEF JobOK, Formed
<1>9. Steady(m, file, work.memory)
  BY <1>4, <1>5, <1>7 DEF JobOK, Formed, Steady
<1>10. Exactly(m)
  BY <1>4, <1>7 DEF Exactly
<1>11. Offered(m, file) /\ Aimed(m, file, work.memory)
  BY <1>4, <1>5, <1>7 DEF JobOK, Formed, Offered, Aimed
<1>12. JobOK(m, file, work.memory)
  BY <1>8, <1>9, <1>10, <1>11 DEF JobOK
<1>13. WorkStands /\ m.step # "restores"
  BY <1>4, SameWork
<1> QED BY <1>2, <1>3, <1>6, <1>12, <1>13, GoesKeeps

(* A call that aims at a place finds it.                                    *)
LEMMA AimIsHit ==
  ASSUME FilesInv, NEW e \in work.editors, Does(e, "reads"),
         job[e].aim # Unset, job[e].whole, ~job[e].stale, job[e].call \in EditCall,
         job[e].call.tool = "edit"
  PROVE  Hits(file, job[e].call, job[e].aim)
BY StandsAt DEF JobOK, Aimed, Does

LEMMA MatchEditKeeps == ASSUME FilesInv, NEW e \in work.editors, MatchEdit(e) PROVE FilesInv'
<1>1. job[e] \in Job /\ JobOK(job[e], file, work.memory) /\ file \in Text /\ work.memory \in BOOLEAN
  BY StandsAt
<1> DEFINE r == job[e]
           c == job[e].call
           aimed == r.aim # Unset /\ r.whole /\ ~r.stale /\ c \in EditCall /\ c.tool = "edit"
           places == Places(file.lines, c)
<1>2. Does(e, "reads") /\ r.step = "reads" /\ c.tool \in {"edit", "range"} /\ UNCHANGED <<work, lost, crashed>>
  BY DEF MatchEdit, Does
<1>3. c \in EditCall
  <2>1. c \in Call
    BY <1>1, <1>2 DEF JobOK, Formed
  <2> QED BY <1>2, <2>1, CallKinds
<1>4. c.tool = "edit" => c.first = c.last
  BY <1>3 DEF EditCall
<1>5. aimed => Hits(file, c, r.aim)
  BY <1>2, AimIsHit
<1>6. r.step \in {"reads", "looks", "unlinks"}
  BY <1>2
<1>7. CASE c.first = <<>> \/ c.last = <<>>
  <2>1. ~aimed
    BY <1>4, <1>5, <1>7 DEF Hits
  <2>2. CASE c.tool = "edit" /\ (file = NoFile \/ file.lines = <<>>)
    <3>1. Resolves(e, <<1, 0>>)
      BY <1>7, <2>2 DEF MatchEdit
    <3> DEFINE next == Edited(IF file = NoFile THEN Nothing ELSE file, <<1, 0>>, c.new)
    <3>2. next \in Content /\ Exact(file, c, next)
      BY <1>1, <1>3, <2>2, MadeIsExact
    <3> HIDE DEF next
    <3>3. next = Edited(IF file = NoFile THEN Nothing ELSE file, <<1, 0>>, c.new)
      BY DEF next
    <3> QED BY <1>2, <1>3, <2>1, <3>1, <3>2, <3>3, ResolvesKeeps
  <2>3. CASE ~(c.tool = "edit" /\ (file = NoFile \/ file.lines = <<>>))
    <3>1. Refuses(e)
      BY <1>7, <2>3 DEF MatchEdit
    <3> QED BY <1>2, <1>6, <2>1, <3>1, RefusesKeeps
  <2> QED BY <2>2, <2>3
<1>8. CASE ~(c.first = <<>> \/ c.last = <<>>) /\ (file = NoFile \/ places = {})
  <2>1. Refuses(e)
    BY <1>8 DEF MatchEdit
  <2>2. ~aimed
    BY <1>5, <1>8 DEF Hits
  <2> QED BY <1>2, <1>6, <2>1, <2>2, RefusesKeeps
<1>9. CASE ~(c.first = <<>> \/ c.last = <<>>) /\ ~(file = NoFile \/ places = {}) /\ Cardinality(places) = 1
  <2>1. PICK p \in places : Resolves(e, Span(p, c))
    BY <1>9 DEF MatchEdit
  <2>2. file \in Content /\ (IF file = NoFile THEN Nothing ELSE file) = file
    BY <1>1, <1>9 DEF Text
  <2> DEFINE next == Edited(file, Span(p, c), c.new)
  <2>3. next \in Content /\ Exact(file, c, next)
          /\ next.lines = Spliced(file.lines, Span(p, c), c.new)
    BY <1>3, <2>2, EditedIsExact
  <2>4. aimed => next.lines = r.aim
    <3>1. SUFFICES ASSUME aimed PROVE next.lines = r.aim
      OBVIOUS
    <3>2. PICK q \in places : places = {q} /\ Spliced(file.lines, Span(q, c), c.new) = r.aim
      BY <1>5, <3>1 DEF Hits
    <3>3. p = q
      BY <3>2
    <3> QED BY <2>3, <3>2, <3>3
  <2> HIDE DEF next
  <2>5. next = Edited(IF file = NoFile THEN Nothing ELSE file, Span(p, c), c.new)
    BY <2>2 DEF next
  <2> QED BY <1>2, <1>3, <2>1, <2>3, <2>4, <2>5, ResolvesKeeps
<1>10. CASE ~(c.first = <<>> \/ c.last = <<>>) /\ ~(file = NoFile \/ places = {}) /\ Cardinality(places) # 1
  <2> DEFINE offers == Suggestions(file.lines, c)
             m == [r EXCEPT !.step = "idle", !.answer = "ambiguous", !.options = offers]
  <2>1. Goes(e, m)
    <3>1. Goes(e, [Answered(e, "ambiguous") EXCEPT !.options = Suggestions(file.lines, c)])
      BY <1>10 DEF MatchEdit
    <3>2. [Answered(e, "ambiguous") EXCEPT !.options = Suggestions(file.lines, c)] = m
      BY <1>1 DEF Answered, Job
    <3> QED BY <3>1, <3>2
  <2>2. file \in Content
    BY <1>1, <1>10 DEF Text
  <2>3. file.lines \in Seq(Line)
    BY <2>2 DEF Content
  <2>4. offers \in SUBSET Offer
    BY <1>3, <2>3, SuggestionIsTyped
  <2>5. \A o \in offers : o.whole /\ o.call.tool = "edit" => Hits(file, o.call, o.aim)
    BY <1>3, <2>2, SuggestionHits
  <2>6. ~aimed
    <3>1. SUFFICES ASSUME aimed PROVE FALSE
      OBVIOUS
    <3>2. PICK q \in places : places = {q}
      BY <1>5, <3>1 DEF Hits
    <3>3. Cardinality({q}) = 1
      BY FS_Singleton
    <3> QED BY <1>10, <3>2, <3>3
  <2> HIDE DEF offers
  <2>7. m \in Job
    BY <1>1, <2>4 DEF Job
  <2>8. /\ m.step = "idle" /\ m.answer = "ambiguous" /\ m.options = offers /\ m.call = r.call
        /\ m.aim = r.aim /\ m.whole = r.whole /\ m.before = r.before /\ m.stale = r.stale
    BY <1>1, <2>4 DEF Job
  <2> HIDE DEF m
  <2>9. Formed(m, work.memory) /\ Exactly(m) /\ Offered(m, file) /\ Aimed(m, file, work.memory)
    BY <1>3, <2>5, <2>6, <2>8 DEF Formed, Call, Exactly, Offered, Aimed
  <2>10. Steady(m, file, work.memory)
    BY <1>1, <1>2, <2>8 DEF JobOK, Steady
  <2>11. JobOK(m, file, work.memory)
    BY <2>9, <2>10 DEF JobOK
  <2>12. WorkStands /\ ~Does(e, "verifies") /\ ~Does(e, "restores") /\ m.step # "restores"
    BY <1>2, <2>8, SameWork DEF Does
  <2> QED BY <1>2, <2>1, <2>7, <2>11, <2>12, GoesKeeps
<1> QED BY <1>7, <1>8, <1>9, <1>10

LEMMA ReplaceLinesKeeps == ASSUME FilesInv, NEW e \in work.editors, ReplaceLines(e) PROVE FilesInv'
<1>1. job[e] \in Job /\ JobOK(job[e], file, work.memory) /\ file \in Text /\ work.memory \in BOOLEAN
  BY StandsAt
<1> DEFINE r == job[e]
           c == job[e].call
           next == Joined([i \in DOMAIN file.lines |->
                             IF file.lines[i] = c.search THEN c.new ELSE file.lines[i]], file.ended)
<1>2. r.step = "reads" /\ c.tool = "replace" /\ UNCHANGED <<work, lost, crashed>>
  BY DEF ReplaceLines, Does
<1>3. c \notin EditCall /\ c.new \in Line
  <2>1. c \in Call
    BY <1>1, <1>2 DEF JobOK, Formed
  <2> QED BY <1>2, <2>1, CallKinds
<1>4. ~Does(e, "verifies") /\ ~Does(e, "restores") /\ WorkStands
  BY <1>2, SameWork DEF Does
<1>5. CASE file = NoFile
  <2>1. Refuses(e)
    BY <1>5 DEF ReplaceLines
  <2>2. job[e].step \in {"reads", "looks", "unlinks"}
    BY <1>2
  <2> QED BY <1>2, <1>3, <2>1, <2>2, RefusesKeeps
<1>6. CASE file # NoFile /\ c.search \notin ToSet(file.lines)
  <2> DEFINE m == [r EXCEPT !.step = "idle", !.answer = "done"]
  <2>1. Goes(e, m)
    BY <1>6 DEF ReplaceLines, Answered
  <2>2. m \in Job
    BY <1>1 DEF Job
  <2>3. /\ m.step = "idle" /\ m.answer = "done" /\ m.call = c /\ m.options = r.options
    BY <1>1 DEF Job
  <2> HIDE DEF m
  <2>4. m.options = {} /\ c \in Call
    BY <1>1, <1>2, <2>3 DEF JobOK, Formed
  <2>5. JobOK(m, file, work.memory)
    BY <1>3, <2>3, <2>4 DEF JobOK, Formed, Steady, Exactly, Aimed, Offered
  <2> QED BY <1>2, <1>4, <2>1, <2>2, <2>3, <2>5, GoesKeeps
<1>7. CASE file # NoFile /\ ~(c.search \notin ToSet(file.lines))
  <2> DEFINE m == [r EXCEPT !.step = "writes", !.seen = file, !.next = next]
  <2>1. Goes(e, m)
    BY <1>7 DEF ReplaceLines
  <2>2. next \in Content
    <3>1. file \in Content
      BY <1>1, <1>7 DEF Text
    <3> QED BY <1>3, <3>1, ReplacedIsContent
  <2> HIDE DEF next
  <2>3. m \in Job
    BY <1>1, <2>2 DEF Job, Text
  <2>4. /\ m.step = "writes" /\ m.next = next /\ m.call = c /\ m.options = r.options /\ m.answer = r.answer
        /\ m.before = r.before /\ m.stale = r.stale
    BY <1>1 DEF Job
  <2> HIDE DEF m
  <2>5. m.options = {} /\ m.answer = "none" /\ c \in Call /\ ~(work.memory /\ c.tool = "replace")
    BY <1>1, <1>2, <2>4 DEF JobOK, Formed, Job
  <2>6. Formed(m, work.memory)
    BY <1>2, <2>2, <2>4, <2>5 DEF Formed
  <2>7. Steady(m, file, work.memory)
    BY <1>1, <1>2, <1>3, <2>4, <2>5 DEF JobOK, Steady
  <2>8. Exactly(m) /\ Aimed(m, file, work.memory) /\ Offered(m, file)
    BY <1>3, <2>4, <2>5 DEF Exactly, Aimed, Offered
  <2>9. JobOK(m, file, work.memory)
    BY <2>6, <2>7, <2>8 DEF JobOK
  <2> QED BY <1>2, <1>4, <2>1, <2>3, <2>4, <2>9, GoesKeeps
<1> QED BY <1>5, <1>6, <1>7

LEMMA LookKeeps == ASSUME FilesInv, NEW e \in work.editors, Look(e) PROVE FilesInv'
<1>1. job[e] \in Job /\ JobOK(job[e], file, work.memory) /\ file \in Text /\ work.memory \in BOOLEAN
  BY StandsAt
<1> DEFINE r == job[e]
           c == job[e].call
<1>2. r.step = "looks" /\ UNCHANGED <<work, lost, crashed>>
  BY DEF Look, Does
<1>3. c \in Call /\ c.tool \in {"create", "forget"} /\ r.options = {} /\ r.answer = "none"
        /\ (work.memory /\ c.tool = "create" => c.new \in Content /\ HasTopic(c.new))
  BY <1>1, <1>2 DEF JobOK, Formed, Job
<1>4. c \notin EditCall /\ (c.tool = "create" => c.new \in Content)
  BY <1>3, CallKinds
<1>5. ~Does(e, "verifies") /\ ~Does(e, "restores") /\ WorkStands
  BY <1>2, SameWork DEF Does
<1>6. CASE (file = NoFile) # (c.tool = "create")
  <2>1. Refuses(e)
    BY <1>6 DEF Look
  <2>2. job[e].step \in {"reads", "looks", "unlinks"}
    BY <1>2
  <2> QED BY <1>2, <1>4, <2>1, <2>2, RefusesKeeps
<1>7. CASE ~((file = NoFile) # (c.tool = "create")) /\ c.tool = "create"
  <2> DEFINE m == [r EXCEPT !.step = "writes", !.next = c.new]
  <2>1. Goes(e, m)
    BY <1>7 DEF Look
  <2>2. c.new \in Content
    BY <1>4, <1>7
  <2>3. m \in Job
    BY <1>1, <2>2 DEF Job, Text
  <2>4. /\ m.step = "writes" /\ m.next = c.new /\ m.call = c /\ m.options = r.options /\ m.answer = r.answer
        /\ m.before = r.before /\ m.stale = r.stale
    BY <1>1 DEF Job
  <2> HIDE DEF m
  <2>5. Formed(m, work.memory)
    BY <1>3, <1>7, <2>2, <2>4 DEF Formed
  <2>6. Steady(m, file, work.memory)
    BY <1>1, <1>2, <1>3, <1>4, <2>4 DEF JobOK, Steady
  <2>7. Exactly(m) /\ Aimed(m, file, work.memory) /\ Offered(m, file)
    BY <1>3, <1>4, <2>4 DEF Exactly, Aimed, Offered
  <2>8. JobOK(m, file, work.memory)
    BY <2>5, <2>6, <2>7 DEF JobOK
  <2> QED BY <1>2, <1>5, <2>1, <2>3, <2>4, <2>8, GoesKeeps
<1>8. CASE ~((file = NoFile) # (c.tool = "create")) /\ c.tool # "create"
  <2> DEFINE m == [r EXCEPT !.step = "unlinks"]
  <2>1. Goes(e, m)
    BY <1>8 DEF Look
  <2>2. m \in Job
    BY <1>1 DEF Job
  <2>3. /\ m.step = "unlinks" /\ m.call = c /\ m.options = r.options /\ m.answer = r.answer
        /\ m.before = r.before /\ m.stale = r.stale
    BY <1>1 DEF Job
  <2> HIDE DEF m
  <2>4. Formed(m, work.memory)
    BY <1>3, <1>8, <2>3 DEF Formed
  <2>5. Steady(m, file, work.memory)
    BY <1>1, <1>2, <1>3, <1>4, <2>3 DEF JobOK, Steady
  <2>6. Exactly(m) /\ Aimed(m, file, work.memory) /\ Offered(m, file)
    BY <1>3, <1>4, <2>3 DEF Exactly, Aimed, Offered
  <2>7. JobOK(m, file, work.memory)
    BY <2>4, <2>5, <2>6 DEF JobOK
  <2> QED BY <1>2, <1>5, <2>1, <2>2, <2>3, <2>7, GoesKeeps
<1> QED BY <1>6, <1>7, <1>8

LEMMA WriteKeeps == ASSUME FilesInv, NEW e \in work.editors, Write(e) PROVE FilesInv'
<1>1. /\ job[e] \in Job /\ JobOK(job[e], file, work.memory) /\ file \in Text /\ work.memory \in BOOLEAN
      /\ lost \in BOOLEAN /\ crashed \in BOOLEAN
  BY StandsAt
<1> DEFINE r == job[e]
           c == job[e].call
           next == job[e].next
<1>2. r.step = "writes" /\ UNCHANGED <<work, crashed>> /\ lost' = (lost \/ file # r.seen)
  BY DEF Write, Does
<1>3. /\ next \in Content /\ c \in Call /\ c.tool # "forget" /\ ~(work.memory /\ c.tool = "replace")
      /\ r.options = {} /\ r.answer = "none"
      /\ (c.tool = "create" => next = c.new)
      /\ (work.memory /\ c.tool = "create" => HasTopic(c.new))
  BY <1>1, <1>2 DEF JobOK, Formed, Job
<1>4. WorkStands /\ next \in Text
  BY <1>2, <1>3, SameWork DEF Text
<1>5. lost' \in BOOLEAN /\ crashed' = crashed /\ (lost => lost') /\ (~lost' => file = r.seen)
  BY <1>1, <1>2
<1>6. c.tool \in {"edit", "range", "replace", "create", "forget"}
        /\ (c \in EditCall <=> c.tool \in {"edit", "range"})
  BY <1>3, CallKinds
<1>7. ~Watches(job[e])
  BY <1>2 DEF Watches
<1>8. CASE work.memory /\ c.tool # "create"
  <2> DEFINE m == [r EXCEPT !.step = "verifies"]
  <2>1. Becomes(e, m, next)
    BY <1>8 DEF Write
  <2>2. m \in Job
    BY <1>1 DEF Job
  <2>3. /\ m.step = "verifies" /\ m.call = c /\ m.options = r.options /\ m.answer = r.answer
        /\ m.before = r.before /\ m.stale = r.stale /\ m.next = next /\ m.seen = r.seen
        /\ m.kept = r.kept /\ m.aim = r.aim /\ m.whole = r.whole
    BY <1>1 DEF Job
  <2> HIDE DEF m
  <2>4. c \in EditCall
    BY <1>3, <1>6, <1>8
  <2>5. Formed(m, work.memory)
    BY <1>3, <1>8, <2>3, <2>4 DEF Formed
  <2>6. Steady(m, next, work.memory)
    BY <1>1, <1>2, <1>3, <2>3, <2>4 DEF JobOK, Steady
  <2>7. Exactly(m) /\ Aimed(m, next, work.memory) /\ Offered(m, next)
    BY <1>1, <1>2, <1>3, <2>3, <2>4 DEF JobOK, Exactly, Aimed, Offered
  <2>8. JobOK(m, next, work.memory)
    BY <2>5, <2>6, <2>7 DEF JobOK
  <2>9. ~lost' => Watches(m) \/ (file # NoFile /\ ~HasTopic(file) /\ ~Watches(job[e]))
    BY <1>5, <1>7, <2>3 DEF Watches
  <2>10. m.step # "restores"
    BY <2>3
  <2> HIDE DEF next
  <2> QED BY <1>4, <1>5, <2>1, <2>2, <2>8, <2>9, <2>10, StepKeeps
<1>9. CASE ~(work.memory /\ c.tool # "create")
  <2> DEFINE m == [r EXCEPT !.step = "idle", !.answer = "done"]
  <2>1. Becomes(e, m, next)
    BY <1>9 DEF Write, Answered
  <2>2. m \in Job
    BY <1>1 DEF Job
  <2>3. /\ m.step = "idle" /\ m.call = c /\ m.options = r.options /\ m.answer = "done"
        /\ m.before = r.before /\ m.stale = r.stale /\ m.next = next /\ m.seen = r.seen
        /\ m.kept = r.kept /\ m.aim = r.aim /\ m.whole = r.whole
    BY <1>1 DEF Job
  <2> HIDE DEF m
  <2>4. Formed(m, work.memory)
    BY <1>3, <2>3 DEF Formed
  <2>5. Steady(m, next, work.memory)
    BY <1>1, <1>2, <2>3 DEF JobOK, Steady
  <2>6. Exactly(m) /\ Aimed(m, next, work.memory) /\ Offered(m, next)
    BY <1>1, <1>2, <1>3, <2>3 DEF JobOK, Exactly, Aimed, Offered
  <2>7. JobOK(m, next, work.memory)
    BY <2>4, <2>5, <2>6 DEF JobOK
  <2>8. work.memory => HasTopic(next)
    BY <1>3, <1>9
  <2>9. m.step # "restores"
    BY <2>3
  <2> HIDE DEF next
  <2> QED BY <1>4, <1>5, <2>1, <2>2, <2>7, <2>8, <2>9, StepKeeps
<1> QED BY <1>8, <1>9

LEMMA VerifyKeeps == ASSUME FilesInv, NEW e \in work.editors, Verify(e) PROVE FilesInv'
<1>1. /\ job[e] \in Job /\ JobOK(job[e], file, work.memory) /\ file \in Text /\ work.memory \in BOOLEAN
      /\ lost \in BOOLEAN /\ crashed \in BOOLEAN
  BY StandsAt
<1> DEFINE r == job[e]
           c == job[e].call
           next == job[e].next
<1>2. r.step = "verifies" /\ UNCHANGED <<work, crashed>> /\ lost' = (lost \/ Misjudges(e))
  BY DEF Verify, Does
<1>3. /\ c \in EditCall /\ next \in Content /\ next # NoFile /\ r.options = {} /\ r.answer = "none"
      /\ work.memory /\ c \in Call /\ c.tool # "replace"
  BY <1>1, <1>2, EditsAssumption DEF JobOK, Formed, Job
<1>4. WorkStands
  BY <1>2, SameWork
<1>5. /\ lost' \in BOOLEAN /\ crashed' = crashed /\ (lost => lost')
      /\ ~lost' /\ file # NoFile /\ ~HasTopic(file) => file = next
  BY <1>1, <1>2 DEF Misjudges
<1>6. ~r.stale => file = next
  BY <1>1, <1>2 DEF JobOK, Steady
<1>7. file \in Content => (HasTopic(file) <=> HasTopic([lines |-> file.lines]))
  BY DEF HasTopic
<1>8. CASE file = NoFile
  <2> DEFINE m == [r EXCEPT !.step = "idle", !.answer = "refused"]
  <2>1. Becomes(e, m, file)
    BY <1>8 DEF Verify, Refuses, Goes, Answered
  <2>2. r.stale
    BY <1>3, <1>6, <1>8
  <2>3. r \in Job /\ r.options = {} /\ r.call \in Call /\ (~r.stale => file = r.before)
          /\ (r.aim # Unset /\ r.whole /\ ~r.stale /\ r.call \in EditCall /\ r.call.tool = "edit" =>
                work.memory /\ ~HasTopic([lines |-> r.aim]))
    BY <1>1, <1>3, <2>2
  <2>4. m.step = "idle"
    BY <1>1 DEF Job
  <2> HIDE DEF r
  <2>5. m \in Job /\ JobOK(m, file, work.memory)
    BY <2>3, RefusedIsInOrder
  <2> HIDE DEF m
  <2> QED BY <1>1, <1>4, <1>5, <1>8, <2>1, <2>4, <2>5, StepKeeps
<1>9. CASE file # NoFile /\ HasTopic(file)
  <2> DEFINE m == [r EXCEPT !.step = "idle", !.answer = "done"]
  <2>1. Becomes(e, m, file)
    BY <1>9 DEF Verify, Goes, Answered
  <2>2. m \in Job
    BY <1>1 DEF Job
  <2>3. /\ m.step = "idle" /\ m.call = c /\ m.options = r.options /\ m.answer = "done"
        /\ m.before = r.before /\ m.stale = r.stale /\ m.next = next /\ m.seen = r.seen
        /\ m.aim = r.aim /\ m.whole = r.whole
    BY <1>1 DEF Job
  <2> HIDE DEF m
  <2>4. Formed(m, work.memory)
    BY <1>3, <2>3 DEF Formed
  <2>5. Steady(m, file, work.memory)
    BY <1>1, <1>2, <1>3, <2>3 DEF JobOK, Steady
  <2>6. Exactly(m) /\ Aimed(m, file, work.memory) /\ Offered(m, file)
    BY <1>1, <1>2, <1>3, <2>3 DEF JobOK, Exactly, Aimed, Offered
  <2>7. JobOK(m, file, work.memory)
    BY <2>4, <2>5, <2>6 DEF JobOK
  <2> QED BY <1>1, <1>4, <1>5, <1>9, <2>1, <2>2, <2>3, <2>7, StepKeeps
<1>10. CASE file # NoFile /\ ~HasTopic(file)
  <2> DEFINE m == [r EXCEPT !.step = "restores"]
  <2>1. Becomes(e, m, file)
    BY <1>10 DEF Verify, Goes
  <2>2. m \in Job
    BY <1>1 DEF Job
  <2>3. /\ m.step = "restores" /\ m.call = c /\ m.options = r.options /\ m.answer = r.answer
        /\ m.before = r.before /\ m.stale = r.stale /\ m.next = next /\ m.seen = r.seen
        /\ m.kept = r.kept /\ m.aim = r.aim /\ m.whole = r.whole
    BY <1>1 DEF Job
  <2>4. Watches(m) <=> Watches(job[e])
    BY <1>2, <2>3 DEF Watches
  <2> HIDE DEF m
  <2>5. Formed(m, work.memory)
    BY <1>3, <2>3 DEF Formed
  <2>6. Steady(m, file, work.memory)
    BY <1>1, <1>2, <1>3, <1>10, <2>3 DEF JobOK, Steady
  <2>7. Exactly(m) /\ Aimed(m, file, work.memory) /\ Offered(m, file)
    BY <1>1, <1>2, <1>3, <2>3 DEF JobOK, Exactly, Aimed, Offered
  <2>8. JobOK(m, file, work.memory)
    BY <2>5, <2>6, <2>7 DEF JobOK
  <2>9. ~lost' => ~HasTopic(m.next)
    BY <1>5, <1>10, <2>3
  <2>10. Watches(m) \/ (file # NoFile /\ ~HasTopic(file) /\ ~Watches(job[e]))
    BY <1>10, <2>4
  <2> QED BY <1>1, <1>4, <1>5, <2>1, <2>2, <2>8, <2>9, <2>10, StepKeeps
<1> QED BY <1>8, <1>9, <1>10

LEMMA RestoreKeeps == ASSUME FilesInv, NEW e \in work.editors, Restore(e) PROVE FilesInv'
<1>1. /\ job[e] \in Job /\ JobOK(job[e], file, work.memory) /\ file \in Text /\ work.memory \in BOOLEAN
      /\ lost \in BOOLEAN /\ crashed \in BOOLEAN
  BY StandsAt
<1> DEFINE r == job[e]
           kept == job[e].kept
           m == [r EXCEPT !.step = "idle", !.answer = "refused"]
<1>2. /\ r.step = "restores" /\ UNCHANGED <<work, crashed>>
      /\ lost' = (lost \/ file # r.next \/ kept # r.seen) /\ Becomes(e, m, kept)
  BY DEF Restore, Does, Answered
<1>3. /\ r.call \in EditCall /\ r.next \in Content /\ r.next # NoFile /\ r.options = {}
      /\ work.memory /\ kept \in Text /\ r.call \in Call
  BY <1>1, <1>2, EditsAssumption DEF JobOK, Formed, Job
<1>4. WorkStands
  BY <1>2, SameWork
<1>5. /\ lost' \in BOOLEAN /\ crashed' = crashed /\ (lost => lost')
      /\ ~lost' => ~lost /\ file = r.next /\ kept = r.seen
  BY <1>1, <1>2
<1>6. ~r.stale => kept = r.before /\ ~HasTopic(r.next)
  BY <1>1, <1>2, <1>3 DEF JobOK, Steady
<1>7. r.aim # Unset /\ r.whole /\ ~r.stale /\ r.call \in EditCall /\ r.call.tool = "edit" =>
        work.memory /\ ~HasTopic([lines |-> r.aim])
  <2>1. SUFFICES ASSUME r.aim # Unset, r.whole, ~r.stale, r.call.tool = "edit"
                 PROVE  ~HasTopic([lines |-> r.aim])
    BY <1>3
  <2>2. r.next.lines = r.aim /\ ~HasTopic(r.next)
    BY <1>1, <1>2, <1>3, <1>6, <2>1 DEF JobOK, Aimed
  <2>3. [lines |-> r.aim].lines = r.next.lines
    BY <2>2
  <2> QED BY <2>2, <2>3 DEF HasTopic
<1>8. m.step = "idle"
  BY <1>1 DEF Job
<1>9. ~lost => ~HasTopic(r.next)
  BY <1>2 DEF FilesInv, TopicIsTakenBack
<1>10. ~lost' /\ kept # NoFile /\ ~HasTopic(kept) => file # NoFile /\ ~HasTopic(file) /\ ~Watches(r)
  BY <1>3, <1>5, <1>9 DEF Watches
<1>11. r \in Job /\ Becomes(e, m, kept)
  BY <1>1, <1>2
<1>12. ~Watches(r) <=> ~Watches(job[e])
  OBVIOUS
<1> HIDE DEF r, kept
<1>13. m \in Job /\ JobOK(m, kept, work.memory)
  BY <1>3, <1>6, <1>7, <1>11, RefusedIsInOrder
<1> HIDE DEF m
<1> QED BY <1>3, <1>4, <1>5, <1>8, <1>10, <1>11, <1>12, <1>13, StepKeeps

LEMMA UnlinkKeeps == ASSUME FilesInv, NEW e \in work.editors, Unlink(e) PROVE FilesInv'
<1>1. /\ job[e] \in Job /\ JobOK(job[e], file, work.memory) /\ file \in Text /\ work.memory \in BOOLEAN
      /\ lost \in BOOLEAN /\ crashed \in BOOLEAN
  BY StandsAt
<1> DEFINE r == job[e]
           c == job[e].call
<1>2. r.step = "unlinks" /\ UNCHANGED <<work, lost, crashed>>
  BY DEF Unlink, Does
<1>3. c \in Call /\ c.tool = "forget" /\ r.options = {}
  BY <1>1, <1>2 DEF JobOK, Formed, Job
<1>4. c \notin EditCall
  BY <1>3, CallKinds
<1>5. WorkStands
  BY <1>2, SameWork
<1>6. CASE file = NoFile
  <2>1. Refuses(e) /\ job[e].step \in {"reads", "looks", "unlinks"}
    BY <1>2, <1>6 DEF Unlink
  <2> QED BY <1>2, <1>4, <2>1, RefusesKeeps
<1>7. CASE file # NoFile
  <2> DEFINE m == [r EXCEPT !.step = "idle", !.answer = "done"]
  <2>1. Becomes(e, m, NoFile)
    BY <1>7 DEF Unlink, Answered
  <2>2. m \in Job
    BY <1>1 DEF Job
  <2>3. m.step = "idle" /\ m.call = c /\ m.options = {} /\ m.answer = "done"
    BY <1>1, <1>3 DEF Job
  <2> HIDE DEF m
  <2>4. JobOK(m, NoFile, work.memory)
    BY <1>3, <1>4, <2>3 DEF JobOK, Formed, Steady, Exactly, Aimed, Offered
  <2>5. NoFile \in Text /\ lost' = lost /\ crashed' = crashed /\ lost' \in BOOLEAN /\ m.step # "restores"
    BY <1>1, <1>2, <2>3 DEF Text
  <2> QED BY <1>5, <2>1, <2>2, <2>4, <2>5, StepKeeps
<1> QED BY <1>6, <1>7

LEMMA CrashKeeps == ASSUME FilesInv, Crash PROVE FilesInv'
<1>1. FilesTyped
  BY DEF FilesInv
<1>2. /\ work.crashes > 0 /\ work' = [work EXCEPT !.crashes = @ - 1]
      /\ file' \in {file, Nothing} /\ job' = [e \in work.editors |-> Idle]
      /\ crashed' = TRUE /\ lost' = lost
  BY DEF Crash
<1>3. work' \in Bounds /\ work'.memory = work.memory /\ work'.editors = work.editors
        /\ work'.asked = work.asked
  <2>1. work \in Bounds /\ work.crashes \in Nat
    BY <1>1 DEF FilesTyped, Bounds
  <2>2. work.crashes - 1 \in Nat
    BY <1>2, <2>1
  <2> QED BY <1>2, <2>1, <2>2 DEF Bounds
<1>4. file' \in Text
  BY <1>1, <1>2, NothingIsContent DEF FilesTyped, Text
<1>5. \A e \in work'.editors : job'[e] = Idle
  BY <1>2, <1>3
<1>6. FilesTyped'
  BY <1>1, <1>2, <1>3, <1>4, IdleIsInOrder DEF FilesTyped
<1>7. \A e \in work'.editors : JobOK(job'[e], file', work'.memory)
  BY <1>5, IdleIsInOrder
<1>8. Idle.step = "idle"
  BY DEF Idle
<1>9. TopicIsTakenBack'
  BY <1>5, <1>8 DEF TopicIsTakenBack
<1>10. TopicIsWatched'
  BY <1>2 DEF TopicIsWatched
<1> QED BY <1>6, <1>7, <1>9, <1>10 DEF FilesInv

LEMMA FilesInitHolds == FilesInit => FilesInv
<1> SUFFICES ASSUME FilesInit PROVE FilesInv
  OBVIOUS
<1>1. /\ work \in Works /\ file = work.first /\ job = [e \in work.editors |-> Idle]
      /\ lost = FALSE /\ crashed = FALSE
  BY DEF FilesInit
<1>2. /\ work \in Bounds
      /\ work.memory => work.asked \cap ReplaceCall = {} /\ (work.first # NoFile => HasTopic(work.first))
  BY <1>1, EditsAssumption DEF Bounds
<1>3. file \in Text
  BY <1>1, <1>2 DEF Bounds, Text
<1>4. Idle.step = "idle" /\ Idle \in Job
  BY IdleIsInOrder DEF Idle
<1>5. FilesTyped
  BY <1>1, <1>2, <1>3, <1>4 DEF FilesTyped
<1>6. \A e \in work.editors : JobOK(job[e], file, work.memory)
  BY <1>1, IdleIsInOrder
<1>7. TopicIsTakenBack
  BY <1>1, <1>4 DEF TopicIsTakenBack
<1>8. TopicIsWatched
  BY <1>1, <1>2 DEF TopicIsWatched
<1> QED BY <1>5, <1>6, <1>7, <1>8 DEF FilesInv

LEMMA FilesStepKeeps == ASSUME FilesInv, FilesNext PROVE FilesInv'
<1>1. CASE Crash
  BY <1>1, CrashKeeps
<1>2. ASSUME NEW e \in work.editors,
             \/ Ask(e) \/ Retry(e)
             \/ Keep(e) \/ MatchEdit(e) \/ ReplaceLines(e) \/ Look(e)
             \/ Write(e) \/ Verify(e) \/ Restore(e) \/ Unlink(e)
      PROVE  FilesInv'
  BY <1>2, AskKeeps, RetryKeeps, KeepKeeps, MatchEditKeeps, ReplaceLinesKeeps, LookKeeps,
     WriteKeeps, VerifyKeeps, RestoreKeeps, UnlinkKeeps
<1> QED BY <1>1, <1>2 DEF FilesNext

LEMMA FilesStutterKeeps == ASSUME FilesInv, UNCHANGED fileVars PROVE FilesInv'
<1>1. work' = work /\ file' = file /\ job' = job /\ lost' = lost /\ crashed' = crashed
  BY DEF fileVars
<1>2. FilesTyped'
  BY <1>1 DEF FilesInv, FilesTyped
<1>3. (\A e \in work.editors : JobOK(job[e], file, work.memory))'
  BY <1>1 DEF FilesInv
<1>4. TopicIsTakenBack' /\ TopicIsWatched'
  BY <1>1 DEF FilesInv, TopicIsTakenBack, TopicIsWatched
<1> QED BY <1>2, <1>3, <1>4 DEF FilesInv

LEMMA FilesInvHolds == Spec => []FilesInv
<1>1. Init => FilesInv
  BY FilesInitHolds DEF Init
<1>2. FilesInv /\ [Next]_vars => FilesInv'
  <2> SUFFICES ASSUME FilesInv, [Next]_vars PROVE FilesInv'
    OBVIOUS
  <2>1. CASE FilesNext
    BY <2>1, FilesStepKeeps
  <2>2. CASE UNCHANGED fileVars
    BY <2>2, FilesStutterKeeps
  <2> QED BY <2>1, <2>2 DEF Next, vars
<1> QED BY <1>1, <1>2, PTL DEF Spec

-----------------------------------------------------------------------------
(* What the invariant says of the answers.                                  *)
LEMMA AnswersAreTrue == FilesInv => FilesAreSound
<1> SUFFICES ASSUME FilesInv PROVE FilesAreSound
  OBVIOUS
<1>1. \A e \in work.editors : job[e] \in Job /\ JobOK(job[e], file, work.memory)
  BY StandsAt
<1>2. file \in Text /\ lost \in BOOLEAN /\ crashed \in BOOLEAN
  BY DEF FilesInv, FilesTyped
<1>3. FilesTypeOK
  BY <1>1, <1>2 DEF FilesTypeOK, JobOK, Formed, Job, Text, Does
<1>4. ASSUME NEW e \in work.editors, job[e].answer # "none" \/ job[e].aim # Unset
      PROVE  job[e].call \in EditCall <=> job[e].call.tool \in {"edit", "range"}
  <2>1. job[e].call \in Call
    BY <1>1, <1>4 DEF JobOK, Formed
  <2> QED BY <2>1, CallKinds
<1>5. SuggestionsEditTheirSpan
  <2> SUFFICES ASSUME NEW e \in work.editors,
                      job[e].aim # Unset, Settled(e), job[e].whole, job[e].call.tool = "edit"
               PROVE  \/ job[e].answer = "done" /\ file.lines = job[e].aim
                      \/ job[e].answer = "refused" /\ work.memory /\ ~HasTopic([lines |-> job[e].aim])
    BY DEF SuggestionsEditTheirSpan
  <2>1. job[e].call \in EditCall /\ job[e].step = "idle" /\ ~job[e].stale
    BY <1>4 DEF Settled, Does
  <2>2. \/ job[e].answer = "done" /\ job[e].next.lines = job[e].aim
        \/ job[e].answer = "refused" /\ work.memory /\ ~HasTopic([lines |-> job[e].aim])
    BY <1>1, <2>1 DEF JobOK, Aimed
  <2>3. job[e].answer = "done" => file = job[e].next
    BY <1>1, <2>1 DEF JobOK, Steady
  <2> QED BY <2>2, <2>3
<1>6. EditsAreExact
  <2> SUFFICES ASSUME NEW e \in work.editors, Done(e), job[e].call.tool \in {"edit", "range"}
               PROVE  Exact(job[e].before, job[e].call, file)
    BY DEF EditsAreExact, Exact
  <2>1. job[e].call \in EditCall /\ job[e].answer = "done" /\ ~job[e].stale
    BY <1>4 DEF Done, Settled
  <2>2. file = job[e].next /\ job[e].seen = job[e].before
    BY <1>1, <2>1 DEF JobOK, Steady
  <2>3. Exact(job[e].seen, job[e].call, job[e].next)
    BY <1>1, <2>1 DEF JobOK, Exactly
  <2> QED BY <2>2, <2>3
<1>7. RefusalsChangeNothing
  BY <1>1 DEF RefusalsChangeNothing, Settled, JobOK, Steady
<1>8. TopicIsKept
  BY DEF FilesInv, TopicIsWatched, TopicIsKept, Does
<1> QED BY <1>3, <1>5, <1>6, <1>7, <1>8 DEF FilesAreSound

(* What the model is told of its calls is what became of the file: an edit  *)
(* that succeeds replaced one place its anchors match, one that is refused  *)
(* left the file alone, a suggestion edits the place it was made for, and a *)
(* memory keeps its topic (edit_file_core.apply, EditMemory.apply).         *)
THEOREM FilesStaySound == Spec => []FilesAreSound
BY FilesInvHolds, AnswersAreTrue, PTL

=============================================================================
