------------------------------ MODULE FileEdits ------------------------------
(***************************************************************************)
(* One text file that the agents of a group edit: EditFile, EditMemory,     *)
(* EditScratchpad (tools/util/edit_file_core.py), CreateFile, CreateMemory, *)
(* ReplaceAll and ForgetMemory, each call on the thread of its agent's turn *)
(* and none under a lock.                                                   *)
(*                                                                         *)
(* A step is one operation on the file: reading it whole, looking whether   *)
(* it is there, writing it whole, removing it.  A write truncates the file  *)
(* before it writes; here that is one step, in which the process may crash. *)
(* A file is the lines that str.splitlines makes of it, with a flag for the *)
(* newline after the last one, which only matters to an edit.  Left out:    *)
(* permissions (ToolRound has them), secrets and their tokens, diffs, and   *)
(* regular expressions: ReplaceAll replaces the lines that equal its        *)
(* search.                                                                  *)
(***************************************************************************)
EXTENDS Naturals, Sequences, FiniteSets, SequencesExt, FiniteSetsExt

CONSTANTS
  Editor,    \* the agents
  Line,      \* the lines of text there are
  Blank,     \* the line without characters
  Plain,     \* what _normalize_fuzzy makes of each line
  NoFile,    \* no file, or nothing where a file's content would be
  Unset,     \* no call, or no aim
  Works      \* bounds: the file at first, whether it is a memory, who makes which
             \* calls, how many of them, and how many crashes

(* A file without a newline at its end is empty or ends in characters.      *)
Content ==
  {c \in [lines : Seq(Line), ended : BOOLEAN] :
     IF c.ended THEN c.lines # <<>> ELSE c.lines = <<>> \/ Last(c.lines) # Blank}

HasTopic(content) == content.lines # <<>> /\ Plain[Head(content.lines)] # Blank

(* EditFile and its like, with old_text or with two anchors; ReplaceAll.    *)
EditCall ==
  {c \in [tool : {"edit", "range"}, first : Seq(Line), last : Seq(Line), new : Seq(Line)] :
     c.tool = "edit" => c.first = c.last}
ReplaceCall == [tool : {"replace"}, search : Line, new : Line]
Call == EditCall \cup ReplaceCall \cup [tool : {"create"}, new : Content] \cup [tool : {"forget"}]

(* A memory has a topic at first, and the tools for memories write it.      *)
ASSUME EditsAssumption ==
  /\ Blank \in Line
  /\ Plain \in [Line -> Line]
  /\ Plain[Blank] = Blank
  /\ NoFile \notin Content
  /\ \A w \in Works :
       /\ w \in [first : Content \cup {NoFile}, memory : BOOLEAN, editors : SUBSET Editor,
                 calls : Nat, crashes : Nat, asked : SUBSET Call]
       /\ w.memory => w.asked \cap ReplaceCall = {} /\ (w.first # NoFile => HasTopic(w.first))

VARIABLES
  work,     \* the bounds of this behaviour, with what is left of them
  file,     \* the file's content, or NoFile
  job,      \* each editor's call and its last answer
  lost,     \* history: a write replaced, or took back, what another call had written
            \* since the read, or EditMemory judged what another had written
  crashed   \* history: the process has crashed in the middle of a call

fileVars == <<work, file, job, lost, crashed>>

-----------------------------------------------------------------------------
(* Lines joined with newlines and split again: an empty last line is not    *)
(* there any more.                                                          *)
Resplit(lines) == IF lines # <<>> /\ Last(lines) = Blank THEN Front(lines) ELSE lines

(* The file that apply() writes for these lines.                            *)
Joined(lines, ended) ==
  IF ended THEN [lines |-> lines, ended |-> TRUE]
  ELSE [lines |-> Resplit(lines), ended |-> Len(Resplit(lines)) \notin {0, Len(lines)}]

Window(lines, span) == SubSeq(lines, span[1], span[2])

Normalized(block) == [i \in DOMAIN block |-> Plain[block[i]]]

BlockMatches(actual, expected, fuzzy) ==
  IF fuzzy THEN Normalized(actual) = Normalized(expected) ELSE actual = expected

(* The lines at which a block begins; an empty block matches nowhere.       *)
BlockStarts(lines, block, fuzzy) ==
  {s \in 1 .. Len(lines) :
     /\ block # <<>>
     /\ s + Len(block) - 1 <= Len(lines)
     /\ BlockMatches(Window(lines, <<s, s + Len(block) - 1>>), block, fuzzy)}

UniqueOrFuzzy(lines, block) ==
  LET exact == BlockStarts(lines, block, FALSE)
  IN  IF exact # {} THEN exact ELSE BlockStarts(lines, block, TRUE)

(* The places a call may mean, as the pairs of lines at which its anchors   *)
(* begin: with old_text alone both are the same one, with two anchors each  *)
(* start goes with the nearest end at or after it.                          *)
Places(lines, c) ==
  LET firsts == UniqueOrFuzzy(lines, c.first)
      lasts == UniqueOrFuzzy(lines, c.last)
      After(s) == {e \in lasts : e >= s}
  IN  IF c.tool = "edit" THEN {<<s, s>> : s \in firsts}
      ELSE {<<s, Min(After(s))>> : s \in {f \in firsts : After(f) # {}}}

(* The lines a place covers, first and last.                                *)
Span(place, c) == <<place[1], place[2] + Len(c.last) - 1>>

Spliced(lines, span, new) ==
  SubSeq(lines, 1, span[1] - 1) \o new \o SubSeq(lines, span[2] + 1, Len(lines))

Widened(lines, span, n) ==
  <<IF span[1] > n THEN span[1] - n ELSE 1, Min({Len(lines), span[2] + n})>>

SpanResolved(lines, span, n) ==
  LET wide == Widened(lines, span, n)
  IN  BlockStarts(lines, Window(lines, wide), FALSE) = {wide[1]}

(* Mutant: one line of context is always enough.                            *)
ContextOfOne(lines, spans) == 1

(* The context every suggestion shows: the fewest lines with which each is  *)
(* found at one place.                                                      *)
Context(lines, spans) ==
  Min({n \in 1 .. Len(lines) : \A s \in spans : SpanResolved(lines, s, n)})

(* The call that is suggested for a place.  Its texts are lines joined, and *)
(* split again by the call that retries with them; whole says that nothing  *)
(* goes missing there, aim what the file should become.                     *)
Suggestion(all, c, place, n) ==
  LET span == Span(place, c)
      wide == Widened(all, span, n)
      first == IF c.tool = "edit" THEN Window(all, wide)
               ELSE Window(all, <<wide[1], place[1] + Len(c.first) - 1>>)
      last == IF c.tool = "edit" THEN first ELSE Window(all, <<place[2], wide[2]>>)
      new == Window(all, <<wide[1], span[1] - 1>>) \o c.new
               \o Window(all, <<span[2] + 1, wide[2]>>)
  IN  [call |-> [tool |-> c.tool, first |-> Resplit(first), last |-> Resplit(last),
                 new |-> Resplit(new)],
       whole |-> \A lines \in {first, last, new} : Resplit(lines) = lines,
       aim |-> Spliced(all, span, c.new)]

Suggestions(lines, c) ==
  LET places == Places(lines, c)
      n == Context(lines, {Span(p, c) : p \in places})
  IN  {Suggestion(lines, c, p, n) : p \in places}

(* What apply() writes for an edit that resolves to a span.                 *)
Edited(content, span, new) ==
  LET lines == Spliced(content.lines, span, new)
  IN  Joined(lines, IF span[2] = Len(content.lines) THEN lines # <<>> ELSE content.ended)

Nothing == [lines |-> <<>>, ended |-> FALSE]

-----------------------------------------------------------------------------
Idle == [step |-> "idle", call |-> Unset, seen |-> NoFile, next |-> NoFile, kept |-> NoFile,
         answer |-> "none", options |-> {}, aim |-> Unset, whole |-> TRUE,
         before |-> NoFile, stale |-> FALSE]

FilesInit ==
  /\ work \in Works
  /\ file = work.first
  /\ job = [e \in work.editors |-> Idle]
  /\ lost = FALSE
  /\ crashed = FALSE

Does(e, step) == job[e].step = step

(* Editor e goes on as mine; the others' calls were made before the change, *)
(* if there is one.                                                         *)
Becomes(e, mine, content) ==
  /\ file' = content
  /\ job' = [d \in work.editors |-> IF d = e THEN mine
                              ELSE [job[d] EXCEPT !.stale = @ \/ content # file]]

Goes(e, mine) == Becomes(e, mine, file)

Answered(e, answer) == [job[e] EXCEPT !.step = "idle", !.answer = answer]
Refuses(e) == Goes(e, Answered(e, "refused"))

(* What the first operation of a call on the file is, but for a new memory  *)
(* without a topic, which is refused before there is one.                   *)
FirstStep(c) ==
  CASE c.tool \in {"create", "forget"} -> "looks"
    [] c.tool = "replace" -> "reads"
    [] OTHER -> IF work.memory THEN "keeps" ELSE "reads"

Begins(e, c, aim, whole) ==
  /\ Does(e, "idle")
  /\ work.calls > 0
  /\ work' = [work EXCEPT !.calls = @ - 1]
  /\ LET mine == [Idle EXCEPT !.step = FirstStep(c), !.call = c, !.aim = aim,
                              !.whole = whole, !.before = file]
     IN  IF c.tool = "create" /\ work.memory /\ ~HasTopic(c.new)
         THEN Goes(e, [mine EXCEPT !.step = "idle", !.answer = "refused"])
         ELSE Goes(e, mine)
  /\ UNCHANGED <<lost, crashed>>

(* A model calls a tool, or retries with a suggestion it was given, which   *)
(* still aims at what it did if nobody has changed the file.                *)
Ask(e) == \E c \in work.asked : Begins(e, c, Unset, TRUE)

Retry(e) ==
  /\ job[e].answer = "ambiguous"
  /\ \E o \in job[e].options : Begins(e, o.call, IF job[e].stale THEN Unset ELSE o.aim, o.whole)

(* EditMemory reads what it may have to restore.                            *)
Keep(e) ==
  /\ Does(e, "keeps")
  /\ Goes(e, [job[e] EXCEPT !.step = "reads", !.kept = file])
  /\ UNCHANGED <<work, lost, crashed>>

Resolves(e, span) ==
  LET content == IF file = NoFile THEN Nothing ELSE file
  IN  Goes(e, [job[e] EXCEPT !.step = "writes", !.seen = file,
                             !.next = Edited(content, span, job[e].call.new)])

(* The texts of an edit are matched against the file.                       *)
MatchEdit(e) ==
  LET c == job[e].call
      empty == c.first = <<>>
      places == Places(file.lines, c)
  IN  /\ Does(e, "reads")
      /\ c.tool \in {"edit", "range"}
      /\ IF empty \/ c.last = <<>> THEN
           IF c.tool = "edit" /\ (file = NoFile \/ file.lines = <<>>)
           THEN Resolves(e, <<1, 0>>) ELSE Refuses(e)
         ELSE IF file = NoFile \/ places = {} THEN Refuses(e)
         ELSE IF Cardinality(places) = 1 THEN \E p \in places : Resolves(e, Span(p, c))
         ELSE Goes(e, [Answered(e, "ambiguous") EXCEPT !.options = Suggestions(file.lines, c)])
      /\ UNCHANGED <<work, lost, crashed>>

ReplaceLines(e) ==
  LET c == job[e].call
      lines == [i \in DOMAIN file.lines |->
                  IF file.lines[i] = c.search THEN c.new ELSE file.lines[i]]
  IN  /\ Does(e, "reads")
      /\ c.tool = "replace"
      /\ IF file = NoFile THEN Refuses(e)
         ELSE IF c.search \notin ToSet(file.lines) THEN Goes(e, Answered(e, "done"))
         ELSE Goes(e, [job[e] EXCEPT !.step = "writes", !.seen = file,
                                     !.next = Joined(lines, file.ended)])
      /\ UNCHANGED <<work, lost, crashed>>

(* CreateFileCore.apply() and ForgetMemory look whether the file is there.  *)
Look(e) ==
  LET c == job[e].call
  IN  /\ Does(e, "looks")
      /\ IF (file = NoFile) # (c.tool = "create") THEN Refuses(e)
         ELSE IF c.tool = "create"
         THEN Goes(e, [job[e] EXCEPT !.step = "writes", !.next = c.new])
         ELSE Goes(e, [job[e] EXCEPT !.step = "unlinks"])
      /\ UNCHANGED <<work, lost, crashed>>

Write(e) ==
  /\ Does(e, "writes")
  /\ Becomes(e, IF work.memory /\ job[e].call.tool # "create"
                THEN [job[e] EXCEPT !.step = "verifies"] ELSE Answered(e, "done"),
             job[e].next)
  /\ lost' = (lost \/ file # job[e].seen)
  /\ UNCHANGED <<work, crashed>>

(* EditMemory reads the file again: its first line must not be blank.       *)
Misjudges(e) == file # NoFile /\ ~HasTopic(file) /\ file # job[e].next

Verify(e) ==
  /\ Does(e, "verifies")
  /\ IF file = NoFile THEN Refuses(e)
     ELSE IF HasTopic(file) THEN Goes(e, Answered(e, "done"))
     ELSE Goes(e, [job[e] EXCEPT !.step = "restores"])
  /\ lost' = (lost \/ Misjudges(e))
  /\ UNCHANGED <<work, crashed>>

Restore(e) ==
  /\ Does(e, "restores")
  /\ Becomes(e, Answered(e, "refused"), job[e].kept)
  /\ lost' = (lost \/ file # job[e].next \/ job[e].kept # job[e].seen)
  /\ UNCHANGED <<work, crashed>>

Unlink(e) ==
  /\ Does(e, "unlinks")
  /\ IF file = NoFile THEN Refuses(e) ELSE Becomes(e, Answered(e, "done"), NoFile)
  /\ UNCHANGED <<work, lost, crashed>>

(* The process dies in the middle of a call, after the truncation of a      *)
(* write or not; a later one resumes the session.                           *)
Crash ==
  /\ work.crashes > 0
  /\ \E e \in work.editors : ~Does(e, "idle")
  /\ work' = [work EXCEPT !.crashes = @ - 1]
  /\ file' \in {file} \cup {c \in {Nothing} :
                 \E e \in work.editors : job[e].step = "writes" \/ job[e].step = "restores"}
  /\ job' = [e \in work.editors |-> Idle]
  /\ crashed' = TRUE
  /\ UNCHANGED lost

FilesNext ==
  \/ \E e \in work.editors :
       \/ Ask(e) \/ Retry(e)
       \/ Keep(e) \/ MatchEdit(e) \/ ReplaceLines(e) \/ Look(e)
       \/ Write(e) \/ Verify(e) \/ Restore(e) \/ Unlink(e)
  \/ Crash

-----------------------------------------------------------------------------
(* The last answers, of calls with which no other call's change came in     *)
(* between.                                                                 *)
Settled(e) == Does(e, "idle") /\ ~job[e].stale
Done(e) == Settled(e) /\ job[e].answer = "done"

FilesTypeOK ==
  /\ file = NoFile \/ file \in Content
  /\ lost \in BOOLEAN /\ crashed \in BOOLEAN
  /\ \A e \in work.editors :
       /\ job[e].step \in {"idle", "keeps", "reads", "looks", "writes", "verifies", "restores",
                           "unlinks"}
       /\ job[e].answer \in {"none", "done", "refused", "ambiguous"}
       /\ Does(e, "writes") => job[e].next \in Content
       /\ job[e].options # {} => job[e].answer = "ambiguous"

(* A suggestion of an ambiguous edit, sent back as it is, edits the place   *)
(* it was made for.  Not so where a text it is made of ends in an empty     *)
(* line, which the text does not keep, and not so for the two anchors of a  *)
(* range, which are looked for apart although the context was chosen for    *)
(* the lines of both together (_describe_range_ambiguity).                  *)
SuggestionsEditTheirSpan ==
  \A e \in work.editors :
    job[e].aim # Unset /\ Settled(e) /\ job[e].whole /\ job[e].call.tool = "edit" =>
      \/ job[e].answer = "done" /\ file.lines = job[e].aim
      \/ job[e].answer = "refused" /\ work.memory /\ ~HasTopic([lines |-> job[e].aim])

(* "Retry with one of the exact json fragments shown above ... to choose a  *)
(* target": a suggestion sent back chooses its target                       *)
(* (_describe_old_text_ambiguity, _describe_range_ambiguity).               *)
SuggestionsChooseTheirTarget ==
  \A e \in work.editors :
    job[e].aim # Unset /\ Settled(e) /\ ~work.memory =>
      job[e].answer = "done" /\ file.lines = job[e].aim

(* An edit that reports success replaced one place that its anchors match,  *)
(* kept every other line, kept the end of a file whose last line it did not *)
(* touch, and ended the file with a newline if it did (apply).              *)
EditsAreExact ==
  \A e \in work.editors :
    LET c == job[e].call
        old == IF job[e].before = NoFile THEN Nothing ELSE job[e].before
    IN  Done(e) /\ c.tool \in {"edit", "range"} =>
          \E first \in 1 .. Len(old.lines) + 1, last \in 0 .. Len(old.lines) :
            /\ old.lines # <<>> =>
                 /\ first \in BlockStarts(old.lines, c.first, TRUE)
                 /\ last - Len(c.last) + 1 \in BlockStarts(old.lines, c.last, TRUE)
                 /\ first <= last - Len(c.last) + 1
            /\ file.lines = Spliced(old.lines, <<first, last>>, c.new)
            /\ file.ended = IF last < Len(old.lines) THEN old.ended ELSE file.lines # <<>>

(* A call that is refused leaves the file as it found it: nothing is        *)
(* created over a file, and EditMemory takes back what it wrote.            *)
RefusalsChangeNothing ==
  \A e \in work.editors :
    Settled(e) /\ job[e].answer \in {"refused", "ambiguous"} => file = job[e].before

(* No memory is left without a topic, whatever edits and deletions meet,    *)
(* unless one of them undid what another had written since its read, or     *)
(* took that for its own, or the process died between writing and taking    *)
(* back (EditMemory.apply).                                                 *)
TopicIsKept ==
  work.memory /\ ~lost /\ ~crashed /\ file # NoFile /\ (\A e \in work.editors : Does(e, "idle"))
    => HasTopic(file)

(* What the model is told of an edit is what became of the file.            *)
FilesAreSound ==
  FilesTypeOK /\ SuggestionsEditTheirSpan /\ EditsAreExact /\ RefusalsChangeNothing /\ TopicIsKept
=============================================================================
