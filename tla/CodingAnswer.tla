------------------------------- MODULE CodingAnswer -------------------------------
(* What run_coding_task.py makes of one answer: the stream is collected           *)
(* (stream_completion), thinking is split off it, and the files are taken from    *)
(* what is left (extract_files).  Writing them is RepeatRun's business.           *)
(*                                                                                *)
(* Text is a sequence of tokens, each as long as the regular expressions need:    *)
(* a think tag, a `### FILE: path' line, a fence, a line of anything else.  A     *)
(* fence is three backticks with a plain info string or none; an odd one, with    *)
(* something else on its line (```rust,ignore), can end a block and not begin     *)
(* one.  A token carries its place in the stream, so that it can be followed into *)
(* the answer and the files.                                                      *)
EXTENDS Integers, Sequences, FiniteSetsExt

CONSTANTS
    Paths,      \* the paths an answer can name
    MaxTokens,  \* bound: the tokens of content in a stream
    MaxReasoned \* bound: the deltas of reasoning_content in a stream

Tags == {"<think>", "</think>"}
FenceTokens == {"fence", "odd fence"}

ASSUME PathsAssumption == Paths \cap (Tags \cup FenceTokens \cup {"line"}) = {}
ASSUME BoundsAssumption == MaxTokens \in Nat /\ MaxReasoned \in Nat

VARIABLES
    stage,      \* "stream", "split", "extract", "done" or "raised"
    content,    \* the content deltas so far
    reasoned,   \* the number of reasoning_content deltas so far
    answer,     \* text: what is left of the content
    thought,    \* the number of content tokens counted as reasoning
    files       \* the files found: where they are marked, and their lines

vars == <<stage, content, reasoned, answer, thought, files>>

Tokens == Paths \cup Tags \cup FenceTokens \cup {"line"}
NoFiles == [p \in {} |-> 0]

Places(text, tok) == {i \in 1 .. Len(text) : text[i].tok = tok}

Init ==
    /\ stage = "stream"
    /\ content = <<>>
    /\ reasoned = 0
    /\ answer = <<>>
    /\ thought = 0
    /\ files = NoFiles

(* The lines of the event stream.  Those that carry no delta - the role, usage,   *)
(* timings, keep-alives, what is not JSON - change nothing the text depends on.   *)
ContentDelta ==
    /\ stage = "stream"
    /\ Len(content) < MaxTokens
    /\ \E t \in Tokens :
        content' = Append(content, [tok |-> t, at |-> Len(content) + 1])
    /\ UNCHANGED <<stage, reasoned, answer, thought, files>>

ReasoningDelta ==
    /\ stage = "stream"
    /\ reasoned < MaxReasoned
    /\ reasoned' = reasoned + 1
    /\ UNCHANGED <<stage, content, answer, thought, files>>

(* data: [DONE], or the connection is closed before it: the loop cannot tell.     *)
StreamEnds ==
    /\ stage = "stream"
    /\ stage' = "split"
    /\ UNCHANGED <<content, reasoned, answer, thought, files>>

(* A timeout, a reset, choices that are no list: what was collected is lost.      *)
StreamRaises ==
    /\ stage = "stream"
    /\ stage' = "raised"
    /\ UNCHANGED <<content, reasoned, answer, thought, files>>

(* Plausible bug: a greedy pattern, from the first tag to the last.               *)
GreedyMatches(text) ==
    LET pairs == {b \in Places(text, "<think>") \X Places(text, "</think>") : b[1] < b[2]}
    IN  IF pairs = {} THEN {} ELSE {<<Min({b[1] : b \in pairs}), Max({b[2] : b \in pairs})>>}

(* THINK_RE, non-greedy, left to right without overlap: from the first opening    *)
(* tag with a closing one behind it to the first closing one behind it.           *)
Matches(text) ==
    LET from[i \in 1 .. Len(text) + 1] ==
          LET pairs == {b \in Places(text, "<think>") \X Places(text, "</think>") :
                            i <= b[1] /\ b[1] < b[2]}
              open  == Min({b[1] : b \in pairs})
              close == Min({b[2] : b \in {b \in pairs : b[1] = open}})
          IN  IF pairs = {} THEN {} ELSE {<<open, close>>} \cup from[close + 1]
    IN  from[1]

(* THINK_RE.sub("", text)                                                         *)
Substituted(text) ==
    LET gone == UNION {b[1] .. b[2] : b \in Matches(text)}
        kept[n \in 0 .. Len(text)] ==
          IF n = 0 THEN <<>>
          ELSE IF n \in gone THEN kept[n - 1] ELSE Append(kept[n - 1], text[n])
    IN  kept[Len(text)]

(* An opening tag is left and no closing one.                                     *)
Dangling(text) == Places(text, "<think>") # {} /\ Places(text, "</think>") = {}

(* Plausible bug: the tail of an unterminated block is cut off and not measured.  *)
SplitForgetsTail ==
    LET rest == Substituted(content)
        cut  == IF Dangling(rest) THEN Min(Places(rest, "<think>")) ELSE Len(rest) + 1
    IN  /\ stage = "split"
        /\ stage' = "extract"
        /\ answer' = SubSeq(rest, 1, cut - 1)
        /\ thought' = Len(content) - Len(rest)
        /\ UNCHANGED <<content, reasoned, files>>

(* The blocks go, then everything from a dangling tag on; the tag is no reasoning. *)
Split ==
    LET rest == Substituted(content)
        cut  == IF Dangling(rest) THEN Min(Places(rest, "<think>")) ELSE Len(rest) + 1
    IN  /\ stage = "split"
        /\ stage' = "extract"
        /\ answer' = SubSeq(rest, 1, cut - 1)
        /\ thought' = (Len(content) - Len(rest)) + (IF Dangling(rest) THEN Len(rest) - cut ELSE 0)
        /\ UNCHANGED <<content, reasoned, files>>

(* Plausible bug: any heading is taken for a mark.                                *)
AllHeadings(text) == {i \in 1 .. Len(text) : text[i].tok \in Paths \cup {"line"}}

(* FILE_RE: the lines that name a path.                                           *)
Marks(text) == {i \in 1 .. Len(text) : text[i].tok \in Paths}

(* Plausible bug: the search for the fences is not stopped by the next mark.      *)
FencesToTheEnd(text, m) == {i \in 1 .. Len(text) : text[i].tok \in FenceTokens /\ i > m}

(* The fences of the section of the mark at m: those before the next mark.        *)
Fences(text, m) ==
    {i \in 1 .. Len(text) :
        text[i].tok \in FenceTokens /\ i > m /\ \A k \in Marks(text) : k <= m \/ k > i}

(* FENCE_RE: what can begin a block, and any fence behind it.                     *)
Blocks(text, m) ==
    {b \in Fences(text, m) \X Fences(text, m) : text[b[1]].tok = "fence" /\ b[1] < b[2]}

(* FENCE_RE.search, non-greedy: from the first that can begin one to the next.    *)
Fenced(text, m) ==
    LET open  == Min({b[1] : b \in Blocks(text, m)})
        close == Min({b[2] : b \in {b \in Blocks(text, m) : b[1] = open}})
    IN  [i \in 1 .. close - open - 1 |-> text[open + i].at]

(* files[path] = ...                                                              *)
With(found, p, file) == [q \in DOMAIN found \cup {p} |-> IF q = p THEN file ELSE found[q]]

(* Plausible bug: a section without a fenced block drops the file found before.   *)
ExtractedForgets(text) ==
    LET upTo[m \in 0 .. Len(text)] ==
          IF m = 0 THEN NoFiles
          ELSE IF m \notin Marks(text) THEN upTo[m - 1]
          ELSE IF Blocks(text, m) # {}
               THEN With(upTo[m - 1], text[m].tok,
                         [mark |-> text[m].at, lines |-> Fenced(text, m)])
               ELSE [p \in DOMAIN upTo[m - 1] \ {text[m].tok} |-> upTo[m - 1][p]]
    IN  upTo[Len(text)]

(* extract_files: mark by mark, a fenced section under a path replaces an earlier *)
(* one; a section without a block leaves it alone.                                *)
Extracted(text) ==
    LET upTo[m \in 0 .. Len(text)] ==
          IF m = 0 THEN NoFiles
          ELSE IF m \in Marks(text) /\ Blocks(text, m) # {}
               THEN With(upTo[m - 1], text[m].tok,
                         [mark |-> text[m].at, lines |-> Fenced(text, m)])
               ELSE upTo[m - 1]
    IN  upTo[Len(text)]

Extract ==
    /\ stage = "extract"
    /\ stage' = "done"
    /\ files' = Extracted(answer)
    /\ UNCHANGED <<content, reasoned, answer, thought>>

Next ==
    \/ ContentDelta
    \/ ReasoningDelta
    \/ StreamEnds
    \/ StreamRaises
    \/ Split
    \/ Extract

Spec == Init /\ [][Next]_vars

--------------------------------------------------------------------------------
(* Properties.                                                                    *)

TextType(s) == \A i \in 1 .. Len(s) : s[i].tok \in Tokens /\ s[i].at \in 1 .. Len(content)

TypeOK ==
    /\ stage \in {"stream", "split", "extract", "done", "raised"}
    /\ Len(content) <= MaxTokens /\ TextType(content)
    /\ reasoned \in 0 .. MaxReasoned
    /\ TextType(answer)
    /\ thought \in 0 .. Len(content)
    /\ DOMAIN files \subseteq Paths

(* A reader who goes through the content once and remembers only whether the      *)
(* model is thinking: tokens in a block, its tags included, are thoughts.         *)
Thoughts(text) ==
    LET thinking[i \in 0 .. Len(text)] ==
          i > 0 /\ CASE text[i].tok = "<think>"  -> TRUE
                     [] text[i].tok = "</think>" -> FALSE
                     [] OTHER                    -> thinking[i - 1]
    IN  {i \in 1 .. Len(text) : thinking[i] \/ thinking[i - 1]}

(* A closing tag that closes nothing.                                             *)
Orphans(text) == Places(text, "</think>") \ Thoughts(text)

(* Every token that was received is measured exactly once, as reasoning or as     *)
(* answer, save the tag of a block that was never closed; and what is kept is in  *)
(* the order of the stream.                                                       *)
NothingLost ==
    stage \in {"extract", "done"} =>
        /\ Len(content) - (Len(answer) + thought) \in {0, 1}
        /\ \A i \in 1 .. Len(answer) : answer[i] = content[answer[i].at]
        /\ \A i, j \in 1 .. Len(answer) : i < j => answer[i].at < answer[j].at
        /\ Len(content) = Len(answer) + thought <=>
              \/ Orphans(content) # {}
              \/ Cardinality(Places(content, "<think>") ) = 0
              \/ \E c \in Places(content, "</think>") :
                    \A o \in Places(content, "<think>") : o < c

(* The block that is still open when the text ends.                               *)
Unclosed(text) ==
    {i \in Thoughts(text) : \A c \in Places(text, "</think>") : c < i}

(* The two passes over the text leave what the reader takes for the answer,       *)
(* nested and repeated openings and a block cut off by max_tokens included, as    *)
(* long as every closing tag closes something.  With one that does not, less is   *)
(* taken out: it stays in the answer, and so does a block that is still open at   *)
(* the end.  That is not what the code means to do; see ThinkingIsNotExtracted.   *)
AnswerIsWhatWasNotThought ==
    stage \in {"extract", "done"} =>
        LET excluded == IF Orphans(content) = {}
                          THEN Thoughts(content)
                          ELSE Thoughts(content) \ Unclosed(content)
        IN  {answer[i].at : i \in 1 .. Len(answer)} = (1 .. Len(content)) \ excluded

(* Where the prompt's template has opened the thinking, its text is all that      *)
(* comes before the first tag, a closing one.                                     *)
Prefilled(text) ==
    LET tags == Places(text, "<think>") \cup Places(text, "</think>")
    IN  {i \in 1 .. Len(text) :
            \E c \in Places(text, "</think>") : i < c /\ \A t \in tags : c <= t}

(* "Inline <think> blocks land in content; split them out so they are measured as *)
(* reasoning but excluded from the file-extraction pass": no file is made of      *)
(* thinking, from its mark to the last of its lines.                              *)
ThinkingIsNotExtracted ==
    stage = "done" =>
        \A p \in DOMAIN files :
            LET f == files[p]
                thinking == Thoughts(content) \cup Prefilled(content)
            IN  f.lines # <<>> =>
                  \E at \in f.mark .. f.lines[Len(f.lines)] : at \notin thinking

(* The file under a path is the one of its last section that has a fenced block,  *)
(* whole: every line of the answer from the first fence that can begin a block to *)
(* the fence after it, with no mark of another section in between.  A section     *)
(* without a block does not get in the way, and no other path's lines do.         *)
Complete(m) == Blocks(answer, m) # {}
FilesAreLastBlocks ==
    stage = "done" =>
        /\ DOMAIN files = {answer[m].tok : m \in {m \in Marks(answer) : Complete(m)}}
        /\ \A p \in DOMAIN files : \E m \in Places(answer, p) :
            /\ answer[m].at = files[p].mark
            /\ \A k \in Places(answer, p) : Complete(k) => k <= m
            /\ \E open, close \in m + 1 .. Len(answer) :
                /\ open < close
                /\ answer[open].tok = "fence" /\ answer[close].tok \in FenceTokens
                /\ \A i \in m + 1 .. close : answer[i].tok \notin Paths
                /\ \A i \in m + 1 .. open - 1 : answer[i].tok # "fence"
                /\ \A i \in open + 1 .. close - 1 : answer[i].tok \notin FenceTokens
                /\ files[p].lines = [i \in 1 .. close - open - 1 |-> answer[open + i].at]

(* Cutting a stream short loses the section being written and nothing else: what  *)
(* would be extracted from the content so far is not taken back by what comes     *)
(* later, only replaced under the same path.  It holds while every closing tag    *)
(* closes something: one that does not can bring back a block that was cut off as *)
(* unterminated, whose marks then end the section before it.                      *)
WouldBe(text) ==
    LET rest == Substituted(text)
    IN  Extracted(IF Dangling(rest)
                    THEN SubSeq(rest, 1, Min(Places(rest, "<think>")) - 1) ELSE rest)

FilesAccumulate ==
    [][ Orphans(content') = {} =>
          \A p \in DOMAIN WouldBe(content) :
              /\ p \in DOMAIN WouldBe(content')
              /\ WouldBe(content')[p].mark >= WouldBe(content)[p].mark ]_content

================================================================================
