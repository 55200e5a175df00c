------------------------------- MODULE Chunks -------------------------------
(***************************************************************************)
(* SplitMarkdown, internal/knowledge/chunks.go, and the rows insertChunks  *)
(* makes of it: one pass over the lines of a body, in which a fence opens  *)
(* and closes code, and a heading outside code starts a chunk.             *)
(*                                                                         *)
(* A line is what the splitter sees of it: its kind.  A chunk refers to    *)
(* lines by their number.  The body is trimmed, so its first and last      *)
(* lines are not blank, unless it is empty: then it is one blank line.     *)
(***************************************************************************)
EXTENDS Naturals, Sequences, FiniteSetsExt

CONSTANT MaxLines  \* bound on the lines of a body

ASSUME LinesAssumption == MaxLines \in Nat \ {0}

\* "fence": starts with ```.  "heading": one to six # and a space.  Anything
\* else that is not blank is text: a fence of ~~~, seven #, # without a space.
Kinds == {"text", "blank", "fence", "heading"}

VARIABLES
    lines,    \* the body
    read,     \* number of lines read
    heading,  \* line of the heading of the current chunk, or 0
    section,  \* lines kept since
    inFence,
    chunks,
    done

vars == <<lines, read, heading, section, inFence, chunks, done>>

Bodies ==
    {<<"blank">>} \cup
    {body \in UNION {[1 .. n -> Kinds] : n \in 1 .. MaxLines} :
        body[1] # "blank" /\ body[Len(body)] # "blank"}

Init ==
    /\ lines \in Bodies
    /\ read = 0 /\ heading = 0 /\ section = <<>> /\ inFence = FALSE
    /\ chunks = <<>> /\ done = FALSE

IsBlank(n) == lines[n] = "blank"

\* strings.TrimSpace of joined lines.
TrimSpace(section_) ==
    LET kept == {i \in DOMAIN section_ : ~IsBlank(section_[i])}
    IN  IF kept = {} THEN <<>> ELSE SubSeq(section_, Min(kept), Max(kept))

Chunk(ordinal, heading_, body) == [ordinal |-> ordinal, heading |-> heading_, body |-> body]

NothingToFlush(content) == content = <<>> /\ heading = 0

Flush ==
    LET content == TrimSpace(section)
    IN  IF NothingToFlush(content)
        THEN UNCHANGED <<chunks, section>>
        ELSE /\ chunks' = Append(chunks, Chunk(Len(chunks), heading, content))
             /\ section' = <<>>

Line == read + 1

Reading(kinds) == ~done /\ Line \in DOMAIN lines /\ lines[Line] \in kinds

Keep == section' = Append(section, Line)

ReadFence ==
    /\ Reading({"fence"})
    /\ inFence' = ~inFence
    /\ Keep
    /\ read' = Line
    /\ UNCHANGED <<lines, heading, chunks, done>>

\* Seeded fault: a comment of a shell script is taken for a heading.
StartsChunk_InCodeToo == TRUE

StartsChunk == ~inFence

ReadHeading ==
    /\ Reading({"heading"})
    /\ StartsChunk
    /\ Flush
    /\ heading' = Line
    /\ read' = Line
    /\ UNCHANGED <<lines, inFence, done>>

ReadText ==
    /\ Reading({"text", "blank"}) \/ (Reading({"heading"}) /\ ~StartsChunk)
    /\ Keep
    /\ read' = Line
    /\ UNCHANGED <<lines, heading, inFence, chunks, done>>

\* The last flush; a body without chunks is one.
Finish ==
    /\ ~done
    /\ read = Len(lines)
    /\ IF NothingToFlush(TrimSpace(section)) /\ chunks = <<>>
       THEN chunks' = <<Chunk(0, 0, <<>>)>> /\ UNCHANGED section
       ELSE Flush
    /\ done' = TRUE
    /\ UNCHANGED <<lines, read, heading, inFence>>

Next == ReadFence \/ ReadHeading \/ ReadText \/ Finish

Spec == Init /\ [][Next]_vars
-----------------------------------------------------------------------------
(* Properties.                                                             *)

InCode(n) == Cardinality({m \in 1 .. n - 1 : lines[m] = "fence"}) % 2 = 1

Headings == {n \in DOMAIN lines : lines[n] = "heading" /\ ~InCode(n)}

\* Search finds all there is and points at the right place: there is a chunk for
\* each heading outside code and one for what precedes the first, in the order of
\* the document and numbered from 0 without gap (UNIQUE (revision_id, ordinal)); a
\* chunk holds what is between its heading and the next, without the blank lines
\* around it, also when that is nothing, or code that is never closed.
SectionsAsWritten ==
    done =>
        /\ {chunks[k].heading : k \in DOMAIN chunks}
              = Headings \cup (IF 1 \in Headings THEN {} ELSE {0})
        /\ \A k \in DOMAIN chunks :
              LET next == IF k < Len(chunks) THEN chunks[k + 1].heading ELSE Len(lines) + 1
              IN  /\ chunks[k].ordinal = k - 1
                  /\ chunks[k].heading < next
                  /\ chunks[k].body =
                        TrimSpace([i \in 1 .. next - chunks[k].heading - 1 |->
                                      chunks[k].heading + i])
=============================================================================
