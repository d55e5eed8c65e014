----------------------------- MODULE ChunkWords -----------------------------
(***************************************************************************)
(* The chunker of the superseded backend (old/backend/src/chunker): a      *)
(* stream of words is cut into overlapping chunks, and the words of a      *)
(* chunk are grouped into visual lines, each with the rectangle around its *)
(* words.  A text is the sequence of lines of word indices.                *)
(***************************************************************************)
EXTENDS Integers, Sequences, FiniteSets, FiniteSetsExt, SequencesExt

CONSTANTS
  Words,       \* word boxes: [page, x, y, w, h]
  MaxWords,
  Sizes, Overlaps   \* configurations, senseless ones included

VARIABLES
  words, cfg,  \* the input
  start,       \* first word of the next chunk, from 0
  out,         \* chunks so far: [ordinal, first, last, lines, bboxes]
  done

chunkVars == <<words, cfg, start, out, done>>

ChunkInit ==
  /\ words \in UNION {[1..n -> Words] : n \in 0..MaxWords}
  /\ cfg \in [size : Sizes, overlap : Overlaps]
  /\ start = 0
  /\ out = <<>>
  /\ done = (words = <<>>)

Size == Max({cfg.size, 1})

\* Mutant: the overlap as configured, which may leave no step to take.
OverlapAny == Min({cfg.overlap, Size})

Overlap == Min({cfg.overlap, Size - 1})

----------------------------------------------------------------------------
\* Half a glyph's height, at least half a point, from the line's first word.
SameLine(first, next) ==
  /\ next.page = first.page
  /\ LET dy == next.y - first.y
     IN  2 * (IF dy < 0 THEN -dy ELSE dy) <= Max({first.h, 1})

\* The lines of words a..b: a word joins the line of its first word or opens one.
Lines(a, b) ==
  FoldLeft(LAMBDA ls, i :
             IF ls # <<>> /\ SameLine(words[Head(Last(ls))], words[i])
             THEN [ls EXCEPT ![Len(ls)] = Append(@, i)]
             ELSE Append(ls, <<i>>),
           <<>>, [k \in 1..(b - a + 1) |-> a + k - 1])

\* The union of a line's word rectangles.
Bbox(line) ==
  LET ws == {words[i] : i \in Range(line)}
      x  == Min({v.x : v \in ws})
      y  == Min({v.y : v \in ws})
  IN  [page |-> words[Head(line)].page, x |-> x, y |-> y,
       w |-> Max({v.x + v.w : v \in ws}) - x, h |-> Max({v.y + v.h : v \in ws}) - y]

RenderSlice(a, b) ==
  LET ls == Lines(a, b) IN [lines |-> ls, bboxes |-> [k \in DOMAIN ls |-> Bbox(ls[k])]]

\* One turn of chunk_words' loop.
Push ==
  LET end == Min({start + Size, Len(words)})
      r   == RenderSlice(start + 1, end)
  IN  /\ ~done
      /\ out' = Append(out, [ordinal |-> Len(out), first |-> start + 1, last |-> end,
                             lines |-> r.lines, bboxes |-> r.bboxes])
      /\ done' = (end >= Len(words))
      /\ start' = IF done' THEN start ELSE start + (Size - Overlap)
      /\ UNCHANGED <<words, cfg>>

ChunkNext == Push

ChunkSpec == ChunkInit /\ [][ChunkNext]_chunkVars

----------------------------------------------------------------------------
\* The word's rectangle lies in the line's.
Inside(w, b) ==
  /\ w.page = b.page
  /\ w.x >= b.x /\ w.x + w.w <= b.x + b.w
  /\ w.y >= b.y /\ w.y + w.h <= b.y + b.h

\* Whatever the configuration: no word is lost or reordered, every chunk goes
\* past the one before (so the loop ends) and shares with it exactly the overlap
\* configured or the most there can be, none is longer than configured; its
\* lines are its words in order, and every word lies in its line's rectangle.
ChunksCover ==
  /\ done => (words = <<>> \/ Last(out).last = Len(words))
  /\ \A n \in DOMAIN out :
       LET c == out[n]
       IN  /\ c.ordinal = n - 1
           /\ c.last - c.first < Max({cfg.size, 1})
           /\ IF n = 1 THEN c.first = 1
              ELSE /\ c.last > out[n - 1].last
                   /\ out[n - 1].last - c.first + 1 = Min({cfg.overlap, Max({cfg.size, 1}) - 1})
           /\ FoldLeft(LAMBDA s, l : s \o l, <<>>, c.lines) = [k \in 1..(c.last - c.first + 1) |-> c.first + k - 1]
           /\ \A k \in DOMAIN c.lines : \A i \in Range(c.lines[k]) : Inside(words[i], c.bboxes[k])

=============================================================================
