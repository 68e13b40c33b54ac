-------------------------------- MODULE Hub --------------------------------
(***************************************************************************)
(* The download of the tensors a member needs (commonnet/hub.py, read      *)
(* back by weights.py).  A compact file holds a header and the wanted      *)
(* tensors of one remote file, fetched in merged ranges whose gaps are     *)
(* thrown away; a whole file is fetched as it is and its hash compared.    *)
(* Either is written to a .part file, resumed from its length, and renamed *)
(* when complete; the index that names all files is written last.          *)
(*                                                                         *)
(* A byte is the version of the remote file it was read from and its       *)
(* offset there.  A process that is killed loses what it has not flushed.  *)
(* A write that fails is tried again as a connection that broke is.        *)
(***************************************************************************)
EXTENDS Integers, Sequences, SequencesExt, FiniteSetsExt

CONSTANTS
  Remote,     \* per file, the wanted ranges <<first, end>> in order, offsets from 1
  Whole,      \* the files fetched whole (each of one range)
  Bridge, MaxSegment, Chunk, Retries, Attempts,
  MaxFaults,  \* broken connections, ignored ranges, failed writes, full disks, kills
  MaxVersion  \* versions of the remote files

VARIABLES
  disk,     \* per file its part and its final file, and whether the index is there;
            \* for the properties, the files torn by a write that failed
  kept,     \* bytes of the part that is open that would outlive the process
  pc, file, \* where the process is, and in which file
  done,     \* bytes of tensors the code counts as written
  todo,     \* what is left of the segment
  req,      \* the request: next offset, tries, version served
  etag,     \* the version the hash of a whole file was given for
  attempts, faults, version

vars == <<disk, kept, pc, file, done, todo, req, etag, attempts, faults, version>>

File == DOMAIN Remote
HeadLen(f) == IF f \in Whole THEN 0 ELSE 1
Size(r) == r[2] - r[1]
Ends(f) == [i \in DOMAIN Remote[f] |->
              FoldLeft(LAMBDA n, r : n + Size(r), 0, SubSeq(Remote[f], 1, i))]
Total(f) == HeadLen(f) + Last(Ends(f))

Header(f, v) == IF f \in Whole THEN <<>> ELSE <<<<v, 0>>>>
Bytes(v, from, to) == [i \in 1..to - from |-> <<v, from + i - 1>>]
\* What the finished file must hold.
Image(f, v) == Header(f, v) \o FlattenSeq([i \in DOMAIN Remote[f] |->
                                             Bytes(v, Remote[f][i][1], Remote[f][i][2])])

\* plan_segments: the first tensor of the range that each is fetched with.
Segment(f) ==
  LET r == Remote[f]
      first[i \in DOMAIN r] ==
        IF i > 1 /\ r[i][1] - r[i - 1][2] <= Bridge
             /\ r[i][2] - r[first[i - 1]][1] <= MaxSegment
        THEN first[i - 1] ELSE i
  IN first

Fault == faults < MaxFaults /\ faults' = faults + 1

Init == /\ disk = [part |-> [f \in File |-> <<>>], final |-> [f \in File |-> <<>>],
                   index |-> FALSE, torn |-> {}]
        /\ kept = 0 /\ pc = "open" /\ file = 1 /\ done = 0 /\ todo = <<>>
        /\ req = [pos |-> 0, tries |-> 0, version |-> 1] /\ etag = 1
        /\ attempts = 1 /\ faults = 0 /\ version = 1

-----------------------------------------------------------------------------
\* fetch: another attempt starts over with the first file, and resumes.
AttemptFails ==
  /\ IF attempts < Attempts THEN pc' = "open" /\ attempts' = attempts + 1
                            ELSE pc' = "failed" /\ UNCHANGED attempts
  /\ file' = 1
NextFile ==
  IF file = Len(Remote) THEN pc' = "index" /\ UNCHANGED file ELSE pc' = "open" /\ file' = file + 1

\* fetch_compact and fetch_file up to the first request.
Open ==
  LET part == disk.part[file]
      usable == IF Len(part) > Total(file) THEN <<>> ELSE part
      opened == IF Len(usable) < HeadLen(file) THEN Header(file, version) ELSE usable
  IN /\ pc = "open"
     /\ etag' = version
     /\ IF disk.final[file] # <<>>
        THEN /\ IF Len(disk.final[file]) = Total(file) THEN NextFile /\ UNCHANGED attempts
                                                       ELSE AttemptFails
             /\ UNCHANGED <<disk, kept, done>>
        ELSE /\ disk' = [disk EXCEPT !.part[file] = opened,
                                     !.torn = IF usable = <<>> THEN @ \ {file} ELSE @]
             /\ kept' = Len(usable)
             /\ done' = Len(opened) - HeadLen(file)
             /\ pc' = "segment"
             /\ UNCHANGED <<file, attempts>>
     /\ UNCHANGED <<todo, req, faults, version>>
\* _need_space: not worth another attempt.
NoSpace == /\ pc = "open" /\ Fault
           /\ pc' = "failed"
           /\ UNCHANGED <<disk, kept, file, done, todo, req, etag, attempts, version>>

\* The next range: of its tensors, those not yet written, the first of them in part.
NextSegmentWhole ==
  LET r == Remote[file]
      rest == {i \in DOMAIN r : Ends(file)[i] > done}
      seg == SelectSeq([i \in DOMAIN r |-> i],
                       LAMBDA i : i \in rest /\ Segment(file)[i] = Segment(file)[Min(rest)])
  IN /\ pc = "segment"
     /\ IF rest = {} THEN pc' = "finish" /\ UNCHANGED <<todo, req>>
        ELSE /\ pc' = "request"
             /\ todo' = [k \in DOMAIN seg |-> r[seg[k]]]
             /\ req' = [req EXCEPT !.pos = r[seg[1]][1], !.tries = 0]
     /\ UNCHANGED <<disk, kept, file, done, etag, attempts, faults, version>>
NextSegment ==
  LET r == Remote[file]
      rest == {i \in DOMAIN r : Ends(file)[i] > done}
      seg == SelectSeq([i \in DOMAIN r |-> i],
                       LAMBDA i : i \in rest /\ Segment(file)[i] = Segment(file)[Min(rest)])
      skip(i) == Max({0, done - (Ends(file)[i] - Size(r[i]))})
  IN /\ pc = "segment"
     /\ IF rest = {} THEN pc' = "finish" /\ UNCHANGED <<todo, req>>
        ELSE /\ pc' = "request"
             /\ todo' = [k \in DOMAIN seg |-> <<r[seg[k]][1] + skip(seg[k]), r[seg[k]][2]>>]
             /\ req' = [req EXCEPT !.pos = todo'[1][1], !.tries = 0]
     /\ UNCHANGED <<disk, kept, file, done, etag, attempts, faults, version>>

\* After a write that failed at the very end, the range asked for is empty, and none is served.
Request == LET pos == Max({req.pos, todo[1][1]}) IN
           /\ pc = "request"
           /\ IF pos < Last(todo)[2]
              THEN /\ pc' = "read" /\ req' = [req EXCEPT !.pos = pos, !.version = version]
                   /\ UNCHANGED <<file, attempts>>
              ELSE AttemptFails /\ UNCHANGED req
           /\ UNCHANGED <<disk, kept, done, todo, etag, faults, version>>
\* A server that sends the whole file is not believed.
RangeIgnored == /\ pc = "request" /\ Fault
                /\ AttemptFails
                /\ UNCHANGED <<disk, kept, done, todo, req, etag, version>>

\* What a read up to `end` has of a wanted range, and of all of them.
Wanted(t, end) == Bytes(req.version, Max({t[1], req.pos}), Min({t[2], end}))
Got(first, last, end) == FlattenSeq([i \in 1..last - first + 1 |-> Wanted(todo[first + i - 1], end)])
ReadEnd == {req.pos + n : n \in 1..Min({Chunk, Last(todo)[2] - req.pos})}
\* The bytes of the tensors of this segment and of those before it.
SegmentEnd == Ends(file)[CHOOSE i \in DOMAIN Remote[file] : Remote[file][i][2] = Last(todo)[2]]

\* One read of the response: the bytes of wanted tensors are appended.
Read ==
  /\ pc = "read"
  /\ \E end \in ReadEnd :
       LET left == SelectSeq([k \in DOMAIN todo |-> <<Max({todo[k][1], end}), todo[k][2]>>],
                             LAMBDA t : t[1] < t[2])
           part == disk.part[file] \o Got(1, Len(todo), end)
       IN /\ disk' = [disk EXCEPT !.part[file] = part,
                                 !.torn = IF todo[1][1] < req.pos THEN @ \cup {file} ELSE @]
          /\ todo' = left
          /\ req' = [req EXCEPT !.pos = end]
          /\ IF left = <<>> THEN pc' = "segment" /\ kept' = Len(part) /\ done' = SegmentEnd
             ELSE UNCHANGED <<pc, kept, done>>
  /\ UNCHANGED <<file, etag, attempts, faults, version>>

\* The rest is asked for again, a few times.
TriesFrom(pos) ==
  /\ req' = [req EXCEPT !.pos = pos, !.tries = @ + 1]
  /\ IF req.tries + 1 < Retries THEN pc' = "request" /\ UNCHANGED <<file, attempts>>
                                ELSE AttemptFails
\* The connection breaks.
Break ==
  /\ pc \in {"request", "read"} /\ Fault
  /\ TriesFrom(req.pos)
  /\ kept' = IF pc' = "request" THEN kept ELSE Len(disk.part[file])
  /\ UNCHANGED <<disk, done, todo, etag, version>>
\* A write of what was read fails, some bytes after its beginning.  A whole file is asked for
\* again from before it, a range of tensors from the end of what was read: what was not
\* written of the tensor at hand is passed over (hub.py 329, 320).
WriteFails ==
  /\ pc = "read" /\ Fault
  /\ \E end \in ReadEnd, k \in DOMAIN todo :
       LET got == Got(k, k, end)
           before == Got(1, k - 1, end)
       IN \E m \in 0..Len(got) - 1 :
            /\ disk' = [disk EXCEPT !.part[file] = @ \o before \o SubSeq(got, 1, m),
                                   !.torn = IF (file \in Whole /\ m > 0) \/ todo[1][1] < req.pos
                                            THEN @ \cup {file} ELSE @]
            /\ todo' = SubSeq(todo, k, Len(todo))
            /\ TriesFrom(IF file \in Whole THEN req.pos ELSE end)
  /\ UNCHANGED <<kept, done, etag, version>>

FinishKeepsPart ==
  LET part == disk.part[file]
      wrong == file \in Whole /\ part # Image(file, etag)
  IN /\ pc = "finish"
     /\ IF Len(part) # Total(file) \/ wrong
        THEN UNCHANGED disk /\ AttemptFails
        ELSE /\ disk' = [disk EXCEPT !.part[file] = <<>>, !.final[file] = part]
             /\ NextFile /\ UNCHANGED attempts
     /\ UNCHANGED <<kept, done, todo, req, etag, faults, version>>
\* The size, and the hash of a whole file; then the rename.
Finish ==
  LET part == disk.part[file]
      wrong == file \in Whole /\ part # Image(file, etag)
  IN /\ pc = "finish"
     /\ IF Len(part) # Total(file) \/ wrong
        THEN /\ disk' = IF Len(part) = Total(file) THEN [disk EXCEPT !.part[file] = <<>>] ELSE disk
             /\ AttemptFails
        ELSE /\ disk' = [disk EXCEPT !.part[file] = <<>>, !.final[file] = part]
             /\ NextFile /\ UNCHANGED attempts
     /\ UNCHANGED <<kept, done, todo, req, etag, faults, version>>

WriteIndex == /\ pc = "index"
              /\ disk' = [disk EXCEPT !.index = TRUE]
              /\ pc' = "ready"
              /\ UNCHANGED <<kept, file, done, todo, req, etag, attempts, faults, version>>

\* The process is killed, or the last flush of a range fails (the retry it leads to ends the
\* process, hub.py 320, 346); of what was not flushed, any beginning may be on disk.
Kill == /\ pc \notin {"ready", "failed"} /\ Fault
        /\ IF pc \in {"segment", "request", "read", "finish"}
           THEN \E n \in kept..Len(disk.part[file]) :
                  disk' = [disk EXCEPT !.part[file] = SubSeq(@, 1, n)]
           ELSE UNCHANGED disk
        /\ pc' = "failed"
        /\ UNCHANGED <<kept, file, done, todo, req, etag, attempts, version>>
\* The command is run again.
Again == /\ pc = "failed"
         /\ pc' = "open" /\ file' = 1 /\ attempts' = 1
         /\ UNCHANGED <<disk, kept, done, todo, req, etag, faults, version>>

\* The repository is given new contents under the same name ("main").
Publish == /\ version < MaxVersion /\ pc # "ready"
           /\ version' = version + 1
           /\ UNCHANGED <<disk, kept, pc, file, done, todo, req, etag, attempts, faults>>

Fetch == Open \/ NextSegment \/ Request \/ Read \/ Finish \/ WriteIndex \/ Again
Next == Fetch \/ NoSpace \/ RangeIgnored \/ Break \/ WriteFails \/ Kill \/ Publish

\* The process goes on, and whoever started it starts it again.
Spec == Init /\ [][Next]_vars /\ WF_vars(Fetch)

-----------------------------------------------------------------------------
TypeOK ==
  /\ pc \in {"open", "segment", "request", "read", "finish", "index", "ready", "failed"}
  /\ file \in File /\ attempts \in 1..Attempts /\ faults \in 0..MaxFaults
  /\ version \in 1..MaxVersion /\ etag \in 1..version /\ req.version \in 1..version
  /\ done \in 0..20 /\ kept \in 0..20

\* A partial file is a beginning of the file it will be, wherever the downloads before were
\* cut off and whatever gaps were thrown away, unless it was torn: a write failed and what
\* came after it was appended all the same (_stream_segment, fetch_compact).
PartIsBeginning ==
  version = 1 => \A f \in File \ disk.torn : IsPrefix(disk.part[f], Image(f, 1))

\* A finished file is what the repository held: a whole file always, since its
\* hash is compared; a compact one if nothing was published meanwhile and it was not torn.
FinalIsExact ==
  \A f \in File : disk.final[f] # <<>> =>
    IF f \in Whole THEN \E v \in 1..version : disk.final[f] = Image(f, v)
    ELSE version = 1 /\ f \notin disk.torn => disk.final[f] = Image(f, 1)

\* The index names only files that are there (_fetch_once; CheckpointReader).
IndexMeansComplete ==
  disk.index => \A f \in File : Len(disk.final[f]) = Total(f)

DownloadExact == PartIsBeginning /\ FinalIsExact /\ IndexMeansComplete

\* However often it fails, running it again completes it (fetch).
DownloadCompletes == <>[](pc = "ready")
=============================================================================
