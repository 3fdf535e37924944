-------------------------------- MODULE Files --------------------------------
(***************************************************************************)
(* The file half of io/files: a program with one open file at a time, the  *)
(* directory it works in, and the functions on paths.  The C library and   *)
(* the operating system are external; any of their calls may fail.         *)
(*                                                                         *)
(* Left out: stdio's buffering (a write is seen at once), calls on a       *)
(* closed file, which C leaves undefined, and functions on the path of a   *)
(* file that is open.                                                      *)
(***************************************************************************)
EXTENDS Integers, Sequences, FiniteSets, FiniteSetsExt, SequencesExt

CONSTANTS
  Paths,
  Absent, Dir, \* what a path may name besides the bytes of a file
  NL, NUL,     \* the bytes that end a line and a string
  Letters,     \* the other bytes
  MaxBytes,    \* bound: the size of a file
  LineBuffer,  \* 1024: what readln gives to fgets
  ReadBuffer,  \* 1024: what read starts with
  CopyBuffer,  \* 4096: what copy moves at a time
  Junk         \* texts a fresh allocation may happen to hold

\* What a path may name is told apart, and so are the bytes; a buffer holds a
\* byte, and nothing is read as a sequence that is none.
ASSUME FilesAssumption ==
  /\ Absent # Dir /\ NL # NUL /\ NL \notin Letters /\ NUL \notin Letters
  /\ Absent \notin Seq(Letters \cup {NL, NUL}) /\ Dir \notin Seq(Letters \cup {NL, NUL})
  /\ Absent \notin Seq(Seq(Letters))
  /\ MaxBytes \in Nat /\ LineBuffer \in Nat
  /\ ReadBuffer \in Nat \ {0} /\ CopyBuffer \in Nat \ {0}

Shut == [path |-> Absent, mode |-> "shut", pos |-> 0]

VARIABLES
  disk,     \* what each path names: Absent, Dir or the bytes of a file
  file,     \* the open FILE: its path, mode and position
  job,      \* the running copy, or Shut
  fds,      \* descriptors of copy that are open
  answer,   \* what the last call returned
  written,  \* lines written to a path since it was emptied by open, or Absent
  heard     \* lines read from the open file from its start, or Absent

fileVars == <<disk, file, job, fds, answer, written, heard>>

\* The lines that fit the buffer of readln with their newline.
Texts == BoundedSeq(Letters, LineBuffer - 2)

Bytes(p) == IF disk[p] \in {Absent, Dir} THEN <<>> ELSE disk[p]
IsFileNow(p) == disk[p] \notin {Absent, Dir}

\* A C string ends at its first NUL.
CString(s) == LET ends == {k \in 1..Len(s) : s[k] = NUL}
              IN  IF ends = {} THEN s ELSE SubSeq(s, 1, Min(ends) - 1)

Ahead == SubSeq(Bytes(file.path), file.pos + 1, Len(Bytes(file.path)))
Opened == file # Shut
Idle == job = Shut
Ok(v) == <<"ok", v>>
Err(e) == <<"err", e>>

FilesInit ==
  /\ disk = [p \in Paths |-> Absent]
  /\ file = Shut /\ job = Shut /\ fds = {} /\ answer = Ok(<<>>)
  /\ written = [p \in Paths |-> Absent] /\ heard = Absent

-----------------------------------------------------------------------------
(* Opening and closing.                                                    *)

\* fopen with the letter of the FileMode; errno names the FileError.
Open(p, mode) ==
  /\ ~Opened /\ Idle /\ UNCHANGED <<job, fds>>
  /\ \/ /\ mode = "r" => disk[p] # Absent
        /\ mode \in {"w", "a"} => disk[p] # Dir
        /\ file' = [path |-> p, mode |-> mode, pos |-> 0]
        /\ disk' = [disk EXCEPT ![p] = CASE mode = "r" -> @
                                         [] mode = "w" -> <<>>
                                         [] mode = "a" -> Bytes(p)]
        /\ written' = IF mode = "w" \/ disk[p] = Absent
                      THEN [written EXCEPT ![p] = <<>>] ELSE written
        /\ heard' = IF mode = "r" THEN <<>> ELSE Absent
        /\ answer' = Ok(<<>>)
     \/ /\ answer' = Err(IF mode = "r" /\ disk[p] = Absent THEN "NotFound"
                         ELSE IF mode # "r" /\ disk[p] = Dir THEN "IsDirectory" ELSE "Other")
        /\ UNCHANGED <<disk, file, written, heard>>

Close ==
  /\ Opened
  /\ file' = Shut /\ heard' = Absent /\ answer' = Ok(<<>>)
  /\ UNCHANGED <<disk, job, fds, written>>

-----------------------------------------------------------------------------
(* Reading.                                                                *)

\* The capacity of the buffer of `read` before byte k is stored.
Capacity[k \in Nat] ==
  IF k = 0 THEN ReadBuffer
  ELSE LET before == Capacity[k - 1] IN IF k >= before THEN 2 * before ELSE before

Reads(n, value, lines) ==
  /\ Opened
  /\ file' = [file EXCEPT !.pos = @ + n]
  /\ answer' = Ok(value) /\ heard' = lines
  /\ UNCHANGED <<disk, job, fds, written>>

Available == IF file.mode = "r" THEN Ahead ELSE <<>>

\* read: byte after byte to the end; the length is found again by strlen.
ReadAll == Reads(Len(Available), CString(Available), Absent)

\* What fgets takes: through the first newline, and no more than fits.
Fetched ==
  LET fit  == Min({Len(Available), LineBuffer - 1})
      ends == {k \in 1..fit : Available[k] = NL}
  IN  SubSeq(Available, 1, IF ends = {} THEN fit ELSE Min(ends))

WithoutNewline(s) == IF s # <<>> /\ Last(s) = NL THEN Front(s) ELSE s

\* Mutant of ReadLine: the newline stays.
ReadLineWhole ==
  /\ Available # <<>>
  /\ Reads(Len(Fetched), CString(Fetched),
           IF heard = Absent THEN Absent ELSE Append(heard, CString(Fetched)))

\* readln does not look at what fgets returned: at the end of the file fgets
\* writes nothing and the text is what the allocation held.
ReadLine ==
  \E buffer \in IF Available = <<>> THEN Junk ELSE {Fetched} :
    LET line == WithoutNewline(CString(buffer))
    IN  Reads(Len(Fetched), line,
              IF heard = Absent \/ Available = <<>> THEN Absent ELSE Append(heard, line))

ReadChar ==
  Reads(Min({1, Len(Available)}),
        CString(SubSeq(Available, 1, Min({1, Len(Available)}))), Absent)

ReadBytes(n) ==
  Reads(Min({n, Len(Available)}), SubSeq(Available, 1, Min({n, Len(Available)})), Absent)

\* fseek refuses a position before the start; nobody looks at its result.
Seek(offset, from) ==
  LET to == offset + CASE from = "Start" -> 0 [] from = "Current" -> file.pos
                       [] from = "End" -> Len(Bytes(file.path))
  IN  /\ Opened /\ to \in Int /\ to <= MaxBytes
      /\ file' = [file EXCEPT !.pos = IF to < 0 THEN @ ELSE to]
      /\ answer' = Ok(<<>>) /\ heard' = Absent
      /\ UNCHANGED <<disk, job, fds, written>>

-----------------------------------------------------------------------------
(* Writing.  Nothing looks at how much fwrite wrote.                       *)

\* The bytes of the file with s written at the position; "a" writes at the end.
Overwritten(s) ==
  LET d  == Bytes(file.path)
      at == IF file.mode = "a" THEN Len(d) ELSE file.pos
      kept == SubSeq(d, 1, Min({at, Len(d)}))
                \o [k \in 1..(IF at > Len(d) THEN at - Len(d) ELSE 0) |-> NUL]
  IN  kept \o s \o SubSeq(d, at + Len(s) + 1, Len(d))

Writes(s, lines) ==
  /\ Opened /\ UNCHANGED <<job, fds, heard>> /\ answer' = Ok(<<>>)
  /\ \/ /\ file.mode \in {"w", "a"} /\ Len(Overwritten(s)) <= MaxBytes
        /\ disk' = [disk EXCEPT ![file.path] = Overwritten(s)]
        /\ file' = [file EXCEPT !.pos = (IF file.mode = "a" THEN Len(Bytes(file.path)) ELSE @) + Len(s)]
        /\ written' = [written EXCEPT ![file.path] = lines]
     \/ file.mode = "r" /\ UNCHANGED <<disk, file, written>>

WriteText(s) == Writes(s, Absent)

\* Two calls of fwrite: the text and the newline.
WriteLine(s) ==
  LET known == IF Opened THEN written[file.path] ELSE Absent
      atEnd == Opened /\ (file.mode = "a" \/ file.pos = Len(Bytes(file.path)))
  IN  Writes(s \o <<NL>>, IF known = Absent \/ ~atEnd \/ s \notin Texts THEN Absent
                           ELSE Append(known, s))

-----------------------------------------------------------------------------
(* Functions on paths: one system call each, and its failure.              *)

OnPaths == ~Opened /\ Idle /\ UNCHANGED <<file, job, fds, heard>>

Attempt(can, new, lines) ==
  \/ /\ can /\ disk' = new /\ written' = lines /\ answer' = Ok(<<>>)
  \/ answer' = Err("NotFound") /\ UNCHANGED <<disk, written>>

Unlink(p) ==
  OnPaths /\ Attempt(IsFileNow(p), [disk EXCEPT ![p] = Absent], [written EXCEPT ![p] = Absent])

Mkdir(p) ==
  OnPaths /\ Attempt(disk[p] = Absent, [disk EXCEPT ![p] = Dir], written)

Rmdir(p) ==
  OnPaths /\ Attempt(disk[p] = Dir, [disk EXCEPT ![p] = Absent], written)

Rename(p, q) ==
  OnPaths /\ Attempt(IF disk[p] = Dir THEN disk[q] \in {Absent, Dir} ELSE IsFileNow(p) /\ disk[q] # Dir,
                     [disk EXCEPT ![p] = IF p = q THEN @ ELSE Absent, ![q] = disk[p]],
                     [written EXCEPT ![p] = IF p = q THEN @ ELSE Absent, ![q] = written[p]])

\* exists, is_file and file_size ask and change nothing.
FileSize(p) ==
  /\ OnPaths /\ UNCHANGED <<disk, written>>
  /\ answer' = IF disk[p] = Absent THEN Err("NotFound") ELSE Ok(Len(Bytes(p)))

-----------------------------------------------------------------------------
(* copy: open both, move one buffer after another, close both.  Every call *)
(* may fail, and a write may be short.                                     *)

Copying(step) == job # Shut /\ job.step = step /\ UNCHANGED <<file, heard>>

CopyEnds(closed, result) == job' = Shut /\ fds' = fds \ closed /\ answer' = result

CopyOpenSource(p, q) ==
  /\ ~Opened /\ Idle /\ UNCHANGED <<disk, file, written, heard>>
  /\ \/ /\ IsFileNow(p) /\ fds' = {"src"} /\ UNCHANGED answer
        /\ job' = [src |-> p, dst |-> q, step |-> "openDst", rpos |-> 0,
                   chunk |-> <<>>, was |-> disk[p]]
     \/ answer' = Err("NotFound") /\ UNCHANGED <<job, fds>>

CopyOpenTarget ==
  /\ Copying("openDst")
  /\ \/ /\ disk[job.dst] # Dir
        /\ disk' = [disk EXCEPT ![job.dst] = <<>>]
        /\ written' = [written EXCEPT ![job.dst] = Absent]
        /\ job' = [job EXCEPT !.step = "read"]
        /\ fds' = fds \cup {"dst"} /\ UNCHANGED answer
     \/ CopyEnds({"src"}, Err("NotFound")) /\ UNCHANGED <<disk, written>>

CopyRead ==
  /\ Copying("read") /\ UNCHANGED <<disk, written>>
  /\ LET d == Bytes(job.src)
         chunk == SubSeq(d, job.rpos + 1, Min({job.rpos + CopyBuffer, Len(d)}))
     IN  \/ chunk = <<>> /\ CopyEnds({"src", "dst"}, Ok(<<>>))
         \/ /\ chunk # <<>> /\ UNCHANGED <<fds, answer>>
            /\ job' = [job EXCEPT !.step = "write", !.chunk = chunk, !.rpos = @ + Len(chunk)]
         \/ CopyEnds({"src", "dst"}, Err("NotFound"))

\* Mutant: a short write is taken for a whole one.
CopyWriteTrusts ==
  /\ Copying("write") /\ UNCHANGED written
  /\ \E n \in 1..Len(job.chunk) :
       /\ disk' = [disk EXCEPT ![job.dst] = @ \o SubSeq(job.chunk, 1, n)]
       /\ job' = [job EXCEPT !.step = "read"] /\ UNCHANGED <<fds, answer>>

CopyWrite ==
  /\ Copying("write") /\ UNCHANGED written
  /\ \E n \in 0..Len(job.chunk) :
       /\ disk' = [disk EXCEPT ![job.dst] = @ \o SubSeq(job.chunk, 1, n)]
       /\ IF n = Len(job.chunk)
          THEN job' = [job EXCEPT !.step = "read"] /\ UNCHANGED <<fds, answer>>
          ELSE CopyEnds({"src", "dst"}, Err("NotFound"))

-----------------------------------------------------------------------------
FilesNext ==
  \/ \E p \in Paths, mode \in {"r", "w", "a"} : Open(p, mode)
  \/ Close \/ ReadAll \/ ReadLine \/ ReadChar
  \/ \E n \in 0..MaxBytes : ReadBytes(n)
  \/ \E n \in -MaxBytes..MaxBytes, from \in {"Start", "Current", "End"} : Seek(n, from)
  \/ \E s \in Texts \cup {<<NUL>>} : WriteText(s) \/ WriteLine(s)
  \/ \E p \in Paths : Unlink(p) \/ Mkdir(p) \/ Rmdir(p) \/ FileSize(p)
  \/ \E p, q \in Paths : Rename(p, q) \/ CopyOpenSource(p, q)
  \/ CopyOpenTarget \/ CopyRead \/ CopyWrite

FilesSpec == FilesInit /\ [][FilesNext]_fileVars

-----------------------------------------------------------------------------
(* What writeln wrote to a file line by line, readln reads from it line by *)
(* line: the texts, in their order, none twice, none joined or cut, as     *)
(* long as a line fits the buffer of readln.  And read, which grows its    *)
(* buffer as it goes, never stores outside it, the closing NUL included.   *)
LinesComeBack ==
  /\ (heard # Absent /\ written[file.path] # Absent) => IsPrefix(heard, written[file.path])
  /\ \A k \in 0..MaxBytes : k < Capacity[k]

(* A copy that answers Ok has made the target what the source was when it  *)
(* was called and left the source alone; whatever it answers, and on every *)
(* way out, both descriptors are closed and no third path has changed.     *)
(* Copying a file onto itself is excluded: it empties the file.            *)
CopyStepExact ==
  job # Shut =>
    /\ \A p \in Paths \ {job.dst} : disk'[p] = disk[p]
    /\ job' = Shut => fds' = {}
    /\ job' = Shut /\ answer'[1] = "ok" /\ job.src # job.dst => disk'[job.dst] = job.was

CopyExact == [][CopyStepExact]_fileVars

(* docs/stdlib/io/files.md: a program reads lines until it gets an empty   *)
(* one, "Read until empty line (EOF)".                                     *)
EmptyAtEnd ==
  [][Opened /\ file.mode = "r" /\ Ahead = <<>> /\ ReadLine => answer'[2] = <<>>]_fileVars
=============================================================================
