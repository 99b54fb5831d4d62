-------------------------------- MODULE RLog ---------------------------------
(***************************************************************************)
(* The log of rbase/common (rlog.c, rlog.h) after rlog_init, with one file *)
(* for all levels: threads print, flush and roll.  With a file for every   *)
(* level _rlog_build_items skips every level, and there is nothing to      *)
(* print to.                                                               *)
(*                                                                         *)
(* rlog_printf formats its line into a buffer of the level before it takes *)
(* the mutex of the log, writes it to the file, rolls the file when the    *)
(* level has written enough, and takes the mutex again for the console.    *)
(* rlog_rolling_file and rlog_flush_file take the same mutex again.        *)
(***************************************************************************)
EXTENDS Integers, Sequences, FiniteSets

CONSTANTS Thread,
          Level,      \* the levels that are not filtered out
          InfoLevel,  \* rlog_level_info, the level of the log's own messages
          SizeMax,    \* file_size_max, in lines
          Recursive,  \* whether the owner of a mutex may lock it again: a
                      \* CRITICAL_SECTION may, a default pthread mutex may not
          MaxCalls    \* bound: the calls of a thread

ASSUME LogAssumption == /\ IsFiniteSet(Level) /\ InfoLevel \in Level
                        /\ SizeMax \in Nat /\ MaxCalls \in Nat \ {0}
                        /\ Recursive \in BOOLEAN

VARIABLES state,  \* rlog->state
          owner,  \* who holds rlog->mutex: a set of at most one thread
          depth,  \* and how often
          file,   \* level -> file_ptr: the number of a file, or 0 for NULL
          open,   \* the files not closed
          files,  \* how many lines each file got, in the order they were opened
          size,   \* level -> file_size, in lines
          buf,    \* level -> item_buffer
          pc,     \* thread -> where it is
          back,   \* thread -> where its nested calls return to
          cur,    \* thread -> the level it prints at, and its line
          calls,  \* thread -> how many calls it made
          clash,  \* history: two calls of rlog_printf at one level overlapped
          wild    \* fprintf got NULL

mutex == <<owner, depth>>
disk == <<file, open, files, size>>
control == <<pc, back, cur, calls>>
vars == <<state, mutex, disk, buf, control, clash, wild>>

-----------------------------------------------------------------------------
Line == Thread \X (1 .. 2 * MaxCalls)
NoLine == <<>>
Whole(x) == [line |-> x, whole |-> TRUE]
Half(x) == [line |-> x, whole |-> FALSE]
NoFile == 0

\* rlog_init_log and _rlog_build_items: the levels share the file the first
\* of them opens.
Init == /\ state = "working"
        /\ owner = {} /\ depth = 0
        /\ file = [l \in Level |-> 1]
        /\ open = {1}
        /\ files = <<0>>
        /\ size = [l \in Level |-> 0]
        /\ buf = [l \in Level |-> Whole(NoLine)]
        /\ pc = [t \in Thread |-> "idle"]
        /\ back = [t \in Thread |-> <<>>]
        /\ cur = [t \in Thread |-> [level |-> InfoLevel, line |-> <<t, 1>>]]
        /\ calls = [t \in Thread |-> 0]
        /\ clash = FALSE
        /\ wild = FALSE

-----------------------------------------------------------------------------
(* rmutex_lock and rmutex_unlock (rthread.h)                               *)

CanLock(t) == owner = {} \/ (Recursive /\ owner = {t})
Lock(t) == CanLock(t) /\ owner' = {t} /\ depth' = depth + 1

Unlock == /\ depth' = depth - 1
          /\ owner' = IF depth = 1 THEN {} ELSE owner

Goto(t, where) == pc' = [pc EXCEPT ![t] = where]

\* The end of a call: back to the caller inside the log, or to the user.
Return(t) == IF back[t] = <<>>
             THEN Goto(t, "idle") /\ UNCHANGED back
             ELSE Goto(t, Head(back[t])) /\ back' = [back EXCEPT ![t] = Tail(@)]

Call(t) == /\ pc[t] = "idle" /\ ~wild
           /\ calls[t] < MaxCalls
           /\ calls' = [calls EXCEPT ![t] = @ + 1]

-----------------------------------------------------------------------------
(* rlog_printf                                                             *)

\* The state is read without the mutex.
NotReady(t) == /\ state # "working"
               /\ UNCHANGED <<state, mutex, disk, buf, clash, wild>>

Printing(l) == {t \in Thread : pc[t] \in {"format", "lock", "write", "roll", "flush",
                                          "build", "unlock", "out"} /\ cur[t].level = l}

FormatBegin(t, l) ==
  /\ state = "working"
  /\ LET line == <<t, cur[t].line[2] + 1>>
     IN  /\ cur' = [cur EXCEPT ![t] = [level |-> l, line |-> line]]
         /\ buf' = [buf EXCEPT ![l] = Half(line)]
  /\ clash' = (clash \/ Printing(l) \ {t} # {})
  /\ Goto(t, "format")
  /\ UNCHANGED <<state, disk, wild>>

Printf(t, l) == /\ Call(t)
                /\ \/ FormatBegin(t, l) /\ UNCHANGED mutex
                   \/ NotReady(t) /\ UNCHANGED <<pc, cur>>
                /\ UNCHANGED back

\* vsnprintf is through; another one may have written to the buffer meanwhile.
FormatEnd(t) ==
  /\ pc[t] = "format"
  /\ LET l == cur[t].level
     IN  buf' = [buf EXCEPT ![l] = IF @ = Half(cur[t].line) THEN Whole(cur[t].line)
                                                          ELSE Half(NoLine)]
  /\ Goto(t, "lock")
  /\ UNCHANGED <<state, mutex, disk, back, cur, calls, clash, wild>>

LockFile(t) == /\ pc[t] = "lock"
               /\ Lock(t)
               /\ Goto(t, "write")
               /\ UNCHANGED <<state, disk, buf, back, cur, calls, clash, wild>>

\* Mutant: the counter is compared before the line is added to it.
Write_TestFirst(t) ==
  LET l == cur[t].level
  IN  /\ pc[t] = "write" /\ file[l] \in open
      /\ files' = [files EXCEPT ![file[l]] = @ + 1]
      /\ size' = [size EXCEPT ![l] = @ + 1]
      /\ IF size[l] > SizeMax /\ state = "working"
         THEN Goto(t, "roll") /\ back' = [back EXCEPT ![t] = <<"unlock">> \o @]
         ELSE Goto(t, "unlock") /\ UNCHANGED back
      /\ UNCHANGED <<state, mutex, file, open, buf, cur, calls, clash, wild>>

\* fprintf, and the test whether the file is to be rolled.  file_size grows by
\* the length of the message without the time and the level in front of it,
\* which fprintf writes too; here a line counts for one in both.
Write(t) ==
  LET l == cur[t].level
  IN  /\ pc[t] = "write" /\ file[l] \in open
      /\ files' = [files EXCEPT ![file[l]] = @ + 1]
      /\ size' = [size EXCEPT ![l] = @ + 1]
      /\ IF size[l] + 1 > SizeMax /\ state = "working"
         THEN Goto(t, "roll") /\ back' = [back EXCEPT ![t] = <<"unlock">> \o @]
         ELSE Goto(t, "unlock") /\ UNCHANGED back
      /\ UNCHANGED <<state, mutex, file, open, buf, cur, calls, clash, wild>>

WriteNull(t) == /\ pc[t] = "write" /\ file[cur[t].level] \notin open
                /\ wild' = TRUE
                /\ UNCHANGED <<state, mutex, disk, buf, control, clash>>

UnlockFile(t) == /\ pc[t] = "unlock"
                 /\ Unlock
                 /\ Goto(t, "out")
                 /\ UNCHANGED <<state, disk, buf, back, cur, calls, clash, wild>>

\* The console: lock, printf of the same buffer, unlock.
Out(t) == /\ pc[t] = "out" /\ CanLock(t)
          /\ Return(t)
          /\ UNCHANGED <<state, mutex, disk, buf, cur, calls, clash, wild>>

-----------------------------------------------------------------------------
(* rlog_rolling_file, called by a user or by rlog_printf                   *)

RollCall(t) == /\ Call(t)
               /\ Goto(t, "roll")
               /\ UNCHANGED <<state, mutex, disk, buf, back, cur, clash, wild>>

\* A state other than working ends the call; it is set to working all the same.
RollLock(t) ==
  /\ pc[t] = "roll"
  /\ CanLock(t)
  /\ IF state = "working"
     THEN /\ Lock(t)
          /\ state' = "roll_file"
          /\ Goto(t, "flush") /\ UNCHANGED back
     ELSE /\ state' = "working"
          /\ Return(t) /\ UNCHANGED mutex
  /\ UNCHANGED <<disk, buf, cur, calls, clash, wild>>

\* Mutant: the mutex stays locked, as on the early return of rlog_flush_file.
RollFlush_KeepLock(t) ==
  /\ pc[t] = "flush" /\ Lock(t)
  /\ open' = {}
  /\ file' = [l \in Level |-> NoFile]
  /\ size' = [l \in Level |-> 0]
  /\ Goto(t, "build")
  /\ UNCHANGED <<state, files, buf, back, cur, calls, clash, wild>>

\* rlog_flush_file(rlog, level, true): the file that all levels share is
\* closed.  It locks and unlocks the mutex; its message finds the log not ready.
RollFlush(t) ==
  /\ pc[t] = "flush" /\ CanLock(t)
  /\ open' = {}
  /\ file' = [l \in Level |-> NoFile]
  /\ size' = [l \in Level |-> 0]
  /\ Goto(t, "build")
  /\ UNCHANGED <<state, mutex, files, buf, back, cur, calls, clash, wild>>

\* Mutant: _rlog_build_items empties the buffers as it does at the beginning.
RollBuild_NewBuffers(t) ==
  /\ pc[t] = "build"
  /\ files' = Append(files, 0)
  /\ open' = open \cup {Len(files')}
  /\ file' = [l \in Level |-> Len(files')]
  /\ buf' = [l \in Level |-> Whole(NoLine)]
  /\ state' = "working"
  /\ Unlock /\ Return(t)
  /\ UNCHANGED <<size, cur, calls, clash, wild>>

\* _rlog_build_items: the old file is renamed, the first level opens a new one
\* and the others share it; or it cannot be opened.
RollBuild(t) ==
  /\ pc[t] = "build"
  /\ \/ /\ files' = Append(files, 0)
        /\ open' = open \cup {Len(files')}
        /\ file' = [l \in Level |-> Len(files')]
     \/ UNCHANGED <<files, open, file>>
  /\ state' = "working"
  /\ Unlock /\ Return(t)
  /\ UNCHANGED <<size, buf, cur, calls, clash, wild>>

-----------------------------------------------------------------------------
(* rlog_flush_file(rlog, rlog_level_all, false), called by a user: its own *)
(* message is printed, and may roll the file, while the mutex is held.     *)

FlushCall(t) == /\ Call(t)
                /\ Goto(t, "to_flush")
                /\ UNCHANGED <<state, mutex, disk, buf, back, cur, clash, wild>>

FlushLock(t) == /\ pc[t] = "to_flush" /\ Lock(t)
                /\ FormatBegin(t, InfoLevel)
                /\ back' = [back EXCEPT ![t] = <<"flushed">> \o @]
                /\ UNCHANGED calls

Flushed(t) == /\ pc[t] = "flushed"
              /\ Unlock /\ Return(t)
              /\ UNCHANGED <<state, disk, buf, cur, calls, clash, wild>>

-----------------------------------------------------------------------------
Within(t) == \/ FormatEnd(t) \/ LockFile(t) \/ Write(t) \/ WriteNull(t) \/ UnlockFile(t) \/ Out(t)
             \/ RollLock(t) \/ RollFlush(t) \/ RollBuild(t)
             \/ FlushLock(t) \/ Flushed(t)

Next == \E t \in Thread : \/ \E l \in Level : Printf(t, l)
                           \/ RollCall(t) \/ FlushCall(t)
                           \/ Within(t)

Spec == Init /\ [][Next]_vars

\* A thread runs on, and a mutex that is free again and again is had one day.
FairSpec == Spec /\ \A t \in Thread : SF_vars(Within(t))

-----------------------------------------------------------------------------
(* Properties                                                              *)

TypeOK ==
  /\ state \in {"working", "roll_file"}
  /\ owner \subseteq Thread /\ Cardinality(owner) <= 1
  /\ depth \in Nat /\ (depth = 0 <=> owner = {})
  /\ open \subseteq DOMAIN files
  /\ file \in [Level -> {NoFile} \cup DOMAIN files]
  /\ size \in [Level -> Nat]
  /\ buf \in [Level -> [line : Line \cup {NoLine}, whole : BOOLEAN]]
  /\ cur \in [Thread -> [level : Level, line : Line]]
  /\ pc \in [Thread -> {"idle", "format", "lock", "write", "unlock", "out",
                         "roll", "flush", "build", "to_flush", "flushed"}]
  /\ \A t \in Thread : Len(back[t]) <= 2
  /\ calls \in [Thread -> 0 .. MaxCalls]
  /\ clash \in BOOLEAN /\ wild \in BOOLEAN

\* Whoever rolls, and whatever is printed meanwhile, all levels write to the
\* one file that is open: no level keeps a file another one closed, and no
\* file stays open behind.  The limit is one of a level and not of the file, but
\* the counters of all levels begin anew with the file: it never holds more than
\* the levels' limits together and the line that made one of them roll.
OneFile ==
  /\ TypeOK
  /\ state = "working" => /\ \A l, m \in Level : file[l] = file[m]
                          /\ open = {file[l] : l \in Level} \ {NoFile}
  /\ \A f \in DOMAIN files : files[f] <= Cardinality(Level) * SizeMax + 1

\* The buffer of a level is filled before the mutex is taken.  Only calls of
\* two threads at one level that overlap can mix their lines, where the message
\* a flush prints is such a call at the level of the log's own messages: rolling
\* and calls at other levels never touch a line on its way.
LinesWhole == ~clash =>
  \A t \in Thread : pc[t] \in {"write", "out"} => buf[cur[t].level] = Whole(cur[t].line)

\* Every call returns: rlog.c:488 says after the call of rlog_flush_file in a
\* roll that it "has closed the file".
CallReturns == \A t \in Thread : pc[t] # "idle" ~> (pc[t] = "idle" \/ wild)
=============================================================================
