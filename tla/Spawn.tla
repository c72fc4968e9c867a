------------------------------- MODULE Spawn -------------------------------
(***************************************************************************)
(* Child processes (utils::Spawn, details/SpawnUnix.cpp).  A Spawn object  *)
(* is a member of Owners; it has at most one child at a time.  The child   *)
(* and the signals sent to it are the operating system's: a child that     *)
(* ended is a zombie until a waitpid of its parent process returns it, to  *)
(* whichever object makes that call.  Pipes are left out: what a child     *)
(* prints is only logged, and the loops of the users drain it.             *)
(*                                                                         *)
(* The operators give the next values of the variables of this module; the *)
(* modules that extend it add their own.                                   *)
(***************************************************************************)
EXTENDS Naturals

CONSTANT Owners \* Spawn objects of the process

VARIABLES
    child,   \* "none", "running", "zombie" or "reaped"
    code,    \* how the child ended: "ok", "bad" or "signal"
    term,    \* SIGTERM was sent
    pid,     \* m_pid: "own", or "any" when it is -1
    started, \* m_start
    finish,  \* m_finish
    status   \* m_status, as a code; "ok" is 0

spawnVars == <<child, code, term, pid, started, finish, status>>

Codes == {"ok", "bad", "signal"}

SpawnTypeOK ==
    /\ child \in [Owners -> {"none", "running", "zombie", "reaped"}]
    /\ code \in [Owners -> Codes]
    /\ term \in [Owners -> BOOLEAN]
    /\ pid \in [Owners -> {"own", "any"}]
    /\ started \in [Owners -> BOOLEAN]
    /\ finish \in [Owners -> BOOLEAN]
    /\ status \in [Owners -> Codes]

SpawnInit ==
    /\ child = [o \in Owners |-> "none"]
    /\ code = [o \in Owners |-> "ok"]
    /\ term = [o \in Owners |-> FALSE]
    /\ pid = [o \in Owners |-> "any"]
    /\ started = [o \in Owners |-> FALSE]
    /\ finish = [o \in Owners |-> TRUE]
    /\ status = [o \in Owners |-> "ok"]

\* The process that holds the objects ends, and its children with it.
Forget ==
    /\ child' = [o \in Owners |-> "none"]
    /\ code' = [o \in Owners |-> "ok"]
    /\ term' = [o \in Owners |-> FALSE]
    /\ pid' = [o \in Owners |-> "any"]
    /\ started' = [o \in Owners |-> FALSE]
    /\ finish' = [o \in Owners |-> TRUE]
    /\ status' = [o \in Owners |-> "ok"]

\* Children a waitpid of the object applies to: its own, or any child of the
\* process when m_pid is -1.
Waited(o) ==
    {c \in Owners : child[c] \in {"running", "zombie"} /\ (pid[o] = "any" \/ c = o)}

\* waitpid returns the status of a child that ended.
Reap(o) ==
    \E c \in Waited(o) :
        /\ child[c] = "zombie"
        /\ child' = [child EXCEPT ![c] = "reaped"]
        /\ status' = [status EXCEPT ![o] = code[c]]
        /\ finish' = [finish EXCEPT ![o] = TRUE]
        /\ UNCHANGED <<code, term, pid, started>>

\* A change of Fork: m_pid is assigned after the child was looked at.
ForkLatePid(o) ==
    /\ child' = [child EXCEPT ![o] = "running"]
    /\ term' = [term EXCEPT ![o] = FALSE]
    /\ started' = [started EXCEPT ![o] = TRUE]
    /\ finish' = [finish EXCEPT ![o] = FALSE]
    /\ status' = [status EXCEPT ![o] = "ok"]
    /\ UNCHANGED <<code, pid>>

\* start, after init: the child runs. It is looked at after a delay.
Fork(o) ==
    /\ child' = [child EXCEPT ![o] = "running"]
    /\ term' = [term EXCEPT ![o] = FALSE]
    /\ pid' = [pid EXCEPT ![o] = "own"]
    /\ started' = [started EXCEPT ![o] = TRUE]
    /\ finish' = [finish EXCEPT ![o] = FALSE]
    /\ status' = [status EXCEPT ![o] = "ok"]
    /\ UNCHANGED code

\* start, when a pipe or the process cannot be created.
ForkFails(o) ==
    /\ pid' = [pid EXCEPT ![o] = "any"]
    /\ started' = [started EXCEPT ![o] = TRUE]
    /\ finish' = [finish EXCEPT ![o] = FALSE]
    /\ status' = [status EXCEPT ![o] = "ok"]
    /\ UNCHANGED <<child, code, term>>

\* is_running, with the value it returns: waitpid does not block, and fails
\* when there is no child to wait for.
IsRunning(o, running) ==
    IF ~started[o] \/ finish[o] \/ Waited(o) = {}
    THEN ~running /\ UNCHANGED spawnVars
    ELSE /\ running
         /\ \/ Reap(o)
            \/ (\A c \in Waited(o) : child[c] = "running") /\ UNCHANGED spawnVars

\* wait blocks until a child ended, and returns at once when there is none:
\* m_finish stays false.
Wait(o) ==
    IF finish[o] \/ Waited(o) = {} THEN UNCHANGED spawnVars ELSE Reap(o)

\* kill.
Kill(o) ==
    /\ term' = [term EXCEPT ![o] = @ \/ (~finish[o] /\ child[o] = "running")]
    /\ UNCHANGED <<child, code, pid, started, finish, status>>

\* status: the child exited with 0.
Success(o) == status[o] = "ok"

\* The destructor waits for the child; the object is as new.
Dispose(o) ==
    /\ started[o] => finish[o] \/ Waited(o) = {}
    /\ child' = [child EXCEPT ![o] = IF @ = "reaped" THEN "none" ELSE @]
    /\ pid' = [pid EXCEPT ![o] = "any"]
    /\ started' = [started EXCEPT ![o] = FALSE]
    /\ finish' = [finish EXCEPT ![o] = TRUE]
    /\ UNCHANGED <<code, term, status>>

\* The child ends by itself, with a code.
ChildExits(o) ==
    /\ child[o] = "running"
    /\ child' = [child EXCEPT ![o] = "zombie"]
    /\ \E c \in {"ok", "bad"} : code' = [code EXCEPT ![o] = c]
    /\ UNCHANGED <<term, pid, started, finish, status>>

\* The signal ends it: the programs that are run do not handle SIGTERM.
ChildKilled(o) ==
    /\ child[o] = "running"
    /\ term[o]
    /\ child' = [child EXCEPT ![o] = "zombie"]
    /\ code' = [code EXCEPT ![o] = "signal"]
    /\ UNCHANGED <<term, pid, started, finish, status>>
=============================================================================
