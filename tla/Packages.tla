------------------------------ MODULE Packages ------------------------------
(***************************************************************************)
(* Packages of one user (utils::RemoteManager, DownloadManager, Package    *)
(* and the modes -R and -P of the vle command): one package name, which    *)
(* several servers publish.  A session is one process: it reads the        *)
(* catalogue, does what its script asks, and saves the catalogue in the    *)
(* destructor of its RemoteManager.  Downloads, archives and builds are    *)
(* child processes; they fail, and the process may be killed: a command it *)
(* had started may then go on without it, and end in a later session.      *)
(***************************************************************************)
EXTENDS Integers, Sequences, FiniteSets, Spawn

CONSTANTS
    NbUrls,         \* servers of vle.remote.url
    Limit,          \* last version that each server publishes
    MaxSessions,    \* processes run by the user
    MaxKills,       \* of them that are killed
    RemoteScripts,  \* what a session asks its RemoteManager
    PackageScripts  \* commands of a session of the -P mode

\* What start is asked for.
Actions == {"update", "install", "source", "search", "local", "show", "localshow"}

ASSUME PackagesAssumption ==
    /\ NbUrls \in Nat \ {0}
    /\ Limit \in [1..NbUrls -> Nat \ {0}]
    /\ MaxSessions \in Nat /\ MaxKills \in Nat
    /\ \E o \in Owners : Owners = {o}
    /\ RemoteScripts \subseteq Seq(Actions) \ {<<>>}
    /\ PackageScripts \subseteq Seq({"configure", "build", "install", "clean", "rclean"})

Urls == 1..NbUrls
Versions == UNION {1..Limit[u] : u \in Urls}
PackageIds == [url : Urls, version : Versions]
Broken == -1
\* A package without server: an installed one, or one known by its name.
LocalId(v) == [url |-> 0, version |-> v]
spawn == CHOOSE o \in Owners : TRUE

VARIABLES
    published,  \* version each server offers, 0 before the first
    file,       \* remote.pkg
    archive,    \* version in the archive of the temporary directory, 0 or Broken
    tree,       \* version of the sources beside it, 0 when they are unusable
    builddir,   \* whether the build directory of the sources exists
    installed,  \* version in the directory of binary packages, or 0
    sessions, kills,  \* processes started, killed
    script,     \* what the session has still to do
    pc, step,   \* where the session is, and its command
    act,        \* action or command it does
    ran,        \* history: action whose results mResults holds
    failed,     \* history: whether a command of the session failed
    orphans,    \* commands that go on after their session was killed
    disturbed,  \* history: whether one of them ended during the session
    mIsStarted, mHasError, mResults, remote, local, \* members of RemoteManager
    url,        \* server the update is at
    legible, page, \* catalogue downloaded from it, if it can be parsed
    parsed,     \* packages parsed by the update
    chosen,     \* package the install chose
    before,     \* history: what was published when the session began
    verdict     \* how the last session ended

diskVars == <<published, file, archive, tree, builddir, installed>>
managerVars == <<mIsStarted, mHasError, mResults, remote, local>>
updateVars == <<url, legible, page, parsed, chosen>>
userVars == <<sessions, kills, script, act, ran, before>>
orphanVars == <<orphans, disturbed>>
vars == <<diskVars, managerVars, updateVars, userVars, failed, pc, step, verdict, spawnVars,
          orphanVars>>

Commands == {"catalogue", "archive", "source", "untar", "configure", "build", "make install",
             "remove build", "remove package"}
\* The commands whose end changes a file that later sessions use.
Writers == {"archive", "untar", "make install", "remove build", "remove package"}
Phases == {"out", "ready", "thread", "parse", "join", "next", "save", "write", "exit"}

TypeOK ==
    /\ SpawnTypeOK
    /\ published \in [Urls -> {0} \cup Versions] /\ before \in [Urls -> {0} \cup Versions]
    /\ file \subseteq PackageIds
    /\ archive \in {Broken, 0} \cup Versions
    /\ builddir \in BOOLEAN
    /\ tree \in {0} \cup Versions /\ installed \in {0} \cup Versions
    /\ sessions \in 0..MaxSessions /\ kills \in 0..MaxKills
    /\ pc \in Phases \cup Commands /\ step \in {"start", "run", "end"}
    /\ failed \in BOOLEAN /\ disturbed \in BOOLEAN
    /\ orphans \subseteq [kill : 1..MaxKills, command : Writers, url : 0..NbUrls]
    /\ mIsStarted \in BOOLEAN /\ mHasError \in BOOLEAN
    /\ mResults \subseteq [url : 0..NbUrls, version : {0} \cup Versions]
    /\ remote \subseteq PackageIds /\ local \in {0} \cup Versions
    /\ url \in 1..(NbUrls + 1)
    /\ legible \in BOOLEAN /\ page \subseteq PackageIds
    /\ parsed \subseteq PackageIds
    /\ chosen \in PackageIds \cup {LocalId(0)}
    /\ verdict \in {"none", "success", "failure", "killed", "terminated"}

Init ==
    /\ SpawnInit
    /\ published = [u \in Urls |-> 0]
    /\ file = {} /\ archive = 0 /\ tree = 0 /\ builddir = FALSE /\ installed = 0
    /\ sessions = 0 /\ kills = 0
    /\ script = <<>> /\ pc = "out" /\ step = "start" /\ act = "none" /\ ran = "none"
    /\ mIsStarted = FALSE /\ mHasError = FALSE /\ mResults = {} /\ remote = {} /\ local = 0
    /\ url = 1 /\ legible = FALSE /\ page = {} /\ parsed = {} /\ chosen = LocalId(0)
    /\ orphans = {} /\ disturbed = FALSE
    /\ failed = FALSE /\ before = [u \in Urls |-> 0] /\ verdict = "none"

Step(c, s) == pc' = c /\ step' = s

Enter(l) == Step(l, "start")

At(c, s) == pc = c /\ step = s

-----------------------------------------------------------------------------
(* A session.                                                              *)

\* The RemoteManager of a session: its constructor looks at the installed
\* packages and reads the catalogue.
OpenRemote(s) ==
    /\ pc = "out" /\ sessions < MaxSessions
    /\ sessions' = sessions + 1
    /\ script' = s
    /\ local' = installed
    /\ remote' = file
    /\ before' = published
    /\ Enter("ready")
    /\ UNCHANGED <<diskVars, mIsStarted, mHasError, mResults, updateVars, kills, act, ran, failed,
                   verdict, spawnVars, orphanVars>>

\* start: does nothing when an action has left mIsStarted true.
Start ==
    /\ pc = "ready"
    /\ act' = Head(script)
    /\ script' = Tail(script)
    /\ IF mIsStarted
       THEN Enter("join") /\ UNCHANGED <<mIsStarted, mHasError, mResults, ran>>
       ELSE /\ mIsStarted' = TRUE /\ mHasError' = FALSE /\ mResults' = {}
            /\ ran' = Head(script)
            /\ Enter("thread")
    /\ UNCHANGED <<diskVars, remote, local, updateVars, sessions, kills, before,
                   failed, verdict, spawnVars, orphanVars>>

\* What the callers do after join: an error ends the session.
Join ==
    /\ pc = "join"
    /\ Enter(IF mHasError \/ script = <<>> THEN "save" ELSE "ready")
    /\ verdict' = IF mHasError THEN "failure" ELSE "success"
    /\ UNCHANGED <<diskVars, managerVars, updateVars, userVars, failed, spawnVars, orphanVars>>

\* save opens the file, which empties it.
SaveOpen ==
    /\ pc = "save"
    /\ file' = {}
    /\ Enter("write")
    /\ UNCHANGED <<published, archive, tree, builddir, installed, managerVars, updateVars, userVars,
                   failed, verdict, spawnVars, orphanVars>>

SaveWrite ==
    /\ pc = "write"
    /\ file' = remote
    /\ Enter("exit")
    /\ UNCHANGED <<published, archive, tree, builddir, installed, managerVars, updateVars, userVars,
                   failed, verdict, spawnVars, orphanVars>>

\* An exception leaves the function of a thread: the process is aborted.
Terminate ==
    /\ Enter("exit")
    /\ verdict' = "terminated"

\* The process is killed, and its child with it or not.
Die ==
    /\ pc \notin {"out", "exit"} /\ kills < MaxKills
    /\ kills' = kills + 1
    /\ \/ UNCHANGED orphans
       \/ /\ pc \in Writers /\ step = "run" /\ child[spawn] = "running"
          /\ orphans' = orphans \cup {[kill |-> kills', command |-> pc, url |-> chosen.url]}
    /\ Enter("exit")
    /\ verdict' = "killed"
    /\ UNCHANGED <<diskVars, managerVars, updateVars, sessions, script, act, ran, before,
                   failed, disturbed, spawnVars>>

\* Nothing is left of the process but its files.
Exit ==
    /\ pc = "exit"
    /\ Forget
    /\ script' = <<>> /\ Enter("out") /\ act' = "none" /\ ran' = "none"
    /\ mIsStarted' = FALSE /\ mHasError' = FALSE /\ mResults' = {} /\ remote' = {} /\ local' = 0
    /\ url' = 1 /\ legible' = FALSE /\ page' = {} /\ parsed' = {} /\ chosen' = LocalId(0)
    /\ disturbed' = FALSE /\ failed' = FALSE /\ before' = [u \in Urls |-> 0] /\ verdict' = "none"
    /\ UNCHANGED <<diskVars, sessions, kills, orphans>>

-----------------------------------------------------------------------------
(* Commands: child processes.                                              *)

\* The child is started; configure makes the build directory first.
Launch(c) ==
    /\ At(c, "start")
    /\ Fork(spawn)
    /\ builddir' = (builddir \/ c = "configure")
    /\ Step(c, "run")
    /\ UNCHANGED <<published, file, archive, tree, installed, managerVars, updateVars, userVars,
                   failed, verdict, orphanVars>>

\* The -P mode does not need its removals, nor a configuration that it did
\* again for a build.
Counts(c) ==
    ran # "package" \/ c \in {"build", "make install"} \/ (c = "configure" /\ act = "configure")

\* It cannot be: a download reports it, the extraction of an archive and the
\* removal of a directory log it, a command of the package throws.
LaunchFails(c) ==
    /\ At(c, "start")
    /\ failed' = (failed \/ Counts(c))
    /\ IF c \in {"configure", "build", "make install"}
       THEN Terminate /\ UNCHANGED mHasError
       ELSE /\ mHasError' = (mHasError \/ c \in {"catalogue", "archive", "source"})
            /\ Step(c, "end")
            /\ UNCHANGED verdict
    /\ UNCHANGED <<diskVars, mIsStarted, mResults, remote, local, updateVars, userVars, spawnVars, orphanVars>>

\* A change of Look: the output is read, but not the state of the child.
LookOutput(c) ==
    /\ At(c, "run")
    /\ IF finish[spawn]
       THEN /\ Step(c, "end")
            /\ failed' = (failed \/ (Counts(c) /\ ~Success(spawn)))
       ELSE UNCHANGED <<pc, step, failed>>
    /\ UNCHANGED <<diskVars, managerVars, updateVars, userVars, verdict, spawnVars, orphanVars>>

\* The loop that takes the output of the child until it ended; wait returns
\* at once.
Look(c) ==
    /\ At(c, "run")
    /\ IF finish[spawn]
       THEN /\ Step(c, "end")
            /\ failed' = (failed \/ (Counts(c) /\ ~Success(spawn)))
            /\ UNCHANGED spawnVars
       ELSE (\E r \in BOOLEAN : IsRunning(spawn, r)) /\ UNCHANGED <<pc, step, failed>>
    /\ UNCHANGED <<diskVars, managerVars, updateVars, userVars, verdict, orphanVars>>

PageOf(u) == IF published[u] = 0 THEN {} ELSE {[url |-> u, version |-> published[u]]}

\* What a command that ends with a code leaves on the disk, and a download
\* from server u.
DiskEffect(c, u, e) ==
    CASE c = "archive" ->
           /\ archive' \in IF e = "ok" THEN {published[u], Broken} ELSE {archive, Broken}
           /\ UNCHANGED <<published, file, tree, builddir, installed>>
      [] c = "untar" ->
           /\ e = "ok" => archive # Broken
           /\ tree' \in IF e = "ok" THEN {archive} ELSE {tree, 0}
           /\ UNCHANGED <<published, file, archive, builddir, installed>>
      [] c = "make install" ->
           /\ e = "ok" => tree # 0
           /\ installed' = IF e = "ok" THEN tree ELSE installed
           /\ UNCHANGED <<published, file, archive, tree, builddir>>
      [] c = "remove build" ->
           /\ builddir' = (e # "ok" /\ builddir)
           /\ UNCHANGED <<published, file, archive, tree, installed>>
      [] c = "remove package" ->
           /\ installed' = IF e = "ok" THEN 0 ELSE installed
           /\ UNCHANGED <<published, file, archive, tree, builddir>>
      [] OTHER -> UNCHANGED diskVars

\* A page of the server may stand for a file that it does not have; each
\* download of a catalogue has a file of its own.
Effect(c, e) ==
    /\ DiskEffect(c, chosen.url, e)
    /\ IF c = "catalogue"
       THEN /\ legible' \in BOOLEAN
            /\ page' = IF legible' /\ e = "ok" THEN PageOf(url) ELSE {}
       ELSE UNCHANGED <<legible, page>>

CommandEnds(c) ==
    /\ At(c, "run")
    /\ ChildExits(spawn)
    /\ Effect(c, code'[spawn])
    /\ UNCHANGED <<managerVars, url, parsed, chosen, userVars, failed, pc, step,
                   verdict, orphanVars>>

\* A command ends that was left by a killed session.
OrphanEnds(o) ==
    /\ orphans' = orphans \ {o}
    /\ disturbed' = (disturbed \/ pc # "out")
    /\ \E e \in {"ok", "bad"} : DiskEffect(o.command, o.url, e)
    /\ UNCHANGED <<managerVars, updateVars, userVars, failed, pc, step, verdict, spawnVars>>

\* A server publishes. Only a download and the beginning of a session look
\* at the servers, so the other moments need not be considered.
Publish(u) ==
    /\ pc \in {"out", "catalogue", "archive"}
    /\ published[u] < Limit[u]
    /\ published' = [published EXCEPT ![u] = @ + 1]
    /\ UNCHANGED <<file, archive, tree, builddir, installed, managerVars, updateVars, userVars, failed,
                   pc, step, verdict, spawnVars, orphanVars>>

-----------------------------------------------------------------------------
(* Actions of the RemoteManager.                                           *)

\* The installed packages.
Installed == IF local = 0 THEN {} ELSE {LocalId(local)}

\* What most actions do last.
Finish == Enter("join") /\ mIsStarted' = FALSE

\* actionUpdate, first: the preferences may be unreadable.
BeginUpdate ==
    /\ pc = "thread" /\ act = "update"
    /\ \/ mHasError' = TRUE /\ Enter("join")
       \/ UNCHANGED mHasError /\ Enter("catalogue")
    /\ UNCHANGED <<diskVars, mIsStarted, mResults, remote, local, updateVars, userVars, failed, verdict,
                   spawnVars, orphanVars>>

ParseElsewhere ==
    /\ At("catalogue", "end")
    /\ IF legible
       THEN parsed' = parsed \cup {[p EXCEPT !.url = NbUrls] : p \in page} /\ UNCHANGED mHasError
       ELSE mHasError' = TRUE /\ UNCHANGED parsed
    /\ legible' = FALSE /\ page' = {}
    /\ url' = url + 1
    /\ Enter(IF url < NbUrls THEN "catalogue" ELSE "parse")
    /\ UNCHANGED <<diskVars, mIsStarted, mResults, remote, local, chosen, userVars, failed, verdict,
                   spawnVars, orphanVars>>

\* Download: the file is parsed, whatever the command said, unless it could
\* not be started. The file is removed.
ParseCatalogue ==
    /\ At("catalogue", "end")
    /\ IF legible
       THEN parsed' = parsed \cup page /\ UNCHANGED mHasError
       ELSE mHasError' = TRUE /\ UNCHANGED parsed
    /\ legible' = FALSE /\ page' = {}
    /\ url' = url + 1
    /\ Enter(IF url < NbUrls THEN "catalogue" ELSE "parse")
    /\ UNCHANGED <<diskVars, mIsStarted, mResults, remote, local, chosen, userVars, failed, verdict,
                   spawnVars, orphanVars>>

\* A version that is more recent than the one installed.
Newer(p) == p.version > local

\* The end of actionUpdate: one more recent package per local package.
EndUpdate ==
    /\ pc = "parse"
    /\ remote' = parsed
    /\ LET found == {p \in parsed : local # 0 /\ Newer(p)}
       IN IF found = {} THEN mResults' = {} ELSE \E p \in found : mResults' = {p}
    /\ url' = 1 /\ parsed' = {}
    /\ Finish
    /\ UNCHANGED <<diskVars, mHasError, local, legible, page, chosen, userVars, failed, verdict,
                   spawnVars, orphanVars>>

\* A change of BeginInstall: the first package found is taken.
BeginInstallAny ==
    /\ pc = "thread" /\ act = "install"
    /\ IF remote = {}
       THEN mHasError' = TRUE /\ Enter("join") /\ UNCHANGED chosen
       ELSE (\E p \in remote : chosen' = p) /\ Enter("archive") /\ UNCHANGED mHasError
    /\ UNCHANGED <<diskVars, mIsStarted, mResults, remote, local, url, legible, page, parsed, userVars,
                   failed, verdict, spawnVars, orphanVars>>

\* actionInstall, first: the most recent package of the catalogue is chosen.
\* The returns leave mIsStarted true.
BeginInstall ==
    /\ pc = "thread" /\ act = "install"
    /\ IF remote = {}
       THEN mHasError' = TRUE /\ Enter("join") /\ UNCHANGED chosen
       ELSE /\ \E p \in remote :
                 /\ \A q \in remote : q.version <= p.version
                 /\ chosen' = p
                 /\ Enter(IF local # 0 /\ ~Newer(p) THEN "join" ELSE "archive")
            /\ UNCHANGED mHasError
    /\ UNCHANGED <<diskVars, mIsStarted, mResults, remote, local, url, legible, page, parsed, userVars, failed,
                   verdict, spawnVars, orphanVars>>

\* A change of GetArchive: sources that are there are not replaced.
GetArchiveOnce ==
    /\ At("archive", "end")
    /\ \/ mHasError /\ Enter("join") /\ UNCHANGED verdict
       \/ ~mHasError /\ archive = 0 /\ Terminate
       \/ ~mHasError /\ archive # 0 /\ Enter(IF tree = 0 THEN "untar" ELSE "configure") /\ UNCHANGED verdict
    /\ UNCHANGED <<diskVars, managerVars, updateVars, userVars, failed, spawnVars, orphanVars>>

\* The archive was downloaded, or mHasError says that the command could not
\* be started; decompress throws when there is no archive.
GetArchive ==
    /\ At("archive", "end")
    /\ \/ mHasError /\ Enter("join") /\ UNCHANGED verdict
       \/ ~mHasError /\ archive = 0 /\ Terminate
       \/ ~mHasError /\ archive # 0 /\ Enter("untar") /\ UNCHANGED verdict
    /\ UNCHANGED <<diskVars, managerVars, updateVars, userVars, failed, spawnVars, orphanVars>>

\* The commands of the package follow one another, whatever their status.
Then(c) ==
    CASE c = "untar" -> "configure" [] c = "configure" -> "build" [] c = "build" -> "make install"

BuildArchive(c) ==
    /\ At(c, "end") /\ act = "install" /\ ran = "install"
    /\ c \in {"untar", "configure", "build"}
    /\ Enter(Then(c))
    /\ UNCHANGED <<diskVars, managerVars, updateVars, userVars, failed, verdict, spawnVars, orphanVars>>

EndInstall ==
    /\ At("make install", "end") /\ ran = "install"
    /\ mResults' = {chosen}
    /\ Enter("join")
    /\ UNCHANGED <<diskVars, mIsStarted, mHasError, remote, local, updateVars, userVars, failed,
                   verdict, spawnVars, orphanVars>>

\* actionSource.
BeginSource ==
    /\ pc = "thread" /\ act = "source"
    /\ IF remote = {}
       THEN Finish /\ mHasError' = TRUE /\ mResults' = {LocalId(0)}
       ELSE Enter("source") /\ UNCHANGED <<mIsStarted, mHasError, mResults>>
    /\ UNCHANGED <<diskVars, remote, local, updateVars, userVars, failed, verdict, spawnVars, orphanVars>>

EndSource ==
    /\ At("source", "end")
    /\ mResults' = {LocalId(0)}
    /\ Finish
    /\ UNCHANGED <<diskVars, mHasError, remote, local, updateVars, userVars, failed, verdict, spawnVars, orphanVars>>

\* actionSearch and actionLocalSearch, with an expression that the package
\* matches or not.
Search ==
    /\ pc = "thread" /\ act \in {"search", "local"}
    /\ mResults' \in {{}, IF act = "search" THEN remote ELSE Installed}
    /\ mHasError' = FALSE
    /\ Finish
    /\ UNCHANGED <<diskVars, remote, local, updateVars, userVars, failed, verdict, spawnVars, orphanVars>>

\* actionShow and actionLocalShow: an unknown package leaves mIsStarted true.
Show ==
    /\ pc = "thread" /\ act \in {"show", "localshow"}
    /\ LET found == IF act = "show" THEN remote ELSE Installed
       IN IF found = {}
          THEN mHasError' = TRUE /\ Enter("join") /\ UNCHANGED <<mResults, mIsStarted>>
          ELSE Finish /\ mResults' = found /\ UNCHANGED mHasError
    /\ UNCHANGED <<diskVars, remote, local, updateVars, userVars, failed, verdict, spawnVars, orphanVars>>

-----------------------------------------------------------------------------
(* The -P mode.                                                            *)

OpenPackage(s) ==
    /\ pc = "out" /\ sessions < MaxSessions
    /\ sessions' = sessions + 1
    /\ script' = s
    /\ ran' = "package"
    /\ Enter("next")
    /\ UNCHANGED <<diskVars, managerVars, updateVars, kills, act, before, failed, verdict, spawnVars, orphanVars>>

\* The commands of manage_package_mode: build configures a directory that is
\* not there; install throws when it is not.
NextCommand ==
    /\ pc = "next" /\ script # <<>>
    /\ act' = Head(script)
    /\ script' = Tail(script)
    /\ LET c == Head(script)
       IN \/ /\ c = "configure" \/ (c = "build" /\ ~builddir)
             /\ Enter("configure") /\ UNCHANGED verdict
          \/ /\ c = "build" /\ builddir
             /\ Enter("build") /\ UNCHANGED verdict
          \/ /\ c = "install" /\ builddir
             /\ Enter("make install") /\ UNCHANGED verdict
          \/ c = "install" /\ ~builddir /\ Terminate
          \/ /\ c = "clean" /\ builddir
             /\ Enter("remove build") /\ UNCHANGED verdict
          \/ /\ c = "rclean" /\ installed # 0
             /\ Enter("remove package") /\ UNCHANGED verdict
          \/ /\ (c = "clean" /\ ~builddir) \/ (c = "rclean" /\ installed = 0)
             /\ UNCHANGED <<pc, step, verdict>>
    /\ UNCHANGED <<diskVars, managerVars, updateVars, sessions, kills, ran, before, failed, spawnVars, orphanVars>>

\* A change of CommandDone: the status of a command is not looked at.
CommandDoneBlind(c) ==
    /\ At(c, "end") /\ ran = "package"
    /\ Enter(IF act # "build" \/ c = "make install" THEN "next"
             ELSE IF c = "configure" THEN "build" ELSE "make install")
    /\ UNCHANGED <<diskVars, managerVars, updateVars, userVars, failed, verdict, spawnVars, orphanVars>>

\* The status of a command is looked at, but not that of the configuration
\* that build started, nor that of a removal.
CommandDone(c) ==
    /\ At(c, "end") /\ ran = "package"
    /\ \/ c = "configure" /\ act = "build" /\ Enter("build") /\ UNCHANGED verdict
       \/ c = "build" /\ Success(spawn) /\ Enter("make install") /\ UNCHANGED verdict
       \/ /\ c \in {"remove build", "remove package"}
             \/ (Success(spawn) /\ (c = "make install" \/ (c = "configure" /\ act = "configure")))
          /\ Enter("next") /\ UNCHANGED verdict
       \/ /\ ~Success(spawn)
          /\ c \in {"build", "make install"} \/ (c = "configure" /\ act = "configure")
          /\ Enter("exit") /\ verdict' = "failure"
    /\ UNCHANGED <<diskVars, managerVars, updateVars, userVars, failed, spawnVars, orphanVars>>

ClosePackage ==
    /\ pc = "next" /\ script = <<>>
    /\ Enter("exit")
    /\ verdict' = "success"
    /\ UNCHANGED <<diskVars, managerVars, updateVars, userVars, failed, spawnVars, orphanVars>>

Session ==
    \/ Start \/ Join \/ SaveOpen \/ SaveWrite \/ Exit
    \/ BeginUpdate \/ ParseCatalogue \/ EndUpdate
    \/ BeginInstall \/ GetArchive \/ EndInstall
    \/ BeginSource \/ EndSource \/ Search \/ Show
    \/ NextCommand \/ ClosePackage
    \/ \E c \in Commands :
          Launch(c) \/ LaunchFails(c) \/ Look(c) \/ BuildArchive(c) \/ CommandDone(c)

Over == pc = "out" /\ sessions = MaxSessions /\ UNCHANGED vars

Next ==
    \/ Session
    \/ \E c \in Commands : CommandEnds(c)
    \/ \E o \in orphans : OrphanEnds(o)
    \/ \E u \in Urls : Publish(u)
    \/ \E s \in RemoteScripts : OpenRemote(s)
    \/ \E s \in PackageScripts : OpenPackage(s)
    \/ Die
    \/ Over

\* The threads of the process are scheduled; a command ends by itself, for
\* nothing limits its time.
Spec ==
    /\ Init
    /\ [][Next]_vars
    /\ WF_vars(Session)
    /\ \A c \in Commands : WF_vars(CommandEnds(c))

-----------------------------------------------------------------------------
(* Properties.                                                             *)

\* The documentation of start: when no thread is alive, a thread is started
\* that performs the action; so the results read after join are those of the
\* action asked for (RemoteManager::start, after an action that returned
\* without a reset of mIsStarted).
ResultsOfAction == pc = "join" => ran = act

\* An update without error and without a failed command knows, of each
\* server, a version at least as recent as when the session began, and
\* tells when one is more recent than the installed package.
UpdateComplete ==
    (pc = "join" /\ ran = "update" /\ ~mHasError /\ ~failed) =>
        /\ \A u \in Urls :
             before[u] # 0 => \E p \in remote : p.url = u /\ p.version >= before[u]
        /\ (local # 0 /\ \E u \in Urls : before[u] > local) => mResults # {}

\* Whatever was killed in between, each package of the catalogue, in memory
\* or in the file, was published by its server.
CatalogueTrue ==
    \A p \in remote \cup file \cup {q \in mResults : q.url # 0} :
        p.version <= published[p.url]

\* The catalogue is true at any time, and complete after an update that met no
\* failure (actionUpdate, save and the constructor of RemoteManager).
CatalogueSound == TypeOK /\ UpdateComplete /\ CatalogueTrue

\* When an installation without failed command says that a package was
\* installed, that version or a later one is there, whatever archive, sources
\* or commands earlier sessions left, as long as none of these commands ends
\* during the session (actionInstall, Package::install).
InstalledAsSaid ==
    (pc = "join" /\ ran = "install" /\ ~failed /\ ~disturbed) =>
        \A p \in mResults : installed >= p.version

\* A session of the -P mode that returns success did all it was asked for:
\* no build and no installation failed.
PackageModeHonest ==
    (pc = "exit" /\ ran = "package" /\ verdict = "success") =>
        ~failed

\* The documentation of hasError: a session that succeeds ran no command
\* that failed.
FailuresReported ==
    (pc = "exit" /\ ran # "package" /\ verdict = "success") => ~failed

\* Whatever archive or sources earlier sessions left, an installation whose
\* commands do not fail does not replace a package by an older one (actionInstall).
\* Not claimed: of the -P mode, that installs and removes what it is told to;
\* of the command of a killed session, and of a session during which one ends.
NoDowngrade ==
    [][\/ installed' >= installed
       \/ failed \/ disturbed \/ ran = "package"
       \/ orphans' # orphans]_vars

\* Each session ends.
SessionEnds == pc # "out" ~> pc = "out"
=============================================================================
