--------------------------- MODULE PackagesProofs ---------------------------
(***************************************************************************)
(* Theorems on Packages: whatever commands fail, whatever sessions are     *)
(* killed and whatever servers publish, what a session says of the         *)
(* catalogue, of its results and of the installed package is true.         *)
(***************************************************************************)
EXTENDS Packages, TLAPS

-----------------------------------------------------------------------------
(* The inductive invariant.                                                *)

\* Where a session is: what it does decides which places it may be at.
Places ==
    /\ pc = "out" => /\ ran = "none" /\ ~mIsStarted /\ ~mHasError /\ ~failed
                     /\ mResults = {} /\ verdict = "none"
    /\ step # "start" => pc \in Commands
    /\ ran = "package" => pc \in {"next", "configure", "build", "make install", "remove build",
                                  "remove package", "exit"}
    /\ pc \in {"next", "remove build", "remove package"} => ran = "package"
    /\ pc \in {"configure", "build", "make install"} => ran \in {"package", "install"}
    /\ pc \in {"catalogue", "parse"} => ran = "update"
    /\ pc \in {"archive", "untar"} => ran = "install"
    /\ pc = "source" => ran = "source"
    /\ pc = "thread" => ran = act /\ mResults = {}
    /\ pc \in Commands /\ ran = "install" => act = "install"
    /\ ran \in Actions \cup {"none", "package"}

\* Flags of the RemoteManager: an installation leaves mIsStarted; another
\* action does so with an error only.
Flags ==
    /\ ran = "install" => mIsStarted
    /\ ran # "package" => script \in Seq(Actions)
    /\ pc = "ready" => script # <<>> /\ ~mHasError
    /\ pc \in {"ready", "join"} /\ mIsStarted /\ ~mHasError => ran = "install"

\* What the object of the command knows of its child.
Child ==
    step = "run" =>
        /\ started[spawn] /\ pid[spawn] = "own"
        /\ IF finish[spawn] THEN child[spawn] = "reaped" /\ status[spawn] = code[spawn]
                            ELSE child[spawn] \in {"running", "zombie"}

\* The command ended well: its effect is there, if no failure is noted and
\* nothing else wrote there.
Done == step = "end" \/ (step = "run" /\ child[spawn] # "running" /\ code[spawn] = "ok")

\* A package was published.
WasPublished(p) == p.version <= published[p.url]

\* What was published stays published.
Published ==
    /\ \A u \in Urls : published[u] <= Limit[u] /\ before[u] <= published[u]
    /\ \A p \in remote \cup file \cup parsed \cup page : WasPublished(p)
    /\ \A p \in mResults : p.url # 0 => WasPublished(p)
    /\ chosen.url # 0 => WasPublished(chosen)

\* A package of server u at least as recent as when the session began.
Known(S, u) == before[u] # 0 => \E p \in S : p.url = u /\ p.version >= before[u]

\* An update has all of the servers it has passed.
Updating ==
    /\ pc = "catalogue" => url \in Urls
    /\ pc = "parse" => url = NbUrls + 1
    /\ pc \notin {"catalogue", "parse", "exit"} => url = 1 /\ parsed = {}
    /\ ran = "update" /\ ~mHasError /\ ~failed =>
         /\ pc \in {"catalogue", "parse"} => \A u \in 1..(url - 1) : Known(parsed, u)
         /\ pc = "catalogue" /\ Done /\ legible => Known(page, url)

\* Nothing was installed yet by the session.
Untouched ==
    /\ pc \notin {"out", "exit"} /\ ran # "package"
    /\ ran = "install" => pc \notin {"join", "ready", "save", "write"}
    /\ pc = "make install" => step = "start" \/ (step = "run" /\ child[spawn] = "running")

\* An installation builds the package it chose, unless a command fails.
Installing ==
    /\ Untouched /\ ~disturbed => installed = local
    /\ ran = "install" /\ pc \in Commands =>
         /\ chosen.url # 0 /\ (local # 0 => chosen.version > local) /\ mResults = {}
         /\ ~failed /\ ~disturbed =>
              /\ (pc = "archive" /\ Done) \/ pc = "untar" =>
                     archive = Broken \/ archive >= chosen.version
              /\ (pc = "untar" /\ Done) \/ pc \in {"configure", "build", "make install"} =>
                     tree >= chosen.version
              /\ pc = "make install" /\ Done => installed >= chosen.version

\* What is said to be installed is there.
Said == ran = "install" /\ ~failed /\ ~disturbed => \A p \in mResults : installed >= p.version

\* The -P mode ends at a command that counts and failed.
Mode ==
    ran = "package" =>
        /\ pc # "exit" => verdict = "none"
        /\ verdict = "success" => ~failed
        /\ failed /\ pc # "exit" => step = "end" /\ Counts(pc) /\ ~Success(spawn)

\* The types, in parts.
DiskTypes ==
    /\ published \in [Urls -> {0} \cup Versions] /\ before \in [Urls -> {0} \cup Versions]
    /\ file \subseteq PackageIds
    /\ archive \in {Broken, 0} \cup Versions
    /\ builddir \in BOOLEAN
    /\ tree \in {0} \cup Versions /\ installed \in {0} \cup Versions

ControlTypes ==
    /\ sessions \in 0..MaxSessions /\ kills \in 0..MaxKills
    /\ pc \in Phases \cup Commands /\ step \in {"start", "run", "end"}
    /\ failed \in BOOLEAN
    /\ verdict \in {"none", "success", "failure", "killed", "terminated"}

\* What killed sessions left: a download has a server.
OrphanTypes ==
    /\ disturbed \in BOOLEAN
    /\ orphans \subseteq [kill : 1..MaxKills, command : Writers, url : 0..NbUrls]
    /\ \A o \in orphans : o.command = "archive" => o.url \in Urls

ManagerTypes ==
    /\ mIsStarted \in BOOLEAN /\ mHasError \in BOOLEAN
    /\ mResults \subseteq [url : 0..NbUrls, version : {0} \cup Versions]
    /\ remote \subseteq PackageIds /\ local \in {0} \cup Versions

UpdateTypes ==
    /\ url \in 1..(NbUrls + 1)
    /\ legible \in BOOLEAN /\ page \subseteq PackageIds
    /\ parsed \subseteq PackageIds
    /\ chosen \in PackageIds \cup {LocalId(0)}

PackagesInv ==
    /\ SpawnTypeOK /\ DiskTypes /\ ControlTypes /\ OrphanTypes /\ ManagerTypes /\ UpdateTypes
    /\ Places /\ Flags /\ Child /\ Published /\ Updating /\ Installing /\ Mode
    /\ UpdateComplete /\ Said

-----------------------------------------------------------------------------
(* The steps.                                                              *)

\* The process has one Spawn object at a time.
LEMMA One == spawn \in Owners /\ Owners = {spawn}
BY PackagesAssumption DEF spawn

\* Versions that a server may publish.
LEMMA VersionsType ==
    /\ Versions \subseteq Nat \ {0} /\ {0} \cup Versions \subseteq Nat
    /\ \A u \in Urls : \A v \in 1..Limit[u] : v \in Versions
    /\ Urls \subseteq Nat \ {0}
BY PackagesAssumption DEF Versions, Urls

\* Packages of the catalogue, and of the results.
LEMMA IdTypes ==
    /\ PackageIds \subseteq [url : 0..NbUrls, version : {0} \cup Versions]
    /\ \A v \in {0} \cup Versions : LocalId(v) \in [url : 0..NbUrls, version : {0} \cup Versions]
    /\ \A p \in PackageIds : p.url \in Urls /\ p.version \in Versions
    /\ \A u \in Urls : PageOf(u) \subseteq PackageIds \/ published[u] \notin Versions \cup {0}
BY PackagesAssumption DEF PackageIds, LocalId, Urls, PageOf

\* What the loop on the output of a command may find.
LookOutcome(c) ==
    /\ At(c, "run")
    /\ UNCHANGED <<diskVars, managerVars, updateVars, userVars, verdict, orphanVars>>
    /\ \/ /\ finish[spawn] /\ Step(c, "end")
          /\ failed' = (failed \/ (Counts(c) /\ ~Success(spawn)))
          /\ UNCHANGED spawnVars
       \/ /\ ~finish[spawn]
          /\ UNCHANGED <<pc, step, failed, code, term, pid, started>>
          /\ \/ UNCHANGED <<child, finish, status>>
             \/ /\ child[spawn] = "zombie" /\ child' = [child EXCEPT ![spawn] = "reaped"]
                /\ finish' = [finish EXCEPT ![spawn] = TRUE]
                /\ status' = [status EXCEPT ![spawn] = code[spawn]]

\* Only the child of the object is waited for.
LEMMA LookStep ==
    ASSUME PackagesInv, NEW c \in Commands, Look(c)
    PROVE  LookOutcome(c)
<1>1. \A x \in Waited(spawn) : x = spawn
    BY One DEF Waited
<1>2. CASE finish[spawn]
    BY <1>2 DEF Look, LookOutcome
<1>3. CASE ~finish[spawn]
  <2>1. PICK r \in BOOLEAN : IsRunning(spawn, r)
      BY <1>3 DEF Look
  <2>2. CASE Reap(spawn)
      BY <1>1, <1>3, <2>2 DEF Look, LookOutcome, Reap
  <2>3. CASE UNCHANGED spawnVars
      BY <1>3, <2>3 DEF Look, LookOutcome, spawnVars
  <2> QED BY <2>1, <2>2, <2>3 DEF IsRunning
<1> QED BY <1>2, <1>3

\* What the end of a command may change.
EndOutcome(c) ==
    /\ At(c, "run")
    /\ child[spawn] = "running" /\ child'[spawn] = "zombie" /\ code'[spawn] \in {"ok", "bad"}
    /\ UNCHANGED <<managerVars, url, parsed, chosen, userVars, failed, pc, step, verdict, orphanVars>>
    /\ UNCHANGED <<published, file, term, pid, started, finish, status>>
    /\ builddir' \in BOOLEAN
    /\ c # "catalogue" => UNCHANGED <<legible, page>>
    /\ c # "archive" => archive' = archive
    /\ c # "untar" => tree' = tree
    /\ c \notin {"make install", "remove package"} => installed' = installed
    /\ c = "catalogue" => /\ legible' \in BOOLEAN /\ page' \in {{}, PageOf(url)}
                          /\ code'[spawn] = "ok" /\ legible' => page' = PageOf(url)
    /\ c = "archive" => /\ archive' \in {archive, Broken, published[chosen.url]}
                        /\ code'[spawn] = "ok" => archive' \in {published[chosen.url], Broken}
    /\ c = "untar" => \/ tree' \in {tree, 0} /\ code'[spawn] # "ok"
                      \/ tree' = archive /\ archive # Broken
    /\ c = "make install" => \/ installed' = installed /\ code'[spawn] # "ok"
                             \/ installed' = tree /\ tree # 0
    /\ c = "remove package" => installed' \in {installed, 0}

\* Effect, by command.
LEMMA EndStep ==
    ASSUME PackagesInv, NEW c \in Commands, CommandEnds(c)
    PROVE  EndOutcome(c)
<1>1. /\ At(c, "run") /\ Effect(c, code'[spawn]) /\ builddir \in BOOLEAN
      /\ UNCHANGED <<managerVars, url, parsed, chosen, userVars, failed, pc, step, verdict, orphanVars>>
      /\ UNCHANGED <<term, pid, started, finish, status>>
    BY DEF CommandEnds, ChildExits, PackagesInv, DiskTypes
<1>2. child[spawn] = "running" /\ child'[spawn] = "zombie" /\ code'[spawn] \in {"ok", "bad"}
    BY One DEF CommandEnds, ChildExits, PackagesInv, SpawnTypeOK
<1> DEFINE e == code'[spawn]
<1>3. e \in {"ok", "bad"} /\ Effect(c, e)
    BY <1>1, <1>2
<1> HIDE DEF e
<1>4. /\ UNCHANGED <<published, file>> /\ builddir' \in BOOLEAN
      /\ c # "catalogue" => UNCHANGED <<legible, page>>
      /\ c # "archive" => archive' = archive
      /\ c # "untar" => tree' = tree
      /\ c \notin {"make install", "remove package"} => installed' = installed
    BY <1>1, <1>3 DEF Effect, DiskEffect, diskVars, Commands
<1>5. ASSUME c = "catalogue"
      PROVE  /\ legible' \in BOOLEAN /\ page' \in {{}, PageOf(url)}
             /\ e = "ok" /\ legible' => page' = PageOf(url)
    BY <1>3, <1>5 DEF Effect, DiskEffect
<1>6. ASSUME c = "archive"
      PROVE  /\ archive' \in {archive, Broken, published[chosen.url]}
             /\ e = "ok" => archive' \in {published[chosen.url], Broken}
    BY <1>3, <1>6 DEF Effect, DiskEffect
<1>7. ASSUME c = "untar"
      PROVE  (tree' \in {tree, 0} /\ e # "ok") \/ (tree' = archive /\ archive # Broken)
    BY <1>3, <1>7 DEF Effect, DiskEffect
<1>8. ASSUME c = "make install"
      PROVE  (installed' = installed /\ e # "ok") \/ (installed' = tree /\ tree # 0)
    BY <1>3, <1>8 DEF Effect, DiskEffect
<1>9. ASSUME c = "remove package" PROVE installed' \in {installed, 0}
    BY <1>3, <1>9 DEF Effect, DiskEffect
<1> QED BY <1>1, <1>2, <1>4, <1>5, <1>6, <1>7, <1>8, <1>9 DEF EndOutcome, e

\* A command of an action that counts no failure ended well when the loop on
\* its output is left.
LEMMA LookDone ==
    ASSUME PackagesInv, NEW c \in Commands, LookOutcome(c), ran # "package", ~failed'
    PROVE  ~failed /\ (Done' => Done)
<1> USE One DEF PackagesInv, At, Step, LookOutcome
<1>1. ~failed
    BY DEF ControlTypes
<1>2. CASE finish[spawn]
  <2>1. Success(spawn)
      BY <1>2 DEF ControlTypes, Counts
  <2>2. code[spawn] = "ok" /\ child[spawn] = "reaped"
      BY <1>2, <2>1 DEF Child, Success
  <2> QED BY <1>1, <2>2 DEF Done
<1>3. CASE ~finish[spawn]
  <2>1. child'[spawn] = child[spawn] \/ (child[spawn] = "zombie" /\ child'[spawn] = "reaped")
      BY <1>3 DEF SpawnTypeOK
  <2> QED BY <1>1, <1>3, <2>1 DEF Done
<1> QED BY <1>2, <1>3

\* A catalogue of a server.
LEMMA PageContent ==
    ASSUME NEW u
    PROVE  /\ \A p \in PageOf(u) : p.url = u /\ p.version = published[u]
           /\ published[u] # 0 => \E p \in PageOf(u) : p.url = u /\ p.version = published[u]
<1> DEFINE p0 == [url |-> u, version |-> published[u]]
<1>1. p0.url = u /\ p0.version = published[u]
    OBVIOUS
<1>2. PageOf(u) = IF published[u] = 0 THEN {} ELSE {p0}
    BY DEF PageOf
<1> HIDE DEF p0
<1> QED BY <1>1, <1>2

\* What the end of a command left by a killed session may change.
OrphanOutcome ==
    /\ UNCHANGED <<published, file, managerVars, updateVars, userVars, failed, pc, step, verdict,
                   spawnVars>>
    /\ archive' \in {Broken, 0} \cup Versions
    /\ builddir' \in BOOLEAN
    /\ tree' \in {0} \cup Versions /\ installed' \in {0} \cup Versions
    /\ disturbed' = (disturbed \/ pc # "out")
    /\ orphans' \subseteq orphans /\ orphans' # orphans

\* DiskEffect, by command.
LEMMA OrphanStep ==
    ASSUME PackagesInv, NEW o \in orphans, OrphanEnds(o)
    PROVE  OrphanOutcome
<1>1. /\ o.command \in Writers /\ (o.command = "archive" => o.url \in Urls) /\ DiskTypes
      /\ o \in [kill : 1..MaxKills, command : Writers, url : 0..NbUrls]
    BY DEF PackagesInv, OrphanTypes
<1>2. PICK e \in {"ok", "bad"} : DiskEffect(o.command, o.url, e)
    BY DEF OrphanEnds
<1>3. UNCHANGED <<published, file>> /\ builddir' \in BOOLEAN
    BY <1>1, <1>2 DEF DiskEffect, Writers, DiskTypes
<1>4. archive' \in {Broken, 0} \cup Versions
  <2>1. o.command = "archive" => published[o.url] \in {0} \cup Versions
      BY <1>1 DEF DiskTypes
  <2> QED BY <1>1, <1>2, <2>1 DEF DiskEffect, Writers, DiskTypes
<1>5. tree' \in {0} \cup Versions
    BY <1>1, <1>2 DEF DiskEffect, Writers, DiskTypes
<1>6. installed' \in {0} \cup Versions
    BY <1>1, <1>2 DEF DiskEffect, Writers, DiskTypes
<1>7. /\ disturbed' = (disturbed \/ pc # "out") /\ orphans' = orphans \ {o}
      /\ UNCHANGED <<managerVars, updateVars, userVars, failed, pc, step, verdict, spawnVars>>
    BY DEF OrphanEnds
<1>8. orphans' \subseteq orphans /\ orphans' # orphans
    BY <1>7
<1> QED BY <1>3, <1>4, <1>5, <1>6, <1>7, <1>8 DEF OrphanOutcome

\* The numbers of the servers.
LEMMA NumberTypes ==
    ASSUME PackagesInv
    PROVE  /\ \A v \in Urls : Limit[v] \in Nat /\ published[v] \in Nat /\ before[v] \in Nat
           /\ local \in Nat
<1>1. {0} \cup Versions \subseteq Nat
    BY VersionsType
<1>2. \A v \in Urls : published[v] \in {0} \cup Versions /\ before[v] \in {0} \cup Versions
    BY DEF PackagesInv, DiskTypes
<1>3. \A v \in Urls : Limit[v] \in Nat
    BY PackagesAssumption DEF Urls
<1>4. local \in {0} \cup Versions
    BY DEF PackagesInv, ManagerTypes
<1> QED BY <1>1, <1>2, <1>3, <1>4

\* The package that an installation chose.
LEMMA ChosenType ==
    ASSUME PackagesInv, chosen.url # 0
    PROVE  chosen.url \in Urls /\ chosen.version \in Nat /\ tree \in Nat /\ installed \in Nat
<1>1. chosen \in PackageIds
    BY DEF PackagesInv, UpdateTypes, LocalId
<1>2. tree \in {0} \cup Versions /\ installed \in {0} \cup Versions
    BY DEF PackagesInv, DiskTypes
<1>3. chosen.version \in Versions /\ chosen.url \in Urls
    BY <1>1, IdTypes
<1> QED BY <1>2, <1>3, VersionsType

\* What was published stays published.
LEMMA PublishStep ==
    ASSUME PackagesInv, NEW u \in Urls, Publish(u)
    PROVE  \A v \in Urls : /\ published'[v] \in Nat /\ published[v] <= published'[v]
                           /\ published'[v] <= Limit[v]
<1>1. \A v \in Urls : published[v] <= Limit[v] /\ published'[v] = published[v] + (IF v = u THEN 1 ELSE 0)
    BY NumberTypes DEF PackagesInv, Published, Publish, DiskTypes
<1> QED BY <1>1, NumberTypes DEF Publish

\* The types of the child process.
LEMMA SpawnTypeOKStep ==
    ASSUME PackagesInv, Next
    PROVE  SpawnTypeOK'
<1> USE One DEF diskVars, managerVars, updateVars, userVars, spawnVars, orphanVars, Step, Enter, At
<1>0. SpawnTypeOK
    BY DEF PackagesInv
<1>1. CASE Start
    BY <1>1 DEF PackagesInv, Start, SpawnTypeOK, Codes
<1>2. CASE Join
    BY <1>2 DEF PackagesInv, Join, SpawnTypeOK, Codes
<1>3. CASE SaveOpen
    BY <1>3 DEF PackagesInv, SaveOpen, SpawnTypeOK, Codes
<1>4. CASE SaveWrite
    BY <1>4 DEF PackagesInv, SaveWrite, SpawnTypeOK, Codes
<1>5. CASE Exit
    BY <1>5 DEF PackagesInv, Exit, Forget, SpawnTypeOK, Codes
<1>6. CASE BeginUpdate
    BY <1>6 DEF PackagesInv, BeginUpdate, SpawnTypeOK, Codes
<1>7. CASE ParseCatalogue
    BY <1>7 DEF PackagesInv, ParseCatalogue, SpawnTypeOK, Codes
<1>8. CASE EndUpdate
    BY <1>8 DEF PackagesInv, EndUpdate, Finish, SpawnTypeOK, Codes
<1>9. CASE BeginInstall
    BY <1>9 DEF PackagesInv, BeginInstall, SpawnTypeOK, Codes
<1>10. CASE GetArchive
    BY <1>10 DEF PackagesInv, GetArchive, Terminate, SpawnTypeOK, Codes
<1>11. CASE EndInstall
    BY <1>11 DEF PackagesInv, EndInstall, SpawnTypeOK, Codes
<1>12. CASE BeginSource
    BY <1>12 DEF PackagesInv, BeginSource, Finish, SpawnTypeOK, Codes
<1>13. CASE EndSource
    BY <1>13 DEF PackagesInv, EndSource, Finish, SpawnTypeOK, Codes
<1>14. CASE Search
    BY <1>14 DEF PackagesInv, Search, Finish, Installed, SpawnTypeOK, Codes
<1>15. CASE Show
    BY <1>15 DEF PackagesInv, Show, Finish, Installed, SpawnTypeOK, Codes
<1>16. CASE NextCommand
    BY <1>16 DEF PackagesInv, NextCommand, Terminate, SpawnTypeOK, Codes
<1>17. CASE ClosePackage
    BY <1>17 DEF PackagesInv, ClosePackage, SpawnTypeOK, Codes
<1>18. CASE Die
    BY <1>18 DEF PackagesInv, Die, SpawnTypeOK, Codes
<1>19. CASE Over
    BY <1>19 DEF PackagesInv, Over, vars, SpawnTypeOK, Codes
<1>20. ASSUME NEW c \in Commands, Launch(c) PROVE SpawnTypeOK'
    BY <1>20 DEF PackagesInv, Launch, Fork, SpawnTypeOK, Codes
<1>21. ASSUME NEW c \in Commands, LaunchFails(c) PROVE SpawnTypeOK'
    BY <1>21 DEF PackagesInv, LaunchFails, Terminate, SpawnTypeOK, Codes
<1>22. ASSUME NEW c \in Commands, Look(c) PROVE SpawnTypeOK'
    BY <1>22, LookStep DEF PackagesInv, LookOutcome, SpawnTypeOK, Codes
<1>23. ASSUME NEW c \in Commands, BuildArchive(c) PROVE SpawnTypeOK'
    BY <1>23 DEF PackagesInv, BuildArchive, Then, SpawnTypeOK, Codes
<1>24. ASSUME NEW c \in Commands, CommandDone(c) PROVE SpawnTypeOK'
    BY <1>24 DEF PackagesInv, CommandDone, SpawnTypeOK, Codes
<1>25. ASSUME NEW c \in Commands, CommandEnds(c) PROVE SpawnTypeOK'
    BY <1>25 DEF PackagesInv, CommandEnds, ChildExits, SpawnTypeOK, Codes
<1>26. ASSUME NEW u \in Urls, Publish(u) PROVE SpawnTypeOK'
    BY <1>26 DEF PackagesInv, Publish, SpawnTypeOK, Codes
<1>27. ASSUME NEW s \in RemoteScripts, OpenRemote(s) PROVE SpawnTypeOK'
    BY <1>27 DEF PackagesInv, OpenRemote, SpawnTypeOK, Codes
<1>28. ASSUME NEW s \in PackageScripts, OpenPackage(s) PROVE SpawnTypeOK'
    BY <1>28 DEF PackagesInv, OpenPackage, SpawnTypeOK, Codes
<1>29. ASSUME NEW o \in orphans, OrphanEnds(o) PROVE SpawnTypeOK'
    BY <1>29, OrphanStep DEF PackagesInv, OrphanOutcome, SpawnTypeOK, Codes
<1> QED BY <1>1, <1>2, <1>3, <1>4, <1>5, <1>6, <1>7, <1>8, <1>9, <1>10, <1>11, <1>12, <1>13,
       <1>14, <1>15, <1>16, <1>17, <1>18, <1>19, <1>20, <1>21, <1>22, <1>23, <1>24, <1>25,
       <1>26, <1>27, <1>28, <1>29 DEF Next, Session

\* The types of what is on the disk and on the servers.
LEMMA DiskTypesStep ==
    ASSUME PackagesInv, Next
    PROVE  DiskTypes'
<1> USE One DEF diskVars, managerVars, updateVars, userVars, spawnVars, orphanVars, Step, Enter, At
<1>0. DiskTypes
    BY DEF PackagesInv
<1>1. CASE Start
    BY <1>1 DEF PackagesInv, Start, DiskTypes, Published
<1>2. CASE Join
    BY <1>2 DEF PackagesInv, Join, DiskTypes, Published
<1>3. CASE SaveOpen
    BY <1>3 DEF PackagesInv, SaveOpen, DiskTypes, Published
<1>4. CASE SaveWrite
    BY <1>4 DEF PackagesInv, SaveWrite, DiskTypes, ManagerTypes
<1>5. CASE Exit
    BY <1>5 DEF PackagesInv, Exit, Forget, DiskTypes, Published
<1>6. CASE BeginUpdate
    BY <1>6 DEF PackagesInv, BeginUpdate, DiskTypes, Published
<1>7. CASE ParseCatalogue
    BY <1>7 DEF PackagesInv, ParseCatalogue, DiskTypes, Published
<1>8. CASE EndUpdate
    BY <1>8 DEF PackagesInv, EndUpdate, Finish, DiskTypes, Published
<1>9. CASE BeginInstall
    BY <1>9 DEF PackagesInv, BeginInstall, DiskTypes, Published
<1>10. CASE GetArchive
    BY <1>10 DEF PackagesInv, GetArchive, Terminate, DiskTypes, Published
<1>11. CASE EndInstall
    BY <1>11 DEF PackagesInv, EndInstall, DiskTypes, Published
<1>12. CASE BeginSource
    BY <1>12 DEF PackagesInv, BeginSource, Finish, DiskTypes, Published
<1>13. CASE EndSource
    BY <1>13 DEF PackagesInv, EndSource, Finish, DiskTypes, Published
<1>14. CASE Search
    BY <1>14 DEF PackagesInv, Search, Finish, Installed, DiskTypes, Published
<1>15. CASE Show
    BY <1>15 DEF PackagesInv, Show, Finish, Installed, DiskTypes, Published
<1>16. CASE NextCommand
    BY <1>16 DEF PackagesInv, NextCommand, Terminate, DiskTypes, Published
<1>17. CASE ClosePackage
    BY <1>17 DEF PackagesInv, ClosePackage, DiskTypes, Published
<1>18. CASE Die
    BY <1>18 DEF PackagesInv, Die, DiskTypes, Published
<1>19. CASE Over
    BY <1>19 DEF PackagesInv, Over, vars, DiskTypes, Published
<1>20. ASSUME NEW c \in Commands, Launch(c) PROVE DiskTypes'
    BY <1>20 DEF PackagesInv, Launch, Fork, DiskTypes, Published
<1>21. ASSUME NEW c \in Commands, LaunchFails(c) PROVE DiskTypes'
    BY <1>21 DEF PackagesInv, LaunchFails, Terminate, DiskTypes, Published
<1>22. ASSUME NEW c \in Commands, Look(c) PROVE DiskTypes'
    BY <1>22, LookStep DEF PackagesInv, LookOutcome, DiskTypes, Published
<1>23. ASSUME NEW c \in Commands, BuildArchive(c) PROVE DiskTypes'
    BY <1>23 DEF PackagesInv, BuildArchive, Then, DiskTypes, Published
<1>24. ASSUME NEW c \in Commands, CommandDone(c) PROVE DiskTypes'
    BY <1>24 DEF PackagesInv, CommandDone, DiskTypes, Published
<1>25. ASSUME NEW c \in Commands, CommandEnds(c) PROVE DiskTypes'
  <2>1. EndOutcome(c) /\ DiskTypes
      BY <1>25, EndStep DEF PackagesInv
  <2>2. ASSUME c = "archive" PROVE published[chosen.url] \in {0} \cup Versions
    <3>1. chosen.url # 0 /\ chosen \in PackageIds \cup {LocalId(0)}
        BY <2>1, <2>2 DEF EndOutcome, PackagesInv, Places, Installing, Commands, UpdateTypes
    <3>2. chosen.url \in Urls
        BY <3>1, IdTypes DEF LocalId
    <3> QED BY <2>1, <3>2 DEF DiskTypes
  <2>3. archive' \in {Broken, 0} \cup Versions
      BY <2>1, <2>2 DEF EndOutcome, DiskTypes
  <2>4. tree' \in {0} \cup Versions /\ installed' \in {0} \cup Versions
      BY <2>1 DEF EndOutcome, DiskTypes
  <2> QED BY <2>1, <2>3, <2>4 DEF EndOutcome, DiskTypes
<1>26. ASSUME NEW u \in Urls, Publish(u) PROVE DiskTypes'
  <2>1. \A v \in Urls : published'[v] \in {0} \cup Versions
    <3> SUFFICES ASSUME NEW v \in Urls PROVE published'[v] \in {0} \cup Versions
        OBVIOUS
    <3>1. published'[v] \in Nat /\ published'[v] <= Limit[v]
        BY <1>26, PublishStep
    <3>2. Limit[v] \in Nat
        BY PackagesAssumption DEF Urls
    <3>3. published'[v] = 0 \/ published'[v] \in 1..Limit[v]
        BY <3>1, <3>2
    <3> QED BY <3>3, VersionsType
  <2>2. published' \in [Urls -> {0} \cup Versions]
      BY <1>26, <2>1 DEF PackagesInv, Publish, DiskTypes
  <2> QED BY <1>26, <2>2 DEF PackagesInv, Publish, DiskTypes
<1>27. ASSUME NEW s \in RemoteScripts, OpenRemote(s) PROVE DiskTypes'
    BY <1>27 DEF PackagesInv, OpenRemote, DiskTypes, Published
<1>28. ASSUME NEW s \in PackageScripts, OpenPackage(s) PROVE DiskTypes'
    BY <1>28 DEF PackagesInv, OpenPackage, DiskTypes, Published
<1>29. ASSUME NEW o \in orphans, OrphanEnds(o) PROVE DiskTypes'
    BY <1>29, OrphanStep DEF PackagesInv, OrphanOutcome, DiskTypes
<1> QED BY <1>1, <1>2, <1>3, <1>4, <1>5, <1>6, <1>7, <1>8, <1>9, <1>10, <1>11, <1>12, <1>13,
       <1>14, <1>15, <1>16, <1>17, <1>18, <1>19, <1>20, <1>21, <1>22, <1>23, <1>24, <1>25,
       <1>26, <1>27, <1>28, <1>29 DEF Next, Session

\* The types of the session.
LEMMA ControlTypesStep ==
    ASSUME PackagesInv, Next
    PROVE  ControlTypes'
<1> USE One DEF diskVars, managerVars, updateVars, userVars, spawnVars, orphanVars, Step, Enter, At
<1>0. ControlTypes
    BY DEF PackagesInv
<1>1. CASE Start
    BY <1>1 DEF PackagesInv, Start, ControlTypes, Commands, Phases
<1>2. CASE Join
    BY <1>2 DEF PackagesInv, Join, ControlTypes, Commands, Phases
<1>3. CASE SaveOpen
    BY <1>3 DEF PackagesInv, SaveOpen, ControlTypes, Commands, Phases
<1>4. CASE SaveWrite
    BY <1>4 DEF PackagesInv, SaveWrite, ControlTypes, Commands, Phases
<1>5. CASE Exit
    BY <1>5 DEF PackagesInv, Exit, Forget, ControlTypes, Commands, Phases
<1>6. CASE BeginUpdate
    BY <1>6 DEF PackagesInv, BeginUpdate, ControlTypes, Commands, Phases
<1>7. CASE ParseCatalogue
    BY <1>7 DEF PackagesInv, ParseCatalogue, ControlTypes, Commands, Phases
<1>8. CASE EndUpdate
    BY <1>8 DEF PackagesInv, EndUpdate, Finish, ControlTypes, Commands, Phases
<1>9. CASE BeginInstall
    BY <1>9 DEF PackagesInv, BeginInstall, ControlTypes, Commands, Phases
<1>10. CASE GetArchive
    BY <1>10 DEF PackagesInv, GetArchive, Terminate, ControlTypes, Commands, Phases
<1>11. CASE EndInstall
    BY <1>11 DEF PackagesInv, EndInstall, ControlTypes, Commands, Phases
<1>12. CASE BeginSource
    BY <1>12 DEF PackagesInv, BeginSource, Finish, ControlTypes, Commands, Phases
<1>13. CASE EndSource
    BY <1>13 DEF PackagesInv, EndSource, Finish, ControlTypes, Commands, Phases
<1>14. CASE Search
    BY <1>14 DEF PackagesInv, Search, Finish, Installed, ControlTypes, Commands, Phases
<1>15. CASE Show
    BY <1>15 DEF PackagesInv, Show, Finish, Installed, ControlTypes, Commands, Phases
<1>16. CASE NextCommand
    BY <1>16 DEF PackagesInv, NextCommand, Terminate, ControlTypes, Commands, Phases
<1>17. CASE ClosePackage
    BY <1>17 DEF PackagesInv, ClosePackage, ControlTypes, Commands, Phases
<1>18. CASE Die
    BY <1>18, PackagesAssumption DEF PackagesInv, Die, ControlTypes, Phases
<1>19. CASE Over
    BY <1>19 DEF PackagesInv, Over, vars, ControlTypes, Commands, Phases
<1>20. ASSUME NEW c \in Commands, Launch(c) PROVE ControlTypes'
    BY <1>20 DEF PackagesInv, Launch, Fork, ControlTypes, Commands, Phases
<1>21. ASSUME NEW c \in Commands, LaunchFails(c) PROVE ControlTypes'
    BY <1>21 DEF PackagesInv, LaunchFails, Terminate, ControlTypes, Commands, Phases
<1>22. ASSUME NEW c \in Commands, Look(c) PROVE ControlTypes'
    BY <1>22, LookStep DEF PackagesInv, LookOutcome, ControlTypes, Commands, Phases
<1>23. ASSUME NEW c \in Commands, BuildArchive(c) PROVE ControlTypes'
    BY <1>23 DEF PackagesInv, BuildArchive, Then, ControlTypes, Commands, Phases
<1>24. ASSUME NEW c \in Commands, CommandDone(c) PROVE ControlTypes'
    BY <1>24 DEF PackagesInv, CommandDone, ControlTypes, Commands, Phases
<1>25. ASSUME NEW c \in Commands, CommandEnds(c) PROVE ControlTypes'
    BY <1>25, EndStep DEF PackagesInv, EndOutcome, ControlTypes, Commands, Phases
<1>26. ASSUME NEW u \in Urls, Publish(u) PROVE ControlTypes'
    BY <1>26 DEF PackagesInv, Publish, ControlTypes, Commands, Phases
<1>27. ASSUME NEW s \in RemoteScripts, OpenRemote(s) PROVE ControlTypes'
    BY <1>27, PackagesAssumption DEF PackagesInv, OpenRemote, ControlTypes, Phases
<1>28. ASSUME NEW s \in PackageScripts, OpenPackage(s) PROVE ControlTypes'
    BY <1>28, PackagesAssumption DEF PackagesInv, OpenPackage, ControlTypes, Phases
<1>29. ASSUME NEW o \in orphans, OrphanEnds(o) PROVE ControlTypes'
    BY <1>29, OrphanStep DEF PackagesInv, OrphanOutcome, ControlTypes
<1> QED BY <1>1, <1>2, <1>3, <1>4, <1>5, <1>6, <1>7, <1>8, <1>9, <1>10, <1>11, <1>12, <1>13,
       <1>14, <1>15, <1>16, <1>17, <1>18, <1>19, <1>20, <1>21, <1>22, <1>23, <1>24, <1>25,
       <1>26, <1>27, <1>28, <1>29 DEF Next, Session

\* What killed sessions left.
LEMMA OrphanTypesStep ==
    ASSUME PackagesInv, Next
    PROVE  OrphanTypes'
<1>0. OrphanTypes
    BY DEF PackagesInv
<1>1. CASE UNCHANGED orphanVars
    BY <1>0, <1>1 DEF OrphanTypes, orphanVars
<1>2. CASE Exit
    BY <1>0, <1>2 DEF Exit, OrphanTypes
<1>3. ASSUME NEW o \in orphans, OrphanEnds(o) PROVE OrphanTypes'
    BY <1>0, <1>3, OrphanStep DEF OrphanOutcome, OrphanTypes
<1>4. CASE Die
  <2>1. CASE orphans' = orphans
      BY <1>0, <1>4, <2>1 DEF Die, OrphanTypes
  <2>2. CASE orphans' # orphans
    <3> DEFINE new == [kill |-> kills', command |-> pc, url |-> chosen.url]
    <3>1. pc \in Writers /\ orphans' = orphans \cup {new} /\ disturbed' = disturbed
        BY <1>4, <2>2 DEF Die
    <3>2. kills' \in 1..MaxKills
        BY <1>4, PackagesAssumption DEF Die, PackagesInv, ControlTypes
    <3>3. chosen.url \in 0..NbUrls
      <4>1. chosen \in PackageIds \cup {LocalId(0)}
          BY DEF PackagesInv, UpdateTypes
      <4>2. 0 \in 0..NbUrls
          BY PackagesAssumption
      <4> QED BY <4>1, <4>2 DEF PackageIds, LocalId, Urls
    <3>4. pc = "archive" => chosen.url \in Urls
      <4>1. pc = "archive" => chosen.url # 0
          BY DEF PackagesInv, Places, Installing, Commands
      <4> QED BY <4>1, ChosenType
    <3>5. new \in [kill : 1..MaxKills, command : Writers, url : 0..NbUrls]
        BY <3>1, <3>2, <3>3
    <3>6. new.command = "archive" => new.url \in Urls
        BY <3>4
    <3> HIDE DEF new
    <3> QED BY <1>0, <3>1, <3>5, <3>6 DEF OrphanTypes
  <2> QED BY <2>1, <2>2
<1>5. ASSUME NEW c \in Commands,
             Launch(c) \/ LaunchFails(c) \/ Look(c) \/ BuildArchive(c) \/ CommandDone(c) \/ CommandEnds(c)
      PROVE  UNCHANGED orphanVars
    BY <1>5 DEF Launch, LaunchFails, Look, BuildArchive, CommandDone, CommandEnds, orphanVars
<1>6. ASSUME Start \/ Join \/ SaveOpen \/ SaveWrite \/ BeginUpdate \/ ParseCatalogue \/ EndUpdate
             \/ BeginInstall \/ GetArchive \/ EndInstall
      PROVE  UNCHANGED orphanVars
    BY <1>6 DEF Start, Join, SaveOpen, SaveWrite, BeginUpdate, ParseCatalogue, EndUpdate,
       BeginInstall, GetArchive, EndInstall, orphanVars
<1>7. ASSUME BeginSource \/ EndSource \/ Search \/ Show \/ NextCommand \/ ClosePackage
      PROVE  UNCHANGED orphanVars
    BY <1>7 DEF BeginSource, EndSource, Search, Show, NextCommand, ClosePackage, orphanVars
<1>8. ASSUME \/ \E u \in Urls : Publish(u)
             \/ \E s \in RemoteScripts : OpenRemote(s)
             \/ \E s \in PackageScripts : OpenPackage(s)
             \/ Over
      PROVE  UNCHANGED orphanVars
    BY <1>8 DEF Publish, OpenRemote, OpenPackage, Over, vars, orphanVars
<1> QED BY <1>1, <1>2, <1>3, <1>4, <1>5, <1>6, <1>7, <1>8 DEF Next, Session

\* The types of the members of the RemoteManager.
LEMMA ManagerTypesStep ==
    ASSUME PackagesInv, Next
    PROVE  ManagerTypes'
<1> USE One DEF diskVars, managerVars, updateVars, userVars, spawnVars, orphanVars, Step, Enter, At
<1>0. ManagerTypes
    BY DEF PackagesInv
<1>1. CASE Start
    BY <1>1 DEF PackagesInv, Start, ManagerTypes, DiskTypes, UpdateTypes, LocalId
<1>2. CASE Join
    BY <1>2 DEF PackagesInv, Join, ManagerTypes, DiskTypes, UpdateTypes, LocalId
<1>3. CASE SaveOpen
    BY <1>3 DEF PackagesInv, SaveOpen, ManagerTypes, DiskTypes, UpdateTypes, LocalId
<1>4. CASE SaveWrite
    BY <1>4 DEF PackagesInv, SaveWrite, ManagerTypes, DiskTypes, UpdateTypes, LocalId
<1>5. CASE Exit
    BY <1>5 DEF PackagesInv, Exit, Forget, ManagerTypes, DiskTypes, UpdateTypes, LocalId
<1>6. CASE BeginUpdate
    BY <1>6 DEF PackagesInv, BeginUpdate, ManagerTypes, DiskTypes, UpdateTypes, LocalId
<1>7. CASE ParseCatalogue
    BY <1>7 DEF PackagesInv, ParseCatalogue, ManagerTypes, DiskTypes, UpdateTypes, LocalId
<1>8. CASE EndUpdate
  <2>1. mResults' \subseteq PackageIds
      BY <1>8 DEF PackagesInv, EndUpdate, UpdateTypes
  <2> QED BY <1>8, <2>1, IdTypes DEF PackagesInv, EndUpdate, Finish, ManagerTypes, UpdateTypes
<1>9. CASE BeginInstall
    BY <1>9 DEF PackagesInv, BeginInstall, ManagerTypes, DiskTypes, UpdateTypes, LocalId
<1>10. CASE GetArchive
    BY <1>10 DEF PackagesInv, GetArchive, Terminate, ManagerTypes, DiskTypes, UpdateTypes, LocalId
<1>11. CASE EndInstall
    BY <1>11, IdTypes DEF PackagesInv, EndInstall, ManagerTypes, UpdateTypes
<1>12. CASE BeginSource
    BY <1>12, IdTypes DEF PackagesInv, BeginSource, Finish, Installed, ManagerTypes
<1>13. CASE EndSource
    BY <1>13, IdTypes DEF PackagesInv, EndSource, Finish, Installed, ManagerTypes
<1>14. CASE Search
    BY <1>14, IdTypes DEF PackagesInv, Search, Finish, Installed, ManagerTypes
<1>15. CASE Show
    BY <1>15, IdTypes DEF PackagesInv, Show, Finish, Installed, ManagerTypes
<1>16. CASE NextCommand
    BY <1>16
       DEF PackagesInv, NextCommand, Terminate, ManagerTypes, DiskTypes, UpdateTypes, LocalId
<1>17. CASE ClosePackage
    BY <1>17 DEF PackagesInv, ClosePackage, ManagerTypes, DiskTypes, UpdateTypes, LocalId
<1>18. CASE Die
    BY <1>18 DEF PackagesInv, Die, ManagerTypes, DiskTypes, UpdateTypes, LocalId
<1>19. CASE Over
    BY <1>19 DEF PackagesInv, Over, vars, ManagerTypes, DiskTypes, UpdateTypes, LocalId
<1>20. ASSUME NEW c \in Commands, Launch(c) PROVE ManagerTypes'
    BY <1>20 DEF PackagesInv, Launch, Fork, ManagerTypes, DiskTypes, UpdateTypes, LocalId
<1>21. ASSUME NEW c \in Commands, LaunchFails(c) PROVE ManagerTypes'
    BY <1>21
       DEF PackagesInv, LaunchFails, Terminate, ManagerTypes, DiskTypes, UpdateTypes, LocalId
<1>22. ASSUME NEW c \in Commands, Look(c) PROVE ManagerTypes'
    BY <1>22, LookStep DEF PackagesInv, LookOutcome, ManagerTypes, DiskTypes, UpdateTypes, LocalId
<1>23. ASSUME NEW c \in Commands, BuildArchive(c) PROVE ManagerTypes'
    BY <1>23 DEF PackagesInv, BuildArchive, Then, ManagerTypes, DiskTypes, UpdateTypes, LocalId
<1>24. ASSUME NEW c \in Commands, CommandDone(c) PROVE ManagerTypes'
    BY <1>24 DEF PackagesInv, CommandDone, ManagerTypes, DiskTypes, UpdateTypes, LocalId
<1>25. ASSUME NEW c \in Commands, CommandEnds(c) PROVE ManagerTypes'
    BY <1>25, EndStep DEF PackagesInv, EndOutcome, ManagerTypes, DiskTypes, UpdateTypes, LocalId
<1>26. ASSUME NEW u \in Urls, Publish(u) PROVE ManagerTypes'
    BY <1>26 DEF PackagesInv, Publish, ManagerTypes, DiskTypes, UpdateTypes, LocalId
<1>27. ASSUME NEW s \in RemoteScripts, OpenRemote(s) PROVE ManagerTypes'
    BY <1>27 DEF PackagesInv, OpenRemote, ManagerTypes, DiskTypes, UpdateTypes, LocalId
<1>28. ASSUME NEW s \in PackageScripts, OpenPackage(s) PROVE ManagerTypes'
    BY <1>28 DEF PackagesInv, OpenPackage, ManagerTypes, DiskTypes, UpdateTypes, LocalId
<1>29. ASSUME NEW o \in orphans, OrphanEnds(o) PROVE ManagerTypes'
    BY <1>29, OrphanStep DEF PackagesInv, OrphanOutcome, ManagerTypes
<1> QED BY <1>1, <1>2, <1>3, <1>4, <1>5, <1>6, <1>7, <1>8, <1>9, <1>10, <1>11, <1>12, <1>13,
       <1>14, <1>15, <1>16, <1>17, <1>18, <1>19, <1>20, <1>21, <1>22, <1>23, <1>24, <1>25,
       <1>26, <1>27, <1>28, <1>29 DEF Next, Session

\* The types of the update and of the installation.
LEMMA UpdateTypesStep ==
    ASSUME PackagesInv, Next
    PROVE  UpdateTypes'
<1> USE One DEF diskVars, managerVars, updateVars, userVars, spawnVars, orphanVars, Step, Enter, At
<1>0. UpdateTypes
    BY DEF PackagesInv
<1>1. CASE Start
    BY <1>1 DEF PackagesInv, Start, UpdateTypes, DiskTypes, ManagerTypes, Updating, PackageIds
<1>2. CASE Join
    BY <1>2 DEF PackagesInv, Join, UpdateTypes, DiskTypes, ManagerTypes, Updating, PackageIds
<1>3. CASE SaveOpen
    BY <1>3 DEF PackagesInv, SaveOpen, UpdateTypes, DiskTypes, ManagerTypes, Updating, PackageIds
<1>4. CASE SaveWrite
    BY <1>4 DEF PackagesInv, SaveWrite, UpdateTypes, DiskTypes, ManagerTypes, Updating, PackageIds
<1>5. CASE Exit
  <2>1. 1 \in 1..(NbUrls + 1)
      BY PackagesAssumption
  <2> QED BY <1>5, <2>1 DEF Exit, UpdateTypes
<1>6. CASE BeginUpdate
    BY <1>6 DEF PackagesInv, BeginUpdate, UpdateTypes, DiskTypes, ManagerTypes, Updating,
       PackageIds
<1>7. CASE ParseCatalogue
  <2>1. url' \in 1..(NbUrls + 1)
      BY <1>7, PackagesAssumption DEF PackagesInv, ParseCatalogue, UpdateTypes, Updating, Urls
  <2> QED BY <1>7, <2>1 DEF PackagesInv, ParseCatalogue, UpdateTypes
<1>8. CASE EndUpdate
    BY <1>8 DEF PackagesInv, EndUpdate, Finish, UpdateTypes, DiskTypes, ManagerTypes, Updating,
       PackageIds
<1>9. CASE BeginInstall
    BY <1>9 DEF PackagesInv, BeginInstall, UpdateTypes, DiskTypes, ManagerTypes, Updating,
       PackageIds
<1>10. CASE GetArchive
    BY <1>10 DEF PackagesInv, GetArchive, Terminate, UpdateTypes, DiskTypes, ManagerTypes,
       Updating, PackageIds
<1>11. CASE EndInstall
    BY <1>11
       DEF PackagesInv, EndInstall, UpdateTypes, DiskTypes, ManagerTypes, Updating, PackageIds
<1>12. CASE BeginSource
    BY <1>12 DEF PackagesInv, BeginSource, Finish, UpdateTypes, DiskTypes, ManagerTypes,
       Updating, PackageIds
<1>13. CASE EndSource
    BY <1>13 DEF PackagesInv, EndSource, Finish, UpdateTypes, DiskTypes, ManagerTypes, Updating,
       PackageIds
<1>14. CASE Search
    BY <1>14 DEF PackagesInv, Search, Finish, Installed, UpdateTypes, DiskTypes, ManagerTypes,
       Updating, PackageIds
<1>15. CASE Show
    BY <1>15 DEF PackagesInv, Show, Finish, Installed, UpdateTypes, DiskTypes, ManagerTypes,
       Updating, PackageIds
<1>16. CASE NextCommand
    BY <1>16 DEF PackagesInv, NextCommand, Terminate, UpdateTypes, DiskTypes, ManagerTypes,
       Updating, PackageIds
<1>17. CASE ClosePackage
    BY <1>17 DEF PackagesInv, ClosePackage, UpdateTypes, DiskTypes, ManagerTypes, Updating,
       PackageIds
<1>18. CASE Die
    BY <1>18 DEF PackagesInv, Die, UpdateTypes, DiskTypes, ManagerTypes, Updating, PackageIds
<1>19. CASE Over
    BY <1>19
       DEF PackagesInv, Over, vars, UpdateTypes, DiskTypes, ManagerTypes, Updating, PackageIds
<1>20. ASSUME NEW c \in Commands, Launch(c) PROVE UpdateTypes'
    BY <1>20 DEF PackagesInv, Launch, Fork, UpdateTypes, DiskTypes, ManagerTypes, Updating,
       PackageIds
<1>21. ASSUME NEW c \in Commands, LaunchFails(c) PROVE UpdateTypes'
    BY <1>21 DEF PackagesInv, LaunchFails, Terminate, UpdateTypes, DiskTypes, ManagerTypes,
       Updating, PackageIds
<1>22. ASSUME NEW c \in Commands, Look(c) PROVE UpdateTypes'
    BY <1>22, LookStep
       DEF PackagesInv, LookOutcome, UpdateTypes, DiskTypes, ManagerTypes, Updating, PackageIds
<1>23. ASSUME NEW c \in Commands, BuildArchive(c) PROVE UpdateTypes'
    BY <1>23 DEF PackagesInv, BuildArchive, Then, UpdateTypes, DiskTypes, ManagerTypes,
       Updating, PackageIds
<1>24. ASSUME NEW c \in Commands, CommandDone(c) PROVE UpdateTypes'
    BY <1>24
       DEF PackagesInv, CommandDone, UpdateTypes, DiskTypes, ManagerTypes, Updating, PackageIds
<1>25. ASSUME NEW c \in Commands, CommandEnds(c) PROVE UpdateTypes'
  <2>1. EndOutcome(c) /\ UpdateTypes /\ (c = "catalogue" => url \in Urls)
      BY <1>25, EndStep DEF PackagesInv, EndOutcome, Updating
  <2>2. c = "catalogue" => PageOf(url) \subseteq PackageIds
      BY <2>1, IdTypes DEF PackagesInv, DiskTypes
  <2> QED BY <2>1, <2>2 DEF EndOutcome, UpdateTypes
<1>26. ASSUME NEW u \in Urls, Publish(u) PROVE UpdateTypes'
    BY <1>26 DEF PackagesInv, Publish, UpdateTypes, DiskTypes, ManagerTypes, Updating, PackageIds
<1>27. ASSUME NEW s \in RemoteScripts, OpenRemote(s) PROVE UpdateTypes'
    BY <1>27
       DEF PackagesInv, OpenRemote, UpdateTypes, DiskTypes, ManagerTypes, Updating, PackageIds
<1>28. ASSUME NEW s \in PackageScripts, OpenPackage(s) PROVE UpdateTypes'
    BY <1>28
       DEF PackagesInv, OpenPackage, UpdateTypes, DiskTypes, ManagerTypes, Updating, PackageIds
<1>29. ASSUME NEW o \in orphans, OrphanEnds(o) PROVE UpdateTypes'
    BY <1>29, OrphanStep DEF PackagesInv, OrphanOutcome, UpdateTypes
<1> QED BY <1>1, <1>2, <1>3, <1>4, <1>5, <1>6, <1>7, <1>8, <1>9, <1>10, <1>11, <1>12, <1>13,
       <1>14, <1>15, <1>16, <1>17, <1>18, <1>19, <1>20, <1>21, <1>22, <1>23, <1>24, <1>25,
       <1>26, <1>27, <1>28, <1>29 DEF Next, Session

\* The place of the session.
LEMMA PlacesStep ==
    ASSUME PackagesInv, Next
    PROVE  Places'
<1> USE One DEF diskVars, managerVars, updateVars, userVars, spawnVars, orphanVars, Step, Enter, At
<1>0. Places
    BY DEF PackagesInv
<1>1. CASE Start
  <2>1. Head(script) \in Actions
      BY <1>1 DEF PackagesInv, Places, Flags, Start
  <2> QED BY <1>1, <2>1 DEF PackagesInv, Start, Places, Commands, Actions
<1>2. CASE Join
    BY <1>2 DEF PackagesInv, Join, Places, Commands, Actions
<1>3. CASE SaveOpen
    BY <1>3 DEF PackagesInv, SaveOpen, Places, Commands, Actions
<1>4. CASE SaveWrite
    BY <1>4 DEF PackagesInv, SaveWrite, Places, Commands, Actions
<1>5. CASE Exit
    BY <1>5 DEF PackagesInv, Exit, Forget, Places, Commands, Actions
<1>6. CASE BeginUpdate
    BY <1>6 DEF PackagesInv, BeginUpdate, Places, Commands, Actions
<1>7. CASE ParseCatalogue
    BY <1>7 DEF PackagesInv, ParseCatalogue, Places, Commands, Actions
<1>8. CASE EndUpdate
    BY <1>8 DEF PackagesInv, EndUpdate, Finish, Places, Commands, Actions
<1>9. CASE BeginInstall
    BY <1>9 DEF PackagesInv, BeginInstall, Places, Commands, Actions
<1>10. CASE GetArchive
    BY <1>10 DEF PackagesInv, GetArchive, Terminate, Places, Commands, Actions
<1>11. CASE EndInstall
    BY <1>11 DEF PackagesInv, EndInstall, Places, Commands, Actions
<1>12. CASE BeginSource
    BY <1>12 DEF PackagesInv, BeginSource, Finish, Places, Commands, Actions
<1>13. CASE EndSource
    BY <1>13 DEF PackagesInv, EndSource, Finish, Places, Commands, Actions
<1>14. CASE Search
    BY <1>14 DEF PackagesInv, Search, Finish, Installed, Places, Commands, Actions
<1>15. CASE Show
    BY <1>15 DEF PackagesInv, Show, Finish, Installed, Places, Commands, Actions
<1>16. CASE NextCommand
    BY <1>16 DEF PackagesInv, NextCommand, Terminate, Places, Commands, Actions
<1>17. CASE ClosePackage
    BY <1>17 DEF PackagesInv, ClosePackage, Places, Commands, Actions
<1>18. CASE Die
    BY <1>18 DEF PackagesInv, Die, Places, Commands, Actions
<1>19. CASE Over
    BY <1>19 DEF PackagesInv, Over, vars, Places, Commands, Actions
<1>20. ASSUME NEW c \in Commands, Launch(c) PROVE Places'
    BY <1>20 DEF PackagesInv, Launch, Fork, Places, Commands, Actions
<1>21. ASSUME NEW c \in Commands, LaunchFails(c) PROVE Places'
    BY <1>21 DEF PackagesInv, LaunchFails, Terminate, Places, Commands, Actions
<1>22. ASSUME NEW c \in Commands, Look(c) PROVE Places'
    BY <1>22, LookStep DEF PackagesInv, LookOutcome, Places, Commands, Actions
<1>23. ASSUME NEW c \in Commands, BuildArchive(c) PROVE Places'
    BY <1>23 DEF PackagesInv, BuildArchive, Then, Places, Commands, Actions
<1>24. ASSUME NEW c \in Commands, CommandDone(c) PROVE Places'
    BY <1>24 DEF PackagesInv, CommandDone, Places, Commands, Actions
<1>25. ASSUME NEW c \in Commands, CommandEnds(c) PROVE Places'
    BY <1>25, EndStep DEF PackagesInv, EndOutcome, Places, Commands, Actions
<1>26. ASSUME NEW u \in Urls, Publish(u) PROVE Places'
    BY <1>26 DEF PackagesInv, Publish, Places, Commands, Actions
<1>27. ASSUME NEW s \in RemoteScripts, OpenRemote(s) PROVE Places'
    BY <1>27 DEF PackagesInv, OpenRemote, Places, Commands, Actions
<1>28. ASSUME NEW s \in PackageScripts, OpenPackage(s) PROVE Places'
    BY <1>28 DEF PackagesInv, OpenPackage, Places, Commands, Actions
<1>29. ASSUME NEW o \in orphans, OrphanEnds(o) PROVE Places'
    BY <1>29, OrphanStep DEF PackagesInv, OrphanOutcome, Places
<1> QED BY <1>1, <1>2, <1>3, <1>4, <1>5, <1>6, <1>7, <1>8, <1>9, <1>10, <1>11, <1>12, <1>13,
       <1>14, <1>15, <1>16, <1>17, <1>18, <1>19, <1>20, <1>21, <1>22, <1>23, <1>24, <1>25,
       <1>26, <1>27, <1>28, <1>29 DEF Next, Session

\* The child of the command.
LEMMA ChildStep ==
    ASSUME PackagesInv, Next
    PROVE  Child'
<1> USE One DEF diskVars, managerVars, updateVars, userVars, spawnVars, orphanVars, Step, Enter, At
<1>0. Child
    BY DEF PackagesInv
<1>1. CASE Start
    BY <1>1 DEF PackagesInv, Start, Child, Places, SpawnTypeOK
<1>2. CASE Join
    BY <1>2 DEF PackagesInv, Join, Child, Places, SpawnTypeOK
<1>3. CASE SaveOpen
    BY <1>3 DEF PackagesInv, SaveOpen, Child, Places, SpawnTypeOK
<1>4. CASE SaveWrite
    BY <1>4 DEF PackagesInv, SaveWrite, Child, Places, SpawnTypeOK
<1>5. CASE Exit
    BY <1>5 DEF PackagesInv, Exit, Forget, Child, Places, SpawnTypeOK
<1>6. CASE BeginUpdate
    BY <1>6 DEF PackagesInv, BeginUpdate, Child, Places, SpawnTypeOK
<1>7. CASE ParseCatalogue
    BY <1>7 DEF PackagesInv, ParseCatalogue, Child, Places, SpawnTypeOK
<1>8. CASE EndUpdate
    BY <1>8 DEF PackagesInv, EndUpdate, Finish, Child, Places, SpawnTypeOK
<1>9. CASE BeginInstall
    BY <1>9 DEF PackagesInv, BeginInstall, Child, Places, SpawnTypeOK
<1>10. CASE GetArchive
    BY <1>10 DEF PackagesInv, GetArchive, Terminate, Child, Places, SpawnTypeOK
<1>11. CASE EndInstall
    BY <1>11 DEF PackagesInv, EndInstall, Child, Places, SpawnTypeOK
<1>12. CASE BeginSource
    BY <1>12 DEF PackagesInv, BeginSource, Finish, Child, Places, SpawnTypeOK
<1>13. CASE EndSource
    BY <1>13 DEF PackagesInv, EndSource, Finish, Child, Places, SpawnTypeOK
<1>14. CASE Search
    BY <1>14 DEF PackagesInv, Search, Finish, Installed, Child, Places, SpawnTypeOK
<1>15. CASE Show
    BY <1>15 DEF PackagesInv, Show, Finish, Installed, Child, Places, SpawnTypeOK
<1>16. CASE NextCommand
    BY <1>16 DEF PackagesInv, NextCommand, Terminate, Child, Places, SpawnTypeOK
<1>17. CASE ClosePackage
    BY <1>17 DEF PackagesInv, ClosePackage, Child, Places, SpawnTypeOK
<1>18. CASE Die
    BY <1>18 DEF PackagesInv, Die, Child, Places, SpawnTypeOK
<1>19. CASE Over
    BY <1>19 DEF PackagesInv, Over, vars, Child, Places, SpawnTypeOK
<1>20. ASSUME NEW c \in Commands, Launch(c) PROVE Child'
    BY <1>20 DEF PackagesInv, Launch, Fork, Child, Places, SpawnTypeOK
<1>21. ASSUME NEW c \in Commands, LaunchFails(c) PROVE Child'
    BY <1>21 DEF PackagesInv, LaunchFails, Terminate, Child, Places, SpawnTypeOK
<1>22. ASSUME NEW c \in Commands, Look(c) PROVE Child'
  <2>1. LookOutcome(c) /\ Child /\ SpawnTypeOK
      BY <1>22, LookStep DEF PackagesInv
  <2>2. CASE UNCHANGED <<child, finish, status>>
      BY <2>1, <2>2 DEF LookOutcome, Child
  <2>3. CASE ~UNCHANGED <<child, finish, status>>
    <3>1. /\ UNCHANGED <<step, pid, started, code>>
          /\ child' = [child EXCEPT ![spawn] = "reaped"]
          /\ finish' = [finish EXCEPT ![spawn] = TRUE]
          /\ status' = [status EXCEPT ![spawn] = code[spawn]]
        BY <2>1, <2>3 DEF LookOutcome
    <3>2. child'[spawn] = "reaped" /\ finish'[spawn] /\ status'[spawn] = code'[spawn]
        BY <2>1, <3>1 DEF SpawnTypeOK
    <3> QED BY <2>1, <3>1, <3>2 DEF LookOutcome, Child
  <2> QED BY <2>2, <2>3
<1>23. ASSUME NEW c \in Commands, BuildArchive(c) PROVE Child'
    BY <1>23 DEF PackagesInv, BuildArchive, Then, Child, Places, SpawnTypeOK
<1>24. ASSUME NEW c \in Commands, CommandDone(c) PROVE Child'
    BY <1>24 DEF PackagesInv, CommandDone, Child, Places, SpawnTypeOK
<1>25. ASSUME NEW c \in Commands, CommandEnds(c) PROVE Child'
    BY <1>25, EndStep DEF PackagesInv, EndOutcome, Child, Places, SpawnTypeOK
<1>26. ASSUME NEW u \in Urls, Publish(u) PROVE Child'
    BY <1>26 DEF PackagesInv, Publish, Child, Places, SpawnTypeOK
<1>27. ASSUME NEW s \in RemoteScripts, OpenRemote(s) PROVE Child'
    BY <1>27 DEF PackagesInv, OpenRemote, Child, Places, SpawnTypeOK
<1>28. ASSUME NEW s \in PackageScripts, OpenPackage(s) PROVE Child'
    BY <1>28 DEF PackagesInv, OpenPackage, Child, Places, SpawnTypeOK
<1>29. ASSUME NEW o \in orphans, OrphanEnds(o) PROVE Child'
    BY <1>29, OrphanStep DEF PackagesInv, OrphanOutcome, Child
<1> QED BY <1>1, <1>2, <1>3, <1>4, <1>5, <1>6, <1>7, <1>8, <1>9, <1>10, <1>11, <1>12, <1>13,
       <1>14, <1>15, <1>16, <1>17, <1>18, <1>19, <1>20, <1>21, <1>22, <1>23, <1>24, <1>25,
       <1>26, <1>27, <1>28, <1>29 DEF Next, Session

\* The -P mode.
LEMMA ModeStep ==
    ASSUME PackagesInv, Next
    PROVE  Mode'
<1> USE One DEF diskVars, managerVars, updateVars, userVars, spawnVars, orphanVars, Step, Enter, At
<1>0. Mode
    BY DEF PackagesInv
<1>1. CASE Start
  <2>1. Head(script) \in Actions
      BY <1>1 DEF PackagesInv, Places, Flags, Start
  <2> QED BY <1>1, <2>1 DEF PackagesInv, Start, Mode, Places, Actions
<1>2. CASE Join
    BY <1>2 DEF PackagesInv, Join, Mode, Places, Child, Counts, Success, Actions
<1>3. CASE SaveOpen
    BY <1>3 DEF PackagesInv, SaveOpen, Mode, Places, Child, Counts, Success, Actions
<1>4. CASE SaveWrite
    BY <1>4 DEF PackagesInv, SaveWrite, Mode, Places, Child, Counts, Success, Actions
<1>5. CASE Exit
    BY <1>5 DEF PackagesInv, Exit, Forget, Mode, Places, Child, Counts, Success, Actions
<1>6. CASE BeginUpdate
    BY <1>6 DEF PackagesInv, BeginUpdate, Mode, Places, Child, Counts, Success, Actions
<1>7. CASE ParseCatalogue
    BY <1>7 DEF PackagesInv, ParseCatalogue, Mode, Places, Child, Counts, Success, Actions
<1>8. CASE EndUpdate
    BY <1>8 DEF PackagesInv, EndUpdate, Finish, Mode, Places, Child, Counts, Success, Actions
<1>9. CASE BeginInstall
    BY <1>9 DEF PackagesInv, BeginInstall, Mode, Places, Child, Counts, Success, Actions
<1>10. CASE GetArchive
    BY <1>10 DEF PackagesInv, GetArchive, Terminate, Mode, Places, Child, Counts, Success, Actions
<1>11. CASE EndInstall
    BY <1>11 DEF PackagesInv, EndInstall, Mode, Places, Child, Counts, Success, Actions
<1>12. CASE BeginSource
    BY <1>12 DEF PackagesInv, BeginSource, Finish, Mode, Places, Child, Counts, Success, Actions
<1>13. CASE EndSource
    BY <1>13 DEF PackagesInv, EndSource, Finish, Mode, Places, Child, Counts, Success, Actions
<1>14. CASE Search
    BY <1>14 DEF PackagesInv, Search, Finish, Installed, Mode, Places, Child, Counts, Success,
       Actions
<1>15. CASE Show
    BY <1>15
       DEF PackagesInv, Show, Finish, Installed, Mode, Places, Child, Counts, Success, Actions
<1>16. CASE NextCommand
    BY <1>16
       DEF PackagesInv, NextCommand, Terminate, Mode, Places, Child, Counts, Success, Actions
<1>17. CASE ClosePackage
    BY <1>17 DEF PackagesInv, ClosePackage, Mode, Places, Child, Counts, Success, Actions
<1>18. CASE Die
    BY <1>18 DEF PackagesInv, Die, Mode, Places, Child, Counts, Success, Actions
<1>19. CASE Over
    BY <1>19 DEF PackagesInv, Over, vars, Mode, Places, Child, Counts, Success, Actions
<1>20. ASSUME NEW c \in Commands, Launch(c) PROVE Mode'
    BY <1>20 DEF PackagesInv, Launch, Fork, Mode, Places, Child, Counts, Success, Actions
<1>21. ASSUME NEW c \in Commands, LaunchFails(c) PROVE Mode'
    BY <1>21
       DEF PackagesInv, LaunchFails, Terminate, Mode, Places, Child, Counts, Success, Actions
<1>22. ASSUME NEW c \in Commands, Look(c) PROVE Mode'
    BY <1>22, LookStep DEF PackagesInv, LookOutcome, Mode, Places, Child, Counts, Success, Actions
<1>23. ASSUME NEW c \in Commands, BuildArchive(c) PROVE Mode'
    BY <1>23 DEF PackagesInv, BuildArchive, Then, Mode, Places, Child, Counts, Success, Actions
<1>24. ASSUME NEW c \in Commands, CommandDone(c) PROVE Mode'
    BY <1>24 DEF PackagesInv, CommandDone, Mode, Places, Child, Counts, Success, Actions
<1>25. ASSUME NEW c \in Commands, CommandEnds(c) PROVE Mode'
    BY <1>25, EndStep DEF PackagesInv, EndOutcome, Mode, Places, Child, Counts, Success, Actions
<1>26. ASSUME NEW u \in Urls, Publish(u) PROVE Mode'
    BY <1>26 DEF PackagesInv, Publish, Mode, Places, Child, Counts, Success, Actions
<1>27. ASSUME NEW s \in RemoteScripts, OpenRemote(s) PROVE Mode'
    BY <1>27 DEF PackagesInv, OpenRemote, Mode, Places, Child, Counts, Success, Actions
<1>28. ASSUME NEW s \in PackageScripts, OpenPackage(s) PROVE Mode'
    BY <1>28 DEF PackagesInv, OpenPackage, Mode, Places, Child, Counts, Success, Actions
<1>29. ASSUME NEW o \in orphans, OrphanEnds(o) PROVE Mode'
    BY <1>29, OrphanStep DEF PackagesInv, OrphanOutcome, Mode, Counts, Success
<1> QED BY <1>1, <1>2, <1>3, <1>4, <1>5, <1>6, <1>7, <1>8, <1>9, <1>10, <1>11, <1>12, <1>13,
       <1>14, <1>15, <1>16, <1>17, <1>18, <1>19, <1>20, <1>21, <1>22, <1>23, <1>24, <1>25,
       <1>26, <1>27, <1>28, <1>29 DEF Next, Session

\* The flags of the RemoteManager.
LEMMA FlagsStep ==
    ASSUME PackagesInv, Next
    PROVE  Flags'
<1> USE One DEF diskVars, managerVars, updateVars, userVars, spawnVars, orphanVars, Step, Enter, At
<1>0. Flags
    BY DEF PackagesInv
<1>1. CASE Start
    BY <1>1 DEF PackagesInv, Start, Flags, Places, ManagerTypes, Actions, Commands
<1>2. CASE Join
    BY <1>2 DEF PackagesInv, Join, Flags, Places, ManagerTypes, Actions, Commands
<1>3. CASE SaveOpen
    BY <1>3 DEF PackagesInv, SaveOpen, Flags, Places, ManagerTypes, Actions, Commands
<1>4. CASE SaveWrite
    BY <1>4 DEF PackagesInv, SaveWrite, Flags, Places, ManagerTypes, Actions, Commands
<1>5. CASE Exit
    BY <1>5 DEF PackagesInv, Exit, Forget, Flags, Places, ManagerTypes, Actions, Commands
<1>6. CASE BeginUpdate
    BY <1>6 DEF PackagesInv, BeginUpdate, Flags, Places, ManagerTypes, Actions, Commands
<1>7. CASE ParseCatalogue
    BY <1>7 DEF PackagesInv, ParseCatalogue, Flags, Places, ManagerTypes, Actions, Commands
<1>8. CASE EndUpdate
    BY <1>8 DEF PackagesInv, EndUpdate, Finish, Flags, Places, ManagerTypes, Actions, Commands
<1>9. CASE BeginInstall
    BY <1>9 DEF PackagesInv, BeginInstall, Flags, Places, ManagerTypes, Actions, Commands
<1>10. CASE GetArchive
    BY <1>10
       DEF PackagesInv, GetArchive, Terminate, Flags, Places, ManagerTypes, Actions, Commands
<1>11. CASE EndInstall
    BY <1>11 DEF PackagesInv, EndInstall, Flags, Places, ManagerTypes, Actions, Commands
<1>12. CASE BeginSource
    BY <1>12 DEF PackagesInv, BeginSource, Finish, Flags, Places, ManagerTypes, Actions, Commands
<1>13. CASE EndSource
    BY <1>13 DEF PackagesInv, EndSource, Finish, Flags, Places, ManagerTypes, Actions, Commands
<1>14. CASE Search
    BY <1>14 DEF PackagesInv, Search, Finish, Installed, Flags, Places, ManagerTypes, Actions,
       Commands
<1>15. CASE Show
    BY <1>15
       DEF PackagesInv, Show, Finish, Installed, Flags, Places, ManagerTypes, Actions, Commands
<1>16. CASE NextCommand
    BY <1>16
       DEF PackagesInv, NextCommand, Terminate, Flags, Places, ManagerTypes, Actions, Commands
<1>17. CASE ClosePackage
    BY <1>17 DEF PackagesInv, ClosePackage, Flags, Places, ManagerTypes, Actions, Commands
<1>18. CASE Die
    BY <1>18 DEF PackagesInv, Die, Flags, Places, ManagerTypes, Actions, Commands
<1>19. CASE Over
    BY <1>19 DEF PackagesInv, Over, vars, Flags, Places, ManagerTypes, Actions, Commands
<1>20. ASSUME NEW c \in Commands, Launch(c) PROVE Flags'
    BY <1>20 DEF PackagesInv, Launch, Fork, Flags, Places, ManagerTypes, Actions, Commands
<1>21. ASSUME NEW c \in Commands, LaunchFails(c) PROVE Flags'
    BY <1>21
       DEF PackagesInv, LaunchFails, Terminate, Flags, Places, ManagerTypes, Actions, Commands
<1>22. ASSUME NEW c \in Commands, Look(c) PROVE Flags'
    BY <1>22, LookStep
       DEF PackagesInv, LookOutcome, Flags, Places, ManagerTypes, Actions, Commands
<1>23. ASSUME NEW c \in Commands, BuildArchive(c) PROVE Flags'
    BY <1>23 DEF PackagesInv, BuildArchive, Then, Flags, Places, ManagerTypes, Actions, Commands
<1>24. ASSUME NEW c \in Commands, CommandDone(c) PROVE Flags'
    BY <1>24 DEF PackagesInv, CommandDone, Flags, Places, ManagerTypes, Actions, Commands
<1>25. ASSUME NEW c \in Commands, CommandEnds(c) PROVE Flags'
    BY <1>25, EndStep DEF PackagesInv, EndOutcome, Flags, Places, ManagerTypes, Actions, Commands
<1>26. ASSUME NEW u \in Urls, Publish(u) PROVE Flags'
    BY <1>26 DEF PackagesInv, Publish, Flags, Places, ManagerTypes, Actions, Commands
<1>27. ASSUME NEW s \in RemoteScripts, OpenRemote(s) PROVE Flags'
    BY <1>27, PackagesAssumption DEF PackagesInv, OpenRemote, Flags, Places
<1>28. ASSUME NEW s \in PackageScripts, OpenPackage(s) PROVE Flags'
    BY <1>28 DEF PackagesInv, OpenPackage, Flags, Places, ManagerTypes, Actions, Commands
<1>29. ASSUME NEW o \in orphans, OrphanEnds(o) PROVE Flags'
    BY <1>29, OrphanStep DEF PackagesInv, OrphanOutcome, Flags
<1> QED BY <1>1, <1>2, <1>3, <1>4, <1>5, <1>6, <1>7, <1>8, <1>9, <1>10, <1>11, <1>12, <1>13,
       <1>14, <1>15, <1>16, <1>17, <1>18, <1>19, <1>20, <1>21, <1>22, <1>23, <1>24, <1>25,
       <1>26, <1>27, <1>28, <1>29 DEF Next, Session

\* What was published.
LEMMA PublishedStep ==
    ASSUME PackagesInv, Next
    PROVE  Published'
<1> USE One DEF diskVars, managerVars, updateVars, userVars, spawnVars, orphanVars, Step, Enter, At
<1>0. Published
    BY DEF PackagesInv
<1>1. CASE Start
    BY <1>1 DEF PackagesInv, Start, Published, WasPublished, ManagerTypes, UpdateTypes
<1>2. CASE Join
    BY <1>2 DEF PackagesInv, Join, Published, WasPublished, ManagerTypes, UpdateTypes
<1>3. CASE SaveOpen
    BY <1>3 DEF PackagesInv, SaveOpen, Published, WasPublished, ManagerTypes, UpdateTypes
<1>4. CASE SaveWrite
    BY <1>4 DEF PackagesInv, SaveWrite, Published, WasPublished, ManagerTypes, UpdateTypes
<1>5. CASE Exit
  <2>1. \A v \in Urls : 0 <= published[v]
      BY NumberTypes
  <2>2. \A v \in Urls : before'[v] = 0
      BY <1>5 DEF Exit
  <2>3. chosen'.url = 0
      BY <1>5 DEF Exit, LocalId
  <2> QED BY <1>5, <2>1, <2>2, <2>3 DEF PackagesInv, Exit, Published, WasPublished
<1>6. CASE BeginUpdate
    BY <1>6 DEF PackagesInv, BeginUpdate, Published, WasPublished, ManagerTypes, UpdateTypes
<1>7. CASE ParseCatalogue
    BY <1>7 DEF PackagesInv, ParseCatalogue, Published, WasPublished, ManagerTypes, UpdateTypes
<1>8. CASE EndUpdate
    BY <1>8 DEF PackagesInv, EndUpdate, Finish, Published, WasPublished, ManagerTypes, UpdateTypes
<1>9. CASE BeginInstall
    BY <1>9 DEF PackagesInv, BeginInstall, Published, WasPublished, ManagerTypes, UpdateTypes
<1>10. CASE GetArchive
    BY <1>10 DEF PackagesInv, GetArchive, Terminate, Published, WasPublished, ManagerTypes,
       UpdateTypes
<1>11. CASE EndInstall
    BY <1>11 DEF PackagesInv, EndInstall, Published, WasPublished, ManagerTypes, UpdateTypes
<1>12. CASE BeginSource
  <2>1. \A p \in mResults' : p.url # 0 => p \in remote \cup mResults
      BY <1>12 DEF BeginSource, Finish, Installed, LocalId
  <2> QED BY <1>12, <2>1 DEF PackagesInv, BeginSource, Finish, Published, WasPublished
<1>13. CASE EndSource
  <2>1. \A p \in mResults' : p.url # 0 => p \in remote \cup mResults
      BY <1>13 DEF EndSource, Finish, Installed, LocalId
  <2> QED BY <1>13, <2>1 DEF PackagesInv, EndSource, Finish, Published, WasPublished
<1>14. CASE Search
  <2>1. \A p \in mResults' : p.url # 0 => p \in remote \cup mResults
      BY <1>14 DEF Search, Finish, Installed, LocalId
  <2> QED BY <1>14, <2>1 DEF PackagesInv, Search, Finish, Published, WasPublished
<1>15. CASE Show
  <2>1. \A p \in mResults' : p.url # 0 => p \in remote \cup mResults
      BY <1>15 DEF Show, Finish, Installed, LocalId
  <2> QED BY <1>15, <2>1 DEF PackagesInv, Show, Finish, Published, WasPublished
<1>16. CASE NextCommand
    BY <1>16 DEF PackagesInv, NextCommand, Terminate, Published, WasPublished, ManagerTypes,
       UpdateTypes
<1>17. CASE ClosePackage
    BY <1>17 DEF PackagesInv, ClosePackage, Published, WasPublished, ManagerTypes, UpdateTypes
<1>18. CASE Die
    BY <1>18 DEF PackagesInv, Die, Published, WasPublished, ManagerTypes, UpdateTypes
<1>19. CASE Over
    BY <1>19 DEF PackagesInv, Over, vars, Published, WasPublished, ManagerTypes, UpdateTypes
<1>20. ASSUME NEW c \in Commands, Launch(c) PROVE Published'
    BY <1>20 DEF PackagesInv, Launch, Fork, Published, WasPublished, ManagerTypes, UpdateTypes
<1>21. ASSUME NEW c \in Commands, LaunchFails(c) PROVE Published'
    BY <1>21 DEF PackagesInv, LaunchFails, Terminate, Published, WasPublished, ManagerTypes,
       UpdateTypes
<1>22. ASSUME NEW c \in Commands, Look(c) PROVE Published'
    BY <1>22, LookStep
       DEF PackagesInv, LookOutcome, Published, WasPublished, ManagerTypes, UpdateTypes
<1>23. ASSUME NEW c \in Commands, BuildArchive(c) PROVE Published'
    BY <1>23
       DEF PackagesInv, BuildArchive, Then, Published, WasPublished, ManagerTypes, UpdateTypes
<1>24. ASSUME NEW c \in Commands, CommandDone(c) PROVE Published'
    BY <1>24 DEF PackagesInv, CommandDone, Published, WasPublished, ManagerTypes, UpdateTypes
<1>25. ASSUME NEW c \in Commands, CommandEnds(c) PROVE Published'
  <2>1. EndOutcome(c) /\ (c = "catalogue" => url \in Urls)
      BY <1>25, EndStep DEF PackagesInv, EndOutcome, Updating
  <2>2. \A v \in Urls : published[v] \in Nat
      BY NumberTypes
  <2>3. \A p \in page' : WasPublished(p)
    <3>1. \A p \in page : WasPublished(p)
        BY DEF PackagesInv, Published
    <3>2. c = "catalogue" => \A p \in PageOf(url) : WasPublished(p)
        BY <2>1, <2>2, PageContent DEF WasPublished
    <3> QED BY <2>1, <3>1, <3>2 DEF EndOutcome
  <2> QED BY <2>1, <2>3 DEF EndOutcome, PackagesInv, Published, WasPublished
<1>26. ASSUME NEW u \in Urls, Publish(u) PROVE Published'
  <2>1. \A v \in Urls : before[v] \in Nat /\ published[v] \in Nat
      BY NumberTypes
  <2>2. ASSUME NEW p, p.url \in Urls, p.version \in Nat, WasPublished(p)
        PROVE  WasPublished(p)'
      BY <1>26, <2>1, <2>2, PublishStep DEF WasPublished
  <2>3. ASSUME NEW p \in remote \cup file \cup parsed \cup page PROVE WasPublished(p)'
      BY <2>2, <2>3, IdTypes, VersionsType
         DEF PackagesInv, Published, DiskTypes, ManagerTypes, UpdateTypes
  <2>4. ASSUME NEW p \in mResults, p.url # 0 PROVE WasPublished(p)'
    <3>1. p \in [url : 0..NbUrls, version : {0} \cup Versions]
        BY <2>4 DEF PackagesInv, ManagerTypes
    <3>2. p.url \in Urls
        BY <2>4, <3>1, PackagesAssumption DEF Urls
    <3>3. p.version \in {0} \cup Versions
        BY <3>1
    <3>4. p.version \in Nat
        BY <3>3, VersionsType
    <3> QED BY <2>2, <2>4, <3>2, <3>4 DEF PackagesInv, Published
  <2>5. ASSUME chosen.url # 0 PROVE WasPublished(chosen)'
    <3>1. chosen \in PackageIds
        BY <2>5 DEF PackagesInv, UpdateTypes, LocalId
    <3>2. chosen.url \in Urls /\ chosen.version \in Nat /\ WasPublished(chosen)
        BY <2>5, <3>1, IdTypes, VersionsType DEF PackagesInv, Published
    <3>3. WasPublished(chosen) /\ chosen' = chosen
        BY <1>26, <3>2 DEF Publish
    <3> QED BY <1>26, <2>1, <3>2, <3>3, PublishStep DEF WasPublished
  <2>6. \A v \in Urls : published'[v] <= Limit[v] /\ before[v] <= published'[v]
      BY <1>26, <2>1, PublishStep DEF PackagesInv, Published
  <2> QED BY <1>26, <2>3, <2>4, <2>5, <2>6 DEF Published, Publish
<1>27. ASSUME NEW s \in RemoteScripts, OpenRemote(s) PROVE Published'
  <2>1. \A v \in Urls : published[v] <= published[v]
      BY NumberTypes
  <2> QED BY <1>27, <2>1 DEF PackagesInv, OpenRemote, Published, WasPublished
<1>28. ASSUME NEW s \in PackageScripts, OpenPackage(s) PROVE Published'
    BY <1>28 DEF PackagesInv, OpenPackage, Published, WasPublished, ManagerTypes, UpdateTypes
<1>29. ASSUME NEW o \in orphans, OrphanEnds(o) PROVE Published'
    BY <1>29, OrphanStep DEF PackagesInv, OrphanOutcome, Published, WasPublished
<1> QED BY <1>1, <1>2, <1>3, <1>4, <1>5, <1>6, <1>7, <1>8, <1>9, <1>10, <1>11, <1>12, <1>13,
       <1>14, <1>15, <1>16, <1>17, <1>18, <1>19, <1>20, <1>21, <1>22, <1>23, <1>24, <1>25,
       <1>26, <1>27, <1>28, <1>29 DEF Next, Session

\* What an update has gathered.
LEMMA UpdatingStep ==
    ASSUME PackagesInv, Next
    PROVE  Updating'
<1> USE One DEF diskVars, managerVars, updateVars, userVars, spawnVars, orphanVars, Step, Enter, At
<1>0. Updating
    BY DEF PackagesInv
<1>1. CASE Start
    BY <1>1 DEF PackagesInv, Start, Updating, Places, Commands
<1>2. CASE Join
    BY <1>2 DEF PackagesInv, Join, Updating, Places, Commands
<1>3. CASE SaveOpen
    BY <1>3 DEF PackagesInv, SaveOpen, Updating, Places, Commands
<1>4. CASE SaveWrite
    BY <1>4 DEF PackagesInv, SaveWrite, Updating, Places, Commands
<1>5. CASE Exit
    BY <1>5 DEF PackagesInv, Exit, Forget, Updating, Places, Commands
<1>6. CASE BeginUpdate
  <2>1. url = 1 /\ parsed = {} /\ pc' \in {"join", "catalogue"} /\ step' = "start"
      BY <1>6 DEF PackagesInv, Updating, BeginUpdate
  <2>2. 1 \in Urls /\ 1..(url - 1) = {}
      BY <2>1, PackagesAssumption DEF Urls
  <2> QED BY <1>6, <2>1, <2>2 DEF BeginUpdate, Updating, Done
<1>7. CASE ParseCatalogue
  <2>1. url \in 1..NbUrls /\ NbUrls \in Nat
      BY <1>7, PackagesAssumption DEF PackagesInv, Updating, ParseCatalogue, Urls
  <2>2. url' = url + 1 /\ step' = "start" /\ pc' = IF url < NbUrls THEN "catalogue" ELSE "parse"
      BY <1>7 DEF ParseCatalogue
  <2>3. /\ pc' = "catalogue" => url' \in Urls
        /\ pc' = "parse" => url' = NbUrls + 1
        /\ pc' \in {"catalogue", "parse"}
      BY <2>1, <2>2 DEF Urls
  <2>4. ASSUME ran = "update", ~mHasError', ~failed, NEW v \in 1..(url' - 1)
        PROVE  Known(parsed, v)'
    <3>1. legible /\ ~mHasError /\ parsed' = parsed \cup page /\ before' = before
        BY <1>7, <2>4 DEF ParseCatalogue, PackagesInv, ManagerTypes
    <3>2. v \in 1..(url - 1) \/ v = url
        BY <2>1, <2>2
    <3>3. Known(parsed, v) \/ Known(page, v)
        BY <1>7, <2>4, <3>1, <3>2 DEF ParseCatalogue, PackagesInv, Updating, Done
    <3> QED BY <3>1, <3>3 DEF Known
  <2>5. UNCHANGED <<ran, failed>>
      BY <1>7 DEF ParseCatalogue
  <2> QED BY <2>2, <2>3, <2>4, <2>5 DEF Updating, Done
<1>8. CASE EndUpdate
    BY <1>8 DEF PackagesInv, EndUpdate, Finish, Updating, Places, Commands
<1>9. CASE BeginInstall
    BY <1>9 DEF PackagesInv, BeginInstall, Updating, Places, Commands
<1>10. CASE GetArchive
    BY <1>10 DEF PackagesInv, GetArchive, Terminate, Updating, Places, Commands
<1>11. CASE EndInstall
    BY <1>11 DEF PackagesInv, EndInstall, Updating, Places, Commands
<1>12. CASE BeginSource
    BY <1>12 DEF PackagesInv, BeginSource, Finish, Updating, Places, Commands
<1>13. CASE EndSource
    BY <1>13 DEF PackagesInv, EndSource, Finish, Updating, Places, Commands
<1>14. CASE Search
    BY <1>14 DEF PackagesInv, Search, Finish, Installed, Updating, Places, Commands
<1>15. CASE Show
    BY <1>15 DEF PackagesInv, Show, Finish, Installed, Updating, Places, Commands
<1>16. CASE NextCommand
    BY <1>16 DEF PackagesInv, NextCommand, Terminate, Updating, Places, Commands
<1>17. CASE ClosePackage
    BY <1>17 DEF PackagesInv, ClosePackage, Updating, Places, Commands
<1>18. CASE Die
    BY <1>18 DEF PackagesInv, Die, Updating, Places, Commands
<1>19. CASE Over
    BY <1>19 DEF PackagesInv, Over, vars, Updating, Places, Commands
<1>20. ASSUME NEW c \in Commands, Launch(c) PROVE Updating'
  <2>1. child'[spawn] = "running"
      BY <1>20 DEF Launch, Fork, PackagesInv, SpawnTypeOK
  <2>2. ~Done'
      BY <1>20, <2>1 DEF Launch, Done
  <2> QED BY <1>20, <2>2 DEF PackagesInv, Launch, Updating, Known, Places
<1>21. ASSUME NEW c \in Commands, LaunchFails(c) PROVE Updating'
    BY <1>21 DEF PackagesInv, LaunchFails, Terminate, Updating, Places, Commands
<1>22. ASSUME NEW c \in Commands, Look(c) PROVE Updating'
  <2>1. LookOutcome(c) /\ pc' = pc
      BY <1>22, LookStep DEF LookOutcome
  <2>2. CASE ran = "update" /\ ~failed'
    <3>1. ~failed /\ (Done' => Done)
        BY <2>1, <2>2, LookDone
    <3> QED BY <2>1, <2>2, <3>1 DEF LookOutcome, PackagesInv, Updating, Known
  <2>3. CASE ~(ran = "update" /\ ~failed')
      BY <2>1, <2>3 DEF LookOutcome, PackagesInv, Updating
  <2> QED BY <2>2, <2>3
<1>23. ASSUME NEW c \in Commands, BuildArchive(c) PROVE Updating'
    BY <1>23 DEF PackagesInv, BuildArchive, Then, Updating, Places, Commands
<1>24. ASSUME NEW c \in Commands, CommandDone(c) PROVE Updating'
    BY <1>24 DEF PackagesInv, CommandDone, Updating, Places, Commands
<1>25. ASSUME NEW c \in Commands, CommandEnds(c) PROVE Updating'
  <2>1. EndOutcome(c) /\ Updating
      BY <1>25, EndStep DEF PackagesInv
  <2>2. ASSUME pc = "catalogue", Done', legible' PROVE Known(page, url)'
    <3>1. c = "catalogue" /\ page' = PageOf(url) /\ url' = url /\ before' = before /\ url \in Urls
        BY <2>1, <2>2 DEF EndOutcome, Done, Updating
    <3>2. published[url] \in Nat /\ before[url] \in Nat /\ before[url] <= published[url]
        BY <3>1, NumberTypes DEF PackagesInv, Published
    <3> QED BY <3>1, <3>2, PageContent DEF Known
  <2>3. \A v : Known(parsed, v)' = Known(parsed, v)
      BY <2>1 DEF EndOutcome, Known
  <2> QED BY <2>1, <2>2, <2>3 DEF EndOutcome, Updating
<1>26. ASSUME NEW u \in Urls, Publish(u) PROVE Updating'
    BY <1>26 DEF PackagesInv, Publish, Updating, Known, Done
<1>27. ASSUME NEW s \in RemoteScripts, OpenRemote(s) PROVE Updating'
    BY <1>27 DEF PackagesInv, OpenRemote, Updating, Places, Commands
<1>28. ASSUME NEW s \in PackageScripts, OpenPackage(s) PROVE Updating'
    BY <1>28 DEF PackagesInv, OpenPackage, Updating, Places, Commands
<1>29. ASSUME NEW o \in orphans, OrphanEnds(o) PROVE Updating'
    BY <1>29, OrphanStep DEF PackagesInv, OrphanOutcome, Updating, Known, Done
<1> QED BY <1>1, <1>2, <1>3, <1>4, <1>5, <1>6, <1>7, <1>8, <1>9, <1>10, <1>11, <1>12, <1>13,
       <1>14, <1>15, <1>16, <1>17, <1>18, <1>19, <1>20, <1>21, <1>22, <1>23, <1>24, <1>25,
       <1>26, <1>27, <1>28, <1>29 DEF Next, Session

\* What an installation has done.
LEMMA InstallingStep ==
    ASSUME PackagesInv, Next
    PROVE  Installing'
<1> USE One DEF diskVars, managerVars, updateVars, userVars, spawnVars, orphanVars, Step, Enter, At
<1>0. Installing
    BY DEF PackagesInv
<1>1. CASE Start
    BY <1>1 DEF PackagesInv, Start, Installing, Untouched, Places, Flags, Commands
<1>2. CASE Join
    BY <1>2 DEF PackagesInv, Join, Installing, Untouched, Places, Flags, Commands
<1>3. CASE SaveOpen
    BY <1>3 DEF PackagesInv, SaveOpen, Installing, Untouched, Places, Flags, Commands
<1>4. CASE SaveWrite
    BY <1>4 DEF PackagesInv, SaveWrite, Installing, Untouched, Places, Flags, Commands
<1>5. CASE Exit
    BY <1>5 DEF PackagesInv, Exit, Forget, Installing, Untouched, Places, Flags, Commands
<1>6. CASE BeginUpdate
    BY <1>6 DEF PackagesInv, BeginUpdate, Installing, Untouched, Places, Flags, Commands
<1>7. CASE ParseCatalogue
    BY <1>7 DEF PackagesInv, ParseCatalogue, Installing, Untouched, Places, Flags, Commands
<1>8. CASE EndUpdate
    BY <1>8 DEF PackagesInv, EndUpdate, Finish, Installing, Untouched, Places, Flags, Commands
<1>9. CASE BeginInstall
  <2>1. CASE pc' = "join"
      BY <1>9, <2>1 DEF BeginInstall, PackagesInv, Installing, Untouched, Places, Commands
  <2>2. CASE pc' # "join"
    <3>1. /\ pc' = "archive" /\ step' = "start" /\ ran = "install" /\ mResults = {}
          /\ chosen' \in remote /\ (local # 0 => chosen'.version > local)
          /\ UNCHANGED <<installed, local, ran, mResults>>
        BY <1>9, <2>2 DEF BeginInstall, PackagesInv, Places, Newer
    <3>2. chosen'.url # 0
        BY <3>1, IdTypes, VersionsType DEF PackagesInv, ManagerTypes
    <3>3. disturbed' = disturbed /\ (~disturbed => installed = local)
        BY <1>9, <3>1 DEF BeginInstall, PackagesInv, Installing, Untouched
    <3> QED BY <3>1, <3>2, <3>3 DEF Installing, Done
  <2> QED BY <2>1, <2>2
<1>10. CASE GetArchive
    BY <1>10 DEF PackagesInv, GetArchive, Terminate, Installing, Untouched, Done, Places, Commands
<1>11. CASE EndInstall
    BY <1>11 DEF PackagesInv, EndInstall, Installing, Untouched, Places, Flags, Commands
<1>12. CASE BeginSource
    BY <1>12 DEF PackagesInv, BeginSource, Finish, Installing, Untouched, Places, Flags, Commands
<1>13. CASE EndSource
    BY <1>13 DEF PackagesInv, EndSource, Finish, Installing, Untouched, Places, Flags, Commands
<1>14. CASE Search
    BY <1>14 DEF PackagesInv, Search, Finish, Installed, Installing, Untouched, Places, Flags,
       Commands
<1>15. CASE Show
    BY <1>15
       DEF PackagesInv, Show, Finish, Installed, Installing, Untouched, Places, Flags, Commands
<1>16. CASE NextCommand
    BY <1>16
       DEF PackagesInv, NextCommand, Terminate, Installing, Untouched, Places, Flags, Commands
<1>17. CASE ClosePackage
    BY <1>17 DEF PackagesInv, ClosePackage, Installing, Untouched, Places, Flags, Commands
<1>18. CASE Die
    BY <1>18 DEF PackagesInv, Die, Installing, Untouched, Places, Flags, Commands
<1>19. CASE Over
    BY <1>19 DEF PackagesInv, Over, vars, Installing, Untouched, Places, Flags, Commands
<1>20. ASSUME NEW c \in Commands, Launch(c) PROVE Installing'
  <2>1. child'[spawn] = "running"
      BY <1>20 DEF Launch, Fork, PackagesInv, SpawnTypeOK
  <2>2. ~Done' /\ pc' = pc /\ pc = c /\ step = "start" /\ step' = "run"
      BY <1>20, <2>1 DEF Launch, Done
  <2>3. Untouched' => Untouched
      BY <1>20, <2>2 DEF Launch, Untouched
  <2> QED BY <1>20, <2>2, <2>3 DEF PackagesInv, Launch, Installing
<1>21. ASSUME NEW c \in Commands, LaunchFails(c) PROVE Installing'
  <2>1. CASE pc' = "exit"
      BY <1>21, <2>1 DEF LaunchFails, Installing, Untouched, Commands
  <2>2. CASE ran # "package" /\ pc' # "exit"
    <3>1. failed' /\ pc' = pc /\ pc = c /\ step' = "end" /\ step = "start"
        BY <1>21, <2>2 DEF LaunchFails, Counts, Terminate
    <3> QED BY <1>21, <3>1 DEF LaunchFails, PackagesInv, Installing, Untouched
  <2>3. CASE ran = "package"
      BY <1>21, <2>3 DEF LaunchFails, Installing, Untouched
  <2> QED BY <2>1, <2>2, <2>3
<1>22. ASSUME NEW c \in Commands, Look(c) PROVE Installing'
  <2>1. LookOutcome(c) /\ pc' = pc /\ Installing
      BY <1>22, LookStep DEF LookOutcome, PackagesInv
  <2>2. Untouched' => Untouched
    <3>1. child'[spawn] = "running" => child[spawn] = "running"
        BY <2>1 DEF LookOutcome, PackagesInv, SpawnTypeOK
    <3> QED BY <2>1, <3>1 DEF LookOutcome, Untouched
  <2>3. ran = "install" /\ ~failed' => ~failed /\ (Done' => Done)
      BY <2>1, LookDone
  <2> QED BY <2>1, <2>2, <2>3 DEF LookOutcome, Installing
<1>23. ASSUME NEW c \in Commands, BuildArchive(c) PROVE Installing'
    BY <1>23 DEF PackagesInv, BuildArchive, Then, Installing, Untouched, Done, Places, Commands
<1>24. ASSUME NEW c \in Commands, CommandDone(c) PROVE Installing'
    BY <1>24 DEF PackagesInv, CommandDone, Installing, Untouched, Places, Flags, Commands
<1>25. ASSUME NEW c \in Commands, CommandEnds(c) PROVE Installing'
  <2>1. EndOutcome(c) /\ Installing /\ pc = c /\ pc' = c /\ step = "run" /\ step' = "run"
      BY <1>25, EndStep DEF PackagesInv, EndOutcome
  <2>2. ~Done /\ (Done' => code'[spawn] = "ok")
      BY <2>1 DEF EndOutcome, Done
  <2>3. Untouched' /\ ~disturbed => installed' = local'
    <3>1. Untouched' => c \notin {"make install", "remove package"} /\ Untouched
        BY <2>1 DEF EndOutcome, Untouched, PackagesInv, Places
    <3> QED BY <2>1, <3>1 DEF EndOutcome, Installing
  <2>4. ASSUME c = "archive", ran = "install", Done'
        PROVE  archive' = Broken \/ archive' >= chosen.version
    <3>1. archive' \in {published[chosen.url], Broken} /\ chosen.url # 0
        BY <2>1, <2>2, <2>4 DEF EndOutcome, Installing, Commands
    <3>2. chosen \in PackageIds /\ WasPublished(chosen)
        BY <3>1 DEF PackagesInv, UpdateTypes, LocalId, Published
    <3>3. chosen.url \in Urls /\ chosen.version \in Nat
        BY <3>2, IdTypes, VersionsType
    <3>4. published[chosen.url] \in Nat
        BY <3>3, NumberTypes
    <3> QED BY <3>1, <3>2, <3>3, <3>4 DEF WasPublished
  <2>5. ASSUME c = "untar", ran = "install", ~failed, ~disturbed, Done'
        PROVE  tree' >= chosen.version
      BY <2>1, <2>2, <2>5 DEF EndOutcome, Installing, Commands
  <2>6. ASSUME c = "make install", ran = "install", ~failed, ~disturbed, Done'
        PROVE  installed' >= chosen.version
      BY <2>1, <2>2, <2>6 DEF EndOutcome, Installing, Commands
  <2> QED BY <2>1, <2>2, <2>3, <2>4, <2>5, <2>6 DEF EndOutcome, Installing
<1>26. ASSUME NEW u \in Urls, Publish(u) PROVE Installing'
    BY <1>26 DEF PackagesInv, Publish, Installing, Untouched, Done, Places, Commands
<1>27. ASSUME NEW s \in RemoteScripts, OpenRemote(s) PROVE Installing'
    BY <1>27 DEF PackagesInv, OpenRemote, Installing, Untouched, Places, Flags, Commands
<1>28. ASSUME NEW s \in PackageScripts, OpenPackage(s) PROVE Installing'
    BY <1>28 DEF PackagesInv, OpenPackage, Installing, Untouched, Places, Flags, Commands
<1>29. ASSUME NEW o \in orphans, OrphanEnds(o) PROVE Installing'
    BY <1>29, OrphanStep DEF PackagesInv, OrphanOutcome, Installing, Untouched, Places, Commands
<1> QED BY <1>1, <1>2, <1>3, <1>4, <1>5, <1>6, <1>7, <1>8, <1>9, <1>10, <1>11, <1>12, <1>13,
       <1>14, <1>15, <1>16, <1>17, <1>18, <1>19, <1>20, <1>21, <1>22, <1>23, <1>24, <1>25,
       <1>26, <1>27, <1>28, <1>29 DEF Next, Session

\* What an update tells.
LEMMA UpdateCompleteStep ==
    ASSUME PackagesInv, Next
    PROVE  UpdateComplete'
<1> USE One DEF diskVars, managerVars, updateVars, userVars, spawnVars, orphanVars, Step, Enter, At
<1>0. UpdateComplete
    BY DEF PackagesInv
<1>1. CASE Start
    BY <1>1 DEF PackagesInv, Start, UpdateComplete, Places, Flags
<1>2. CASE Join
    BY <1>2 DEF PackagesInv, Join, UpdateComplete, Places, Flags
<1>3. CASE SaveOpen
    BY <1>3 DEF PackagesInv, SaveOpen, UpdateComplete, Places, Flags
<1>4. CASE SaveWrite
    BY <1>4 DEF PackagesInv, SaveWrite, UpdateComplete, Places, Flags
<1>5. CASE Exit
    BY <1>5 DEF PackagesInv, Exit, Forget, UpdateComplete, Places, Flags
<1>6. CASE BeginUpdate
    BY <1>6 DEF PackagesInv, BeginUpdate, UpdateComplete, Places, Flags
<1>7. CASE ParseCatalogue
    BY <1>7 DEF PackagesInv, ParseCatalogue, UpdateComplete, Places, Flags
<1>8. CASE EndUpdate
  <2>1. SUFFICES ASSUME ran = "update", ~mHasError, ~failed PROVE UpdateComplete'
      BY <1>8 DEF EndUpdate, UpdateComplete
  <2>2. url = NbUrls + 1 /\ 1..(url - 1) = Urls
      BY <1>8, PackagesAssumption DEF EndUpdate, PackagesInv, Updating, Urls
  <2>3. \A v \in Urls : Known(parsed, v)
      BY <1>8, <2>1, <2>2 DEF EndUpdate, PackagesInv, Updating
  <2>4. remote' = parsed /\ local' = local /\ before' = before
      BY <1>8 DEF EndUpdate
  <2>5. ASSUME local # 0, NEW v \in Urls, before[v] > local PROVE mResults' # {}
    <3>1. local \in Nat /\ before[v] \in Nat
        BY NumberTypes
    <3>2. PICK p \in parsed : p.version >= before[v]
        BY <2>3, <2>5, <3>1 DEF Known
    <3>3. p.version \in Nat
        BY IdTypes, VersionsType DEF PackagesInv, UpdateTypes
    <3>4. Newer(p)
        BY <2>5, <3>1, <3>2, <3>3 DEF Newer
    <3> QED BY <1>8, <2>5, <3>2, <3>4 DEF EndUpdate
  <2> QED BY <2>3, <2>4, <2>5 DEF UpdateComplete, Known
<1>9. CASE BeginInstall
    BY <1>9 DEF PackagesInv, BeginInstall, UpdateComplete, Places, Flags
<1>10. CASE GetArchive
    BY <1>10 DEF PackagesInv, GetArchive, Terminate, UpdateComplete, Places, Flags
<1>11. CASE EndInstall
    BY <1>11 DEF PackagesInv, EndInstall, UpdateComplete, Places, Flags
<1>12. CASE BeginSource
    BY <1>12 DEF PackagesInv, BeginSource, Finish, UpdateComplete, Places, Flags
<1>13. CASE EndSource
    BY <1>13 DEF PackagesInv, EndSource, Finish, UpdateComplete, Places, Flags
<1>14. CASE Search
    BY <1>14 DEF PackagesInv, Search, Finish, Installed, UpdateComplete, Places, Flags
<1>15. CASE Show
    BY <1>15 DEF PackagesInv, Show, Finish, Installed, UpdateComplete, Places, Flags
<1>16. CASE NextCommand
    BY <1>16 DEF PackagesInv, NextCommand, Terminate, UpdateComplete, Places, Flags
<1>17. CASE ClosePackage
    BY <1>17 DEF PackagesInv, ClosePackage, UpdateComplete, Places, Flags
<1>18. CASE Die
    BY <1>18 DEF PackagesInv, Die, UpdateComplete, Places, Flags
<1>19. CASE Over
    BY <1>19 DEF PackagesInv, Over, vars, UpdateComplete, Places, Flags
<1>20. ASSUME NEW c \in Commands, Launch(c) PROVE UpdateComplete'
    BY <1>20 DEF PackagesInv, Launch, Fork, UpdateComplete, Places, Flags
<1>21. ASSUME NEW c \in Commands, LaunchFails(c) PROVE UpdateComplete'
    BY <1>21 DEF PackagesInv, LaunchFails, Terminate, UpdateComplete, Places, Flags
<1>22. ASSUME NEW c \in Commands, Look(c) PROVE UpdateComplete'
    BY <1>22, LookStep DEF PackagesInv, LookOutcome, UpdateComplete, Places, Flags
<1>23. ASSUME NEW c \in Commands, BuildArchive(c) PROVE UpdateComplete'
    BY <1>23 DEF PackagesInv, BuildArchive, Then, UpdateComplete, Places, Flags
<1>24. ASSUME NEW c \in Commands, CommandDone(c) PROVE UpdateComplete'
    BY <1>24 DEF PackagesInv, CommandDone, UpdateComplete, Places, Flags
<1>25. ASSUME NEW c \in Commands, CommandEnds(c) PROVE UpdateComplete'
    BY <1>25, EndStep DEF PackagesInv, EndOutcome, UpdateComplete, Places, Flags
<1>26. ASSUME NEW u \in Urls, Publish(u) PROVE UpdateComplete'
    BY <1>26 DEF PackagesInv, Publish, UpdateComplete, Places, Flags
<1>27. ASSUME NEW s \in RemoteScripts, OpenRemote(s) PROVE UpdateComplete'
    BY <1>27 DEF PackagesInv, OpenRemote, UpdateComplete, Places, Flags
<1>28. ASSUME NEW s \in PackageScripts, OpenPackage(s) PROVE UpdateComplete'
    BY <1>28 DEF PackagesInv, OpenPackage, UpdateComplete, Places, Flags
<1>29. ASSUME NEW o \in orphans, OrphanEnds(o) PROVE UpdateComplete'
    BY <1>29, OrphanStep DEF PackagesInv, OrphanOutcome, UpdateComplete
<1> QED BY <1>1, <1>2, <1>3, <1>4, <1>5, <1>6, <1>7, <1>8, <1>9, <1>10, <1>11, <1>12, <1>13,
       <1>14, <1>15, <1>16, <1>17, <1>18, <1>19, <1>20, <1>21, <1>22, <1>23, <1>24, <1>25,
       <1>26, <1>27, <1>28, <1>29 DEF Next, Session

\* What an installation tells.
LEMMA SaidStep ==
    ASSUME PackagesInv, Next
    PROVE  Said'
<1> USE One DEF diskVars, managerVars, updateVars, userVars, spawnVars, orphanVars, Step, Enter, At
<1>0. Said
    BY DEF PackagesInv
<1>1. CASE Start
    BY <1>1 DEF PackagesInv, Start, Said, Installing, Places
<1>2. CASE Join
    BY <1>2 DEF PackagesInv, Join, Said, Installing, Places
<1>3. CASE SaveOpen
    BY <1>3 DEF PackagesInv, SaveOpen, Said, Installing, Places
<1>4. CASE SaveWrite
    BY <1>4 DEF PackagesInv, SaveWrite, Said, Installing, Places
<1>5. CASE Exit
    BY <1>5 DEF PackagesInv, Exit, Forget, Said, Installing, Places
<1>6. CASE BeginUpdate
    BY <1>6 DEF PackagesInv, BeginUpdate, Said, Installing, Places
<1>7. CASE ParseCatalogue
    BY <1>7 DEF PackagesInv, ParseCatalogue, Said, Installing, Places
<1>8. CASE EndUpdate
    BY <1>8 DEF PackagesInv, EndUpdate, Finish, Said, Installing, Places
<1>9. CASE BeginInstall
    BY <1>9 DEF PackagesInv, BeginInstall, Said, Installing, Places
<1>10. CASE GetArchive
    BY <1>10 DEF PackagesInv, GetArchive, Terminate, Said, Installing, Places
<1>11. CASE EndInstall
    BY <1>11 DEF PackagesInv, EndInstall, Said, Installing, Done, Commands
<1>12. CASE BeginSource
    BY <1>12 DEF PackagesInv, BeginSource, Finish, Said, Installing, Places
<1>13. CASE EndSource
    BY <1>13 DEF PackagesInv, EndSource, Finish, Said, Installing, Places
<1>14. CASE Search
    BY <1>14 DEF PackagesInv, Search, Finish, Installed, Said, Installing, Places
<1>15. CASE Show
    BY <1>15 DEF PackagesInv, Show, Finish, Installed, Said, Installing, Places
<1>16. CASE NextCommand
    BY <1>16 DEF PackagesInv, NextCommand, Terminate, Said, Installing, Places
<1>17. CASE ClosePackage
    BY <1>17 DEF PackagesInv, ClosePackage, Said, Installing, Places
<1>18. CASE Die
    BY <1>18 DEF PackagesInv, Die, Said, Installing, Places
<1>19. CASE Over
    BY <1>19 DEF PackagesInv, Over, vars, Said, Installing, Places
<1>20. ASSUME NEW c \in Commands, Launch(c) PROVE Said'
    BY <1>20 DEF PackagesInv, Launch, Fork, Said, Installing, Places
<1>21. ASSUME NEW c \in Commands, LaunchFails(c) PROVE Said'
    BY <1>21 DEF PackagesInv, LaunchFails, Terminate, Said, Installing, Places
<1>22. ASSUME NEW c \in Commands, Look(c) PROVE Said'
    BY <1>22, LookStep DEF PackagesInv, LookOutcome, Said, Installing, Places
<1>23. ASSUME NEW c \in Commands, BuildArchive(c) PROVE Said'
    BY <1>23 DEF PackagesInv, BuildArchive, Then, Said, Installing, Places
<1>24. ASSUME NEW c \in Commands, CommandDone(c) PROVE Said'
    BY <1>24 DEF PackagesInv, CommandDone, Said, Installing, Places
<1>25. ASSUME NEW c \in Commands, CommandEnds(c) PROVE Said'
    BY <1>25, EndStep DEF PackagesInv, EndOutcome, Said, Installing, Places
<1>26. ASSUME NEW u \in Urls, Publish(u) PROVE Said'
    BY <1>26 DEF PackagesInv, Publish, Said, Installing, Places
<1>27. ASSUME NEW s \in RemoteScripts, OpenRemote(s) PROVE Said'
    BY <1>27 DEF PackagesInv, OpenRemote, Said, Installing, Places
<1>28. ASSUME NEW s \in PackageScripts, OpenPackage(s) PROVE Said'
    BY <1>28 DEF PackagesInv, OpenPackage, Said, Installing, Places
<1>29. ASSUME NEW o \in orphans, OrphanEnds(o) PROVE Said'
    BY <1>29, OrphanStep DEF PackagesInv, OrphanOutcome, Said, Places
<1> QED BY <1>1, <1>2, <1>3, <1>4, <1>5, <1>6, <1>7, <1>8, <1>9, <1>10, <1>11, <1>12, <1>13,
       <1>14, <1>15, <1>16, <1>17, <1>18, <1>19, <1>20, <1>21, <1>22, <1>23, <1>24, <1>25,
       <1>26, <1>27, <1>28, <1>29 DEF Next, Session

-----------------------------------------------------------------------------
(* The theorems.                                                           *)

\* Nothing is there at the beginning.
LEMMA InitInv == Init => PackagesInv
<1> SUFFICES ASSUME Init PROVE PackagesInv
    OBVIOUS
<1>1. SpawnTypeOK /\ DiskTypes
    BY DEF Init, SpawnInit, SpawnTypeOK, Codes, DiskTypes
<1>2. ControlTypes /\ OrphanTypes
  <2>1. 0 \in 0..MaxSessions /\ 0 \in 0..MaxKills
      BY PackagesAssumption
  <2> QED BY <2>1 DEF Init, ControlTypes, OrphanTypes, Phases
<1>3. ManagerTypes /\ UpdateTypes
  <2>1. 1 \in 1..(NbUrls + 1)
      BY PackagesAssumption
  <2> QED BY <2>1 DEF Init, ManagerTypes, UpdateTypes
<1>4. Places /\ Flags /\ Child /\ Updating /\ Mode /\ UpdateComplete /\ Said
    BY DEF Init, Places, Flags, Child, Updating, Mode, UpdateComplete, Said, Commands
<1>5. Published
  <2>1. \A u \in Urls : published[u] = 0 /\ before[u] = 0 /\ Limit[u] \in Nat
      BY PackagesAssumption DEF Init, Urls
  <2>2. chosen.url = 0
      BY DEF Init, LocalId
  <2> QED BY <2>1, <2>2 DEF Init, Published
<1>6. Installing
    BY DEF Init, Installing, Untouched, Commands
<1> QED BY <1>1, <1>2, <1>3, <1>4, <1>5, <1>6 DEF PackagesInv

\* A step keeps the invariant.
LEMMA NextInv == PackagesInv /\ [Next]_vars => PackagesInv'
<1>1. CASE PackagesInv /\ Next
    BY <1>1, SpawnTypeOKStep, DiskTypesStep, ControlTypesStep, OrphanTypesStep, ManagerTypesStep, UpdateTypesStep,
       PlacesStep, FlagsStep, ChildStep, PublishedStep, UpdatingStep, InstallingStep, ModeStep,
       UpdateCompleteStep, SaidStep
    DEF PackagesInv
<1>2. CASE PackagesInv /\ UNCHANGED vars
  <2> USE <1>2 DEF vars, diskVars, managerVars, updateVars, userVars, spawnVars, orphanVars
  <2>1. (SpawnTypeOK /\ DiskTypes /\ ControlTypes /\ OrphanTypes /\ ManagerTypes /\ UpdateTypes)'
      BY DEF PackagesInv, SpawnTypeOK, DiskTypes, ControlTypes, OrphanTypes, ManagerTypes, UpdateTypes
  <2>2. (Places /\ Flags /\ Child)'
      BY DEF PackagesInv, Places, Flags, Child
  <2>3. (Published /\ Updating)'
      BY DEF PackagesInv, Published, WasPublished, Updating, Known, Done
  <2>4. (Installing /\ Mode)'
      BY DEF PackagesInv, Installing, Untouched, Done, Mode, Counts, Success
  <2>5. (UpdateComplete /\ Said)'
      BY DEF PackagesInv, UpdateComplete, Said
  <2> QED BY <2>1, <2>2, <2>3, <2>4, <2>5 DEF PackagesInv
<1> QED BY <1>1, <1>2

\* The inductive invariant holds.
THEOREM PackagesCorrect == Spec => []PackagesInv
BY InitInv, NextInv, PTL DEF Spec

\* The catalogue, in memory and in the file, holds nothing that its server did
\* not publish, whatever was killed while save rewrote it; and an update that
\* met no failure is complete (actionUpdate, save).
THEOREM CatalogueIsSound == Spec => []CatalogueSound
<1>1. PackagesInv => CatalogueSound
  <2> SUFFICES ASSUME PackagesInv PROVE CatalogueSound
      OBVIOUS
  <2>1. TypeOK
      BY DEF PackagesInv, TypeOK, DiskTypes, ControlTypes, OrphanTypes, ManagerTypes, UpdateTypes
  <2>2. CatalogueTrue
      BY DEF PackagesInv, Published, WasPublished, CatalogueTrue
  <2> QED BY <2>1, <2>2 DEF CatalogueSound, PackagesInv
<1> QED BY <1>1, PackagesCorrect, PTL

\* An installation whose commands do not fail installed at least the version
\* that its results tell, if no command of a killed session ends meanwhile
\* (actionInstall).
THEOREM InstallationTrue == Spec => []InstalledAsSaid
<1>1. PackagesInv => InstalledAsSaid
    BY DEF PackagesInv, Said, InstalledAsSaid
<1> QED BY <1>1, PackagesCorrect, PTL

\* The -P mode returns success only when nothing it was asked for failed
\* (manage_package_mode).
THEOREM PackageModeIsHonest == Spec => []PackageModeHonest
<1>1. PackagesInv => PackageModeHonest
    BY DEF PackagesInv, Mode, PackageModeHonest
<1> QED BY <1>1, PackagesCorrect, PTL

\* Only the end of a make install or of a removal changes what is installed.
LEMMA InstalledChanges ==
    ASSUME PackagesInv, Next, installed' # installed
    PROVE  \/ \E c \in {"make install", "remove package"} : CommandEnds(c)
           \/ \E o \in orphans : OrphanEnds(o)
<1> USE DEF diskVars
<1>1. CASE Session
  <2>1. ASSUME NEW c \in Commands,
               Launch(c) \/ LaunchFails(c) \/ Look(c) \/ BuildArchive(c) \/ CommandDone(c)
        PROVE  FALSE
      BY <2>1 DEF Launch, LaunchFails, Look, BuildArchive, CommandDone
  <2> QED
    BY <1>1, <2>1
       DEF Session, Start, Join, SaveOpen, SaveWrite, Exit, BeginUpdate, ParseCatalogue,
       EndUpdate, BeginInstall, GetArchive, EndInstall, BeginSource, EndSource, Search, Show,
       NextCommand, ClosePackage
<1>2. ASSUME NEW c \in Commands, CommandEnds(c) PROVE c \in {"make install", "remove package"}
    BY <1>2, EndStep DEF EndOutcome
<1> QED BY <1>1, <1>2 DEF Next, Publish, OpenRemote, OpenPackage, Die, Over, vars

\* A version that is more recent, or the first one.
LEMMA AtLeast ==
    ASSUME NEW a \in Nat, NEW b \in Nat, NEW v \in Nat, a >= v, b # 0 => v > b
    PROVE  a >= b
OBVIOUS

\* What a step may do to the installed package.
Advance ==
    \/ installed' >= installed
    \/ failed \/ disturbed \/ ran = "package"
    \/ orphans' # orphans

\* An installation installs a version that is more recent than the one that
\* was there.
LEMMA AdvanceStep ==
    ASSUME PackagesInv, [Next]_vars
    PROVE  Advance
<1> USE DEF Advance
<1>1. installed \in Nat
  <2>1. installed \in {0} \cup Versions
      BY DEF PackagesInv, DiskTypes
  <2> QED BY <2>1, VersionsType
<1>2. CASE installed' = installed
    BY <1>1, <1>2
<1>3. CASE installed' # installed /\ ran # "package" /\ ~failed /\ ~disturbed /\ orphans' = orphans
  <2>1. Next
      BY <1>3 DEF vars, diskVars
  <2>2. PICK c \in {"make install", "remove package"} : CommandEnds(c)
    <3>1. \A o \in orphans : ~OrphanEnds(o)
        BY <1>3, OrphanStep DEF OrphanOutcome
    <3> QED BY <1>3, <2>1, <3>1, InstalledChanges
  <2>3. EndOutcome(c)
      BY <2>2, EndStep DEF Commands
  <2>4. c = "make install" /\ pc = c /\ ran = "install" /\ step = "run" /\ child[spawn] = "running"
      BY <1>3, <2>3 DEF EndOutcome, At, PackagesInv, Places
  <2>5. installed' = tree /\ tree >= chosen.version /\ installed = local
        /\ (local # 0 => chosen.version > local) /\ chosen.url # 0
      BY <1>3, <2>3, <2>4 DEF EndOutcome, PackagesInv, Installing, Untouched, Commands
  <2>6. chosen.version \in Nat /\ tree \in Nat
      BY <2>5, ChosenType
  <2>7. tree >= local
    <3>1. local \in Nat
        BY NumberTypes
    <3> QED BY <2>5, <2>6, <3>1, AtLeast
  <2> QED BY <2>5, <2>7
<1> QED BY <1>2, <1>3

\* No package is replaced by an older one, by an installation whose commands
\* do not fail, if no command of a killed session ends meanwhile.
THEOREM InstallationsAdvance == Spec => NoDowngrade
<1>1. PackagesInv /\ [Next]_vars => [Advance]_vars
    BY AdvanceStep
<1> QED BY <1>1, PackagesCorrect, PTL DEF Spec, NoDowngrade, Advance

=============================================================================
