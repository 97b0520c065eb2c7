# adsys: TLA+ specifications

`adsys` enforces Active Directory group policies on Ubuntu clients. `adsysd` is a
gRPC daemon that fetches GPOs from SYSVOL over SMB, parses them and hands their rules
to managers (dconf, scripts, privileges, mounts, apparmor, proxy, certificates, gdm).
`adwatchd` runs beside the AD server and bumps the version of GPOs whose files
change, so that clients download them again. What makes both hard is not the amount
of data but who does what when: requests, refreshes, timers, reloads of the
configuration, sessions and systemd units share locks, channels and files.

This directory holds TLA+ models of those parts, the configurations that check them
with TLC, and proofs for TLAPS. `PROJECT.json` maps every definition to the lines it
models and lists runs, hazards, findings, mutants and theorems.

    tlc -workers 2 -config Daemon.cfg MCDaemon
    for m in SmbSafe Daemon AD PolicyManager Scripts Managers Watcher Request; do
      tlapm ${m}Proofs.tla
    done

## Inventory

| Component | State | Operations | Who it meets | What makes it correct |
|---|---|---|---|---|
| smbsafe arbiter | mode, number of holders, pending requests | WaitSmb, DoneSmb, WaitExec, DoneExec | every goroutine that downloads or runs a command | no command is waited for while libsmbclient owns SIGCHLD; nested requests do not deadlock |
| daemon, idler, connection notifier | gRPC server, channel of listeners, idle timer, count of requests | Listen, UseSocket, Quit, ChangeTimeout, per-stream callbacks | client requests, signals, configuration watcher | timer tracks requests; quit ends the daemon; a graceful quit drops nothing; a new socket is served |
| AD client | SYSVOL cache, assets and their archive, per-GPO and AD locks | GetPolicies: list, fetch, parse, pack, open | other calls, AD server, crashes | fresh GPOs, nothing parsed while it is replaced, archive follows the assets, no deadlock |
| Kerberos ticket cache | tracking symlink, copy of the ticket | ensureKrb5CCSymlink, ensureKrb5CCCopy | login sessions that renew and destroy tickets | the copy is the tracked ticket |
| policy manager and cache | per-object mutexes, policies file and assets on disk, what each manager has in force | ApplyPolicies, Save, NewFromCache | concurrent updates, managers, crashes | cache is what was applied; bad templates fail closed; gdm after dconf |
| rule merging | - | GetUniqueRules | policy manager | closest GPO wins, appended values in order |
| scripts manager | a directory with two flag files | ApplyPolicy, RunScripts | daemon against the processes of a session, systemd | only complete scripts run, one version per session, older ones are gone once an update got to work |
| watcher, adwatchd service | command channel, watch loops, refresh timer, modified directories | Start, Stop, UpdateDirs | service manager, configuration watcher, file events | one loop, no lost change, calls return |
| registry files | what the decoder remembers of a container | DecodePolicy, the loop of parseGPO | GetPolicies | a policy yields its own rule and none of its neighbours' state |
| dconf manager | default and lock files, profiles, compiled databases | ApplyPolicy, `dconf update` | machine, users and gdm side by side | a policy reported as applied is compiled |
| mount manager | unit files, state of systemd, the user's file of mounts | ApplyPolicy, `adsysd mount` | systemd, GIO | systemd has the units of the policy; every mount is reported |
| apparmor manager | three directories, files of users, profiles in the kernel | ApplyPolicy | apparmor_parser | all or nothing in the files, no profile in the kernel without its file |
| privilege manager | one file for sudo, one for polkit in two formats | ApplyPolicy | rules of the distribution | both give root to the same people |
| certificate manager | cache of the script, enrolments | ApplyPolicy, the enrolment script | certmonger, a timeout | enrolled as the policy says, after a killed script too, but for what was cut off or refused |
| proxy, gdm managers | - (one call each) | ApplyPolicy | policy manager | an error is reported |
| client, contextidler, authorizer, service | arguments, idle timer, stream of messages, authorisation | update, purge, applied, status, stop | polkit, the AD client, the policy manager | success means done; only what was authorised; the client ends |
| stdforward, log forwarder | pipes, writers and their lock; listeners and the caller flag | Cat, Write, log calls | every request that prints or logs | a listener misses nothing; a call ends |
| adwatchd form and commands | the form, configuration files, the service | submit, install, start, stop, restart, uninstall | service manager, service of an earlier installation | only valid forms; success is one |
| ADMX generator, backends, configuration, PAM | - | formats, queries, one command | - | - |

## Modules

One module per component. The `MC*` modules add the values of a run's constants and its
symmetry set. `ADClient`, `Managers`, `Requests` and `Adwatchd` put the components of one
part of the system together and state the assumptions on their constants; the theorems
about those components are theorems of the composed specification. The components share no
variable, so an interleaving of two of them shows nothing that each of them alone does
not: a variable `focus` chooses the one that moves, and their state spaces add up instead
of multiplying. Components that do share state are composed inside one module (sessions
and updates in Scripts, the form and the commands in Installer, client and handler in
Request).

**ModeLock, SmbSafe, SmbSafeProofs** (`internal/smbsafe`, its uses in `internal/ad`).
`ModeLock` is the promise: requests are held in one mode at a time. `SmbSafe` is the
arbiter goroutine with its unbuffered channels: `Ask` is a goroutine blocked in
`WaitSmb`/`WaitExec`, `Grant` the rendezvous, `Return` the matching `Done*`,
`AskNested` the request that `downloadDir` makes inside the one of `GetPolicies`.
`SmbCall` is libsmbclient installing its SIGCHLD handler, `RestoreSigchild` the
arbiter putting Go's back when the last request is returned.

**Daemon** (`internal/daemon`, `connectionnotify`, the reload handler of
`cmd/adsysd/daemon`). Five kinds of goroutine: Listen (`Listen*`), the timer's loop
(`Receive`, `IdleExpired`, `Loop*`), streams (`NewStream` to `StreamSend`), Quit callers
(`CallQuit`, `QuitOnce`, `QuitSend`), the configuration watcher (`Reload`, `UseSocket*`,
`ChangeTimeout*`). A send on the unbuffered operations channel is a rendezvous with the
loop; `sendOrTimeout` gives up exactly when the loop is not in its select. Timers are
those of Go 1.23 and later (`go.mod`), where `Stop` is false only for a timer that is
stopped or whose expiry was received. A panic ends the process (`crashed`).

**AD** (`internal/ad`: `GetPolicies`, `fetch`, `downloadDir`, `parseGPOs`;
`CompressAssets` of `internal/policies`). A directory is the version of its GPT.INI,
an archive the version packed in it. Downloads of one call run in parallel, each under
the mutex of its document; parsing and packing run in parallel too.

**Krb5Cache** (`ensureKrb5CCSymlink`, `ensureKrb5CCCopy`, `safeCopyFile`). A ticket is
its mtime. Renewal and destruction by sessions are external.

**ObjectUpdates, PolicyManager** (`updatePolicyFor`, `internal/policies`).
`ObjectUpdates` is the promise of `ApplyPolicies` to its callers: object by object, one
version is applied at a time, what is in force comes from the update under way, the cache
is written only then, and an update that went well leaves the two agreeing.
`PolicyManager` is how the code keeps it: updates online, offline or
purging; the mutex of the map and those of the objects; `Prepare` (Pro filtering, dynamic
values, among them those only a user's policy may use), one goroutine per manager, `Wait`,
gdm, and `Save` file by file. A manager is a step that succeeds, or fails having done its
work or not. In the mapping, the version being applied for an object is that of the
`Policies` of the update that holds its mutex.

**UniqueRules** (`GetUniqueRules`). The loop of the code, a step per entry, against a
reference that says directly what the merged rule of a key is (`IsReference`, field by
field). `sort.Strings` is a relation: the result is a sorting of the keys (`Sortings`).

**Registry** (`DecodePolicy`, the loop of `parseGPO`). The input is what the
administrator set, policy by policy; `readPolicy` is the retry with a larger buffer,
`DecodeEntry` treats one entry with what the decoder remembers of the last container,
`ParseEntry` turns entries into rules of the current release. The flat lists of entries are
kept in segments, one for each policy, and the place of the loop is a segment and a
position in it: which policy an entry belongs to is then known without counting.

**Scripts** (`internal/policies/scripts`, `StartUnit`). One object's directory: the
daemon's steps against the `Run*` steps of the unit's processes. An update of a user whose
lookup fails returns before it has touched anything (`LookupFails`); one that gets past
the session flag removes the directory (`Replace`, `ApplyRemove`) before it writes it
anew. What systemd does with the units is read from `systemd/*.service` and external.

**Dconf, Mount, AppArmor, Privilege, Certificate** (`internal/policies/<manager>`). Each
models `ApplyPolicy` step by step over sequences of policies, next to the state of the
program it drives: databases compiled by dconf, units known to systemd, profiles in the
kernel, what sudo and polkit grant, enrolments of certmonger. A fault is a command that
fails, a script that is killed or a crash of the daemon between two steps; what it
leaves behind is what the next call finds. Mount also has the command that mounts a
user's locations in parallel in a session. AppArmor unloads what the files on disk
declare and the kernel has (`declared`), and no more. Certificate includes the part of the
vendored `gp_cert_auto_enroll_ext.py` that decides what is undone: an authority is asked
for at certmonger (`Getcert`), then recorded (`Record`); one that fails is warned about and
passed over (`EnrollFails`), one that certmonger refuses is recorded as if applied; removal
is the same in reverse (`RemoveCA`, `Forget`). The script may be killed between any two of
these steps. Only Dconf has calls that run side by side
(users; the machine excludes them), the others are serialised by a mutex or by there
being one machine.

**Request** (`cmd/adsysd/client`, `contextidler`, `logstreamer`, `authorizer`,
`adsysservice`). One command from its arguments to its exit. The client checks the
arguments, starts its idle timer (`Tick`, `Recv`, `RecvEnd`) and reads messages; the
handler normalises the name (one without a domain is completed with the default one, and
is then perhaps another account: `Target`), authorises by uid, updates the machine, lists
and updates the users, and streams logs ahead of its answer. Either may be slow at any
step, the user may interrupt.

**Cat, LogStream** (`stdforward`, `Cat` of the service, `logstreamer`). Listeners come
and go while the daemon prints and logs. A pipe and its copying goroutine are made anew
at each initialisation of the forwarder; the lock held across the wait for that
goroutine is explicit.

**Watcher** (`internal/watcher`, `UpdateDirs` of `watchdservice`, the reload of
`cmd/adwatchd`). The service manager and the reload as callers of the command
goroutine, which owns at most one watch loop it knows of; each start makes a new loop
with a context derived from the previous one.

**WatchdService, Installer** (`watchdservice`, `watchdtui`, `cmd/adwatchd/commands`). A
command asks the service manager, which complies later or never, and polls until the
state is reached or time is up. The form starts with one field for each directory of the
file it was given, of the one of the installed service, or of any it found; the directories
may be gone, or vanish later. It handles keys while the goroutines of its submissions write
the configuration and install the service.

## Abstractions

- Content is a version number. A policy, an archive or the scripts of an update are
  told apart, never looked into. Each update of the scripts has a version of its own.
- Operations on the local disk do not fail by themselves, but for the files of the
  installer and the renames of Privilege; network operations, managers, lookups of users,
  script dumps and the watching of a directory do. In Scripts `RemoveAll` deletes file by
  file; in AD it is one step, under the locks: a crash in the middle leaves a GPT.INI that
  is missing or older than the one on AD, and either way the directory is downloaded again.
- A policies file cut short reads as the empty policy, which is what the YAML decoder
  makes of an empty file.
- Assets deleted on AD are not put back, so that a version number is used once.
- The failures of `fsnotify.NewWatcher` and of the watch of a directory are one.
- A boolean or integer of dconf has a few spellings, a user name a few forms, a location
  of a mount a protocol, a share and a tag: the cases the code tells apart.
- Left out: an `os.Pipe` that fails when the forwarder is initialised
  (`stdforward.go:84-103`), after which listeners get nothing; a malformed GPT.INI, whose
  version `adwatchd` cannot bump and only logs; the file events that the watch loop skips
  (its own GPT.INI, renames, files that are gone).
- A GPT.INI without a version counts as 0 in the code, and as missing in AD.
- Polkit's answer, the service manager, apparmor_parser, GIO and certmonger are
  external: they comply or refuse.
- The wording of messages, translations and formatting are left out.

Every unbounded counter has a constant that bounds it (`Max*`).

## Runs

Deadlock checking is off everywhere: the bounds let every model come to rest.
Absence of deadlock is stated instead (`LocksAreSound`, `UpdatesCanProceed`, and the
liveness properties of SmbSafe, Daemon, Watcher, Request and Cat). The two invariants
name what a step waits for (`CanWork`, `CanProceed`: a free lock, a document that no
reader holds) rather than use `ENABLED`, so that they can be proved.

| Run | Instance | States | What it shows |
|---|---|---|---|
| `smbsafe` | 3 goroutines, 2 calls each | 7 thousand | The inductive invariant; no command under Samba's handler; refinement of ModeLock; nested requests and commands are served |
| `daemon` | 2 streams, a client quitting, 1 reload of socket and timeout | 270 thousand | Timer, panic, graceful quit, quit and reload progress |
| `ad` | 2 calls at a time, 3 in all, 1 GPO and the assets, 2 versions, 1 failure, 1 crash; 2 tickets, 5 changes; 3 policies in a registry file; 4 entries of 2 types and 2 keys | 2.1 million | Freshness, locking, archive, no deadlock; the ticket's copy; rules as they were meant; the merge against its reference |
| `policy` | 2 updates at a time, 3 in all, machine and a user, 3 versions (one invalid, one for users only, one invalid under Pro), 1 failure, 1 crash | 2.0 million | Cache, templates, assets, gdm order, no deadlock; refinement of ObjectUpdates |
| `managers` | scripts: 3 updates, 2 sessions; the others: 4 updates, 1 fault, 2 users, 2 profiles, 2 authorities | 2.4 million | Files and the system agree, manager by manager; each of the five properties contains the types of its manager |
| `adwatchd` | 2 directories, 2 reloads, 2 changes, 1 directory that cannot be watched; a form of up to 2 fields, filled in from any old file, with a directory that is there and one that is gone, 2 submissions, 2 commands, 1 refusal | 313 thousand | One loop, flush, progress; valid forms, true successes |
| `requests` | every combination of options; accounts `u`, short for `u@d`, and `h`, which is the name of the machine and becomes the other account `h@d` in the default domain; timeout of 2 ticks, 1 log; 2 listeners, 2 prints or logs | 288 thousand | Success means done, authorisation, the client ends; listeners miss nothing and leave |

Why the bounds are enough: two actors are what each race needs (a third goroutine in
SmbSafe lets one mode have two holders while the other mode waits); two versions tell
old from new, and in Scripts a third update lets one race, one fail and one succeed;
one failure and one crash can hit any step, and a later call finds what they left. Four
updates of a manager are a policy, a change, the fault and the repair. Three policies
of a registry file are one that leaks, one that is in between and one that is hit.

Five runs show that a statement of the repository does not hold of the code:

- `daemon_idle_quit`: a stream that opens after the idle timer's expiry was received and
  before the quit it triggers is, makes the loop drain a timer that will never fire
  again (`idler.go:59`). The quit times out and the daemon stays.
- `policy_cache_crash`: `Save` truncates and then writes; a crash in between leaves an
  empty policy for the next offline update, where the documentation promises a failure.
- `scripts_session`: `ApplyPolicy` may look for the session flag just before RunScripts
  creates it, and then replaces the scripts of that session.
- `watcher_stop`: after a directory that cannot be watched, the loop blocks on a second
  answer that nobody reads, and `Stop` waits for it.
- `cat_remove`: the last listener to leave holds the forwarder's lock while it waits for
  the copying goroutine, which needs the lock to forward what was printed last
  (`stdforward.go:117`, `:39`). The call of the listener never ends.

The passing properties say what remains true, with the disturbance in their hypothesis
(`QuitStopsUndisturbedServer`, `UndisturbedReadIsSavedPolicies`,
`UnracedSessionKeepsVersion`, `CallsReturnUnlessHung`, `CopyIsCurrentUndisturbed`,
`QuietRemoveReturns`). The properties of the managers and of requests except, in the same
way, what the code does not repair; the exceptions are history variables or named
predicates, and nothing else is excused:

- `lost` (Dconf): a failed compilation, or one cut by a crash, that no later call repeats
  because the files did not change;
- `interrupted`, `unstopped` (Mount): units whose call ended between their file and
  systemd, or that could not be stopped;
- `orphans`, `missed` (AppArmor): profiles that a crash or a partial load left without a
  file; users whose hats a crash, a load that failed midway or a partial unload left
  different from their file. A hat whose file was removed that way stays loaded: no later
  call declares it;
- `skipped`, `refused`, `stray`, `hollow` (Certificate): authorities the script warned
  about, those certmonger refused, enrolments cut off between certmonger and the cache or
  that could not be removed, and removals cut off before the record was;
- `torn`, `killed`, `raced` (Scripts): a daemon killed inside `RemoveAll`, a session killed
  before its logoff scripts, and the race that `scripts_session` shows;
- `torn` (Privilege): a call that ends between the two renames or the two removals, or an
  upgrade of polkit, until the next successful update;
- `rearmed`, `interrupted` (Request): a message that arrives as the timer expires, after
  which the client takes its own cancellation for the user's and exits with success;
- `Disabling` (Registry): a certificate key after a disabled container, which must then be
  disabled with it;
- a registry file with an entry past the largest buffer, which counts as empty.

Other disagreements met while modelling, reachable in the models with other constants: a
request cut by an idle quit already under way; a timeout changed during a request (same
drain as above: `QuitStopsServer` fails with `InitTimeout = "zero"` and `NewTimeouts =
{"max"}`, where no timer expires); a reload to timeout 0, which expires at once; two
reloads in a row, the second unserved; a reload after Quit, which panics; a reload pending
when Quit is called, served after it; assets refreshed by a fetch that failed elsewhere,
and never packed; an old archive attached while another call is about to pack a new one; a
network error on the assets' GPT.INI taken for their absence; an archive truncated by a
crash; a manager's failure leaving the others with the new policy; offline rules saved
beside another update's assets; a ticket older than the copy of another session's ticket,
or renewed while it was copied; a session flag left behind by a raced update; a scripts
directory still ready but half removed, after a crash inside `RemoveAll`; directories
bumped again by every later change; a reload before the first Start, which leaks a loop; a
form submitted twice, whose two installations race; the error of `dconf update`, assigned
and then dropped by a `return nil`; apparmor profiles that a failed update had unloaded
and does not load again with the files it puts back; an authority that certmonger refused,
recorded as applied and never asked again.

Some hazards are exactly such an exception. `PROJECT.json` lists them without a property,
with a note that says which property excuses them and what it shows all the same.

## Fairness

Weak fairness of each goroutine's steps: the Go scheduler runs a goroutine that can
proceed. `Daemon` adds that handlers return and finite timers expire, `Watcher` that the
refresh timer does, `SmbSafe` that a request held is returned. In `requests` the client's
goroutines and timer run and the daemon's handler may hang anywhere: `ClientEnds` owes
nothing to the daemon. The listeners' calls and the copying goroutines run. Users, signals, the
administrator, the service manager and the files are under no fairness. `RequestsServed`
holds because the calls are finitely many: with downloads that never pause the arbiter
starves commands, by design.

## Proofs

Eight modules hold proofs, for every value of the constants: any number of processes,
users, policies, GPOs, faults and crashes. Each follows one scheme. The property is not
inductive, so the module defines the invariant that is (a conjunction of named parts,
type correctness among them), which TLC checked on the instance of the run first; one
lemma per action shows that it is preserved; the theorems follow. What the parts add to
the properties is the argument why the code is right:

- **SmbSafeProofs** (`Inductive`, `ExecIsSafe`, `Refinement`). The arbiter's counter is
  the number of requests out, all of its mode, and a nested request is made only by a
  goroutine that holds smb mode. The mode lock is implemented under the mapping of held
  requests. Counting lemmas on finite sets carry the cardinality steps.
- **DaemonProofs** (`TimerFollowsRequests`, `QuitSafety`). The idler's counter is the
  number of streams between the two halves of the notifier (`CountInv`), its mutex is
  held exactly by who sends on its channel (`MutexInv`), so between two holders timer and
  counter agree (`TimerInv`); whoever closes the channels is the quitter recorded first
  (`QuitInv`).
- **ADProofs** (`FreshPolicies`, `ArchiveSoundness`, `TicketIsCurrent`, `LockSoundness`,
  `MergeSoundness`, `RegistrySoundness`). Fetch and
  compression exclude each other by the AD lock, a directory has one writer kept away by
  its readers, and what a call asked for stays in the cache or in the copy about to be
  renamed until the call is over (`CacheInv`); without failures some call owes the archive
  a compression whenever it differs (`ArchiveInv`). For the ticket: the one the symlink
  points to is the one copied, or newer than the copy, as long as nothing in the
  property's exception happened (`CopyInv`). No deadlock: the AD lock is held by a call
  that fetches or packs and by no other (`LockInv`), the one that packs waits for nothing,
  and the one that fetches waits for readers, which wait for nothing.
  The merge: after each entry, what is kept for a key is the reference of the entries so
  far (`MergeInv`); one more entry leaves the reference of a key alone, starts it or joins
  it (`ReferenceKept`, `ReferenceFresh`, `ReferenceJoined`). A registry file, in three
  stages (`RegistryInv`): before the place of the decoder each segment holds the entries
  of its policy, and what the decoder remembers is the state of the last container
  (`DecodeInv`); before the place of the parser each policy has its rule, the override
  is that of the policy in hand, and the last rule has its final value once its segment is
  over (`RulesInv`).
- **PolicyManagerProofs** (`CacheSoundness`, `TemplatesFailClosed`, `GdmComesLast`,
  `ReadsAreSaved`, `DeadlockFreedom`, `Serialisation`). From the per-object mutex
  (`LockInv`): the rules of a call passed expansion (`RulesInv`), what its managers
  reported done is in force (`ProgressInv`), and the file holds something that was saved
  unless a call is between truncation and write (`FileInv`). `GdmComesLast` and
  `ReadsAreSaved` are action properties. No deadlock: the holder of the mutex of the map
  waits for that of an object at most, whose holder waits for no mutex. `Serialisation` is
  the refinement of ObjectUpdates: the lock of an object begins an update, a manager
  enforces its version, or nothing for want of Pro, `Save` finds it in force, the unlock
  ends it, and all other steps are hidden.
- **ScriptsProofs** (`Inductive`, `ReadyIsComplete`, `SessionIsTransactional`,
  `OlderScriptsGo`, `FlagIsASession`). `PrepareInv` says what each step of
  `ApplyPolicy` finds, and that a ready directory is the one of the last update that got
  as far as the removal; `SessionInv` that a session which was not raced has a ready
  directory that no update is changing, the version it started with.
- **ManagersProofs** (`EnrollmentIsRight`, `DconfInForce`, `PrivilegesAgree`,
  `ProfilesFollowFiles`, `MountsFollowPolicies`). The certificate script makes its cache
  first and removes it last, and in between an enrolment is in the cache, in hand or one of
  the named exceptions; a dconf database is fresh or its writer has noted a change;
  privilege files agree before the first rename and after the second; apparmor's old
  directory covers all that is loaded until the new one does, and a hat without its file is
  one of a user in `missed`; a unit is in force unless a
  call has it in hand or left it half way, and the mount command has one answer per mount.
  Each theorem states the types of its manager too.
- **WatcherProofs** (`LoopsHandOver`, `FormsAreValid`, `SuccessIsReached`). Every start
  finds a loop to run (`CountInv`), without a running timer there is nothing to bump
  (`LoopInv`), only the loop of `watching` watches unless a reload came early
  (`AloneInv`). In the form a field with a directory that was never there is filled in
  and not reached yet, or has the focus and shows the error, so that none is behind it
  (`FieldsInv`); the form and the commands exclude each other (`CliInv`);
  a submission that is alone finds the service as its previous step left it
  (`FirstJobInv`).
- **RequestProofs** (`Authorization`, `SuccessIsDone`, `ListenersGetAll`,
  `RequestTypes`). Nothing is done before the grant (`AuthInv`), an update without an
  error so far has done all but what is pending (`UpdateInv`), and an "ok" on the wire
  stands for it (`WireInv`). A forwarder is captured while it has listeners, its goroutine
  is the last one started (`ForwarderInv`).

In the composed modules a step of one component leaves the others alone
(`ManagersAreApart`, and a step of each `Invariance` lemma), so an invariant of a
component is one of the composition.

Assumptions. Each is an `ASSUME` of a module that a run extends, so TLC evaluates it on
the instance it checks: bounds are natural numbers, names that stand for nobody or nothing
are no member of the sets they extend, finitely many streams and listeners, at least one
version. Those of `ADClient`: the bound of the scanner and that of the entries are natural
numbers, and the keys of rules are numbered in their order. Those of `Managers`: there is
a dconf policy; `EntriesAreFiles` (entries and assets are names of files);
`LocksAreFiles`; `SystemIsApart` (the system has administrators of its own, and policies
name others); `ValuesAreParsed` (`parseEntryValues` returns values of its policy, each
once: its sort would need induction over sequences). Those of `Requests`: `OutputsAreTwo`;
of `Adwatchd`: `InstallerSetUp`.

Attempted proofs changed the models: overlapping guards of `CASE`, whose
value TLA+ leaves open and TLC picks (Watcher, Certificate, Registry), became disjoint;
Registry counts its entries policy by policy and UniqueRules compares rules field by field,
both with properties that say more than before (a shadowed certificate key must be
disabled, and nothing else may be);
AppArmor's history `missed` excused too little once two faults hit one user, which TLC
confirmed with `MaxFaults = 2`; the properties of Mount were joined so that a theorem
covers all that its run checks.

Every invariant and every action property that a run checks is a theorem. Model-checked
only are the properties of liveness under fairness, which are out of the prover's reach:
`RequestsServed` (smbsafe), `QuitStopsUndisturbedServer` and `ReloadServesNewSocket`
(daemon), `CallsReturnUnlessHung` and `ChangesAreBumped` (adwatchd), `ClientEnds` and
`QuietRemoveReturns` (requests).

## Not modelled

- The ADMX generator, generated gRPC code, test helpers, end-to-end tests: not part of
  the running system.
- The identity backends, the configuration, the D-Bus wrappers: stateless queries, whose
  answers are inputs of the modelled steps.
- The proxy manager: one D-Bus call, a step that may fail in PolicyManager. GDM: a call of
  the dconf manager, of which PolicyManager keeps the order.
- The PAM module: runs the client once and reports its exit code.
- Views of the terminal interface, documentation and completion commands, formatting of
  answers: no state.

`PROJECT.json` gives the status component by component.

## Plan

1. Done: arbiter, daemon, AD client, ticket cache, registry files, rule merging, policy
   manager, all managers with state, watcher, adwatchd's service and form, requests,
   output and log listeners. Two abstract specifications (`ModeLock`, `ObjectUpdates`), each
   with its refinement checked and proved. Every safety property proved.
2. Composition of AD and PolicyManager, for the age of concurrent answers of one object.
3. A transactional session as an abstract specification, implemented by Scripts without
   races.
