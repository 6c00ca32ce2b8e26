----------------------------- MODULE Deployment -----------------------------
(***************************************************************************)
(* How a fleet is put on a host, changed and updated: `vmfleet install`    *)
(* [--upgrade] and `scale` (src/src/commands.rs), `self-update`            *)
(* (src/src/selfupdate.rs), and what they mean to the supervisor, which    *)
(* reads its configuration and its binary once, when systemd starts it,    *)
(* and looks for newer releases in the background.  Installer, updater and *)
(* scaler are separate processes of the operator and share only files: the *)
(* configuration, written in place, and the installed binary, replaced by  *)
(* a rename.  One installer or updater runs at a time, beside one scaler.  *)
(***************************************************************************)
EXTENDS Config, Versions

CONSTANTS
    Releases,     \* releases in the order of their versions, see IsRelease
    Prompted,     \* configurations the guided install may arrive at
    OldConfigs,   \* configurations an earlier vmfleet may have left
    Scales,       \* arguments of scale: [pool, min, max]
    Keep,         \* scale: the option is not given
    NoRelease,    \* None
    MaxPublished, MaxCommands, MaxFaults   \* bounds

Ids == DOMAIN Releases

IsRelease(r) ==
    /\ r.version \in Versions \union {Unparsable}
    /\ r.prerelease \in BOOLEAN   \* GitHub's flag: the tag has a suffix
    /\ r.asset \in BOOLEAN        \* a tarball for this target
    /\ r.sha256 \in BOOLEAN       \* and a checksum beside it

ASSUME DeploymentAssumption ==
    /\ Releases \in Seq({Releases[r] : r \in Ids}) /\ Releases # <<>>
    /\ \A r \in Ids : IsRelease(Releases[r])
    /\ NoRelease \notin Ids
    /\ \A cfg \in Prompted \union OldConfigs :
          IsConfig(cfg) /\ Valid(cfg) /\ cfg.version <= CurrentVersion
    /\ \A s \in Scales : {s.min, s.max} \subseteq {Keep} \union 0..(U32 - 1)
    /\ MaxPublished \in Nat /\ MaxCommands \in Nat /\ MaxFaults \in Nat

VARIABLES
    published,   \* releases that are no longer drafts
    latest,      \* what /releases/latest answers
    exe,         \* the installed binary: [release, intact]
    file,        \* the configuration file: [state, cfg]
    op,          \* installer or updater, with its locals and staged tarball
    sc,          \* scaler: [at, cfg]
    sup,         \* the supervisor: [state, release, cfg]
    check,       \* update_rx: none, or sent with what was found
    notice,      \* SupState.latest_version
    commands, faults,   \* bounds used up
    damaged,     \* history: a write of the file was cut off or overlapped
    upgraded     \* history: install --upgrade has ended well with this exe

github == <<published, latest>>
background == <<check, notice>>
bounds == <<commands, faults>>
history == <<damaged, upgraded>>
vars == <<github, exe, file, op, sc, sup, background, bounds, history>>

Idle == [at |-> "idle"]
Waiting == [state |-> "waiting"]   \* systemd will start it (Restart=always)
NoCheck == [at |-> "none"]
Up == sup.state = "up"

NoFile == [state |-> "none"]
Empty == [state |-> "empty"]
Torn == [state |-> "torn"]   \* does not parse
Whole(cfg) == [state |-> "whole", cfg |-> cfg]

Writers == {p \in {op, sc} : p.at = "writing"}

Fault == faults < MaxFaults /\ faults' = faults + 1 /\ UNCHANGED commands
NoFault == UNCHANGED bounds
Command == commands < MaxCommands /\ commands' = commands + 1 /\ UNCHANGED faults

Init ==
    /\ published = {1} /\ latest = 1
    /\ exe = [release |-> 1, intact |-> TRUE]
    /\ file \in {NoFile} \union {Whole(cfg) : cfg \in OldConfigs}
    /\ op = Idle /\ sc = Idle
    /\ sup = [state |-> "absent"]
    /\ check = NoCheck /\ notice = NoRelease
    /\ commands = 0 /\ faults = 0
    /\ damaged = FALSE /\ upgraded = FALSE

-----------------------------------------------------------------------------
(* write_config(): fs::write truncates the file, then writes it.           *)

WriteBegin ==
    /\ file' = Empty
    /\ damaged' = (damaged \/ Writers # {})

(* A file somebody else has filled meanwhile may keep the tail of it. *)
WriteEnd(cfg) ==
    \/ file' = Whole(cfg)
    \/ file # Empty /\ file' = Torn

-----------------------------------------------------------------------------
(* `vmfleet scale`. *)

(* min_warm and max of the pool of that name, where given. *)
Scaled(cfg, s) ==
    [cfg EXCEPT !.pools = [p \in DOMAIN cfg.pools |->
        IF cfg.pools[p].name # s.pool THEN cfg.pools[p]
        ELSE [cfg.pools[p] EXCEPT
                 !.min_warm = IF s.min = Keep THEN @ ELSE s.min,
                 !.max = IF s.max = Keep THEN @ ELSE s.max]]]

HasPool(cfg, name) == \E p \in DOMAIN cfg.pools : cfg.pools[p].name = name

(* Config::load() succeeds: it parses and validates. *)
Loadable == file.state = "whole" /\ Valid(file.cfg)

ScaleUnchecked == \* mutant: cfg.validate() is missing
    /\ sc = Idle /\ Command /\ Loadable
    /\ \E s \in Scales :
          /\ HasPool(file.cfg, s.pool)
          /\ sc' = [at |-> "write", cfg |-> Scaled(file.cfg, s)]
    /\ UNCHANGED <<github, exe, file, op, sup, background, history>>

(* Load, change, validate; whatever fails ends the command. *)
Scale ==
    /\ sc = Idle /\ Command /\ Loadable
    /\ \E s \in Scales :
          /\ HasPool(file.cfg, s.pool) /\ Valid(Scaled(file.cfg, s))
          /\ sc' = [at |-> "write", cfg |-> Scaled(file.cfg, s)]
    /\ UNCHANGED <<github, exe, file, op, sup, background, history>>

ScaleWrite ==
    /\ sc.at = "write" /\ WriteBegin
    /\ sc' = [sc EXCEPT !.at = "writing"]
    /\ UNCHANGED <<github, exe, op, sup, background, bounds, upgraded>>

ScaleWritten ==
    /\ sc.at = "writing" /\ WriteEnd(sc.cfg)
    /\ sc' = Idle
    /\ UNCHANGED <<github, exe, op, sup, background, bounds, history>>

-----------------------------------------------------------------------------
(* `vmfleet self-update`. *)

PickNewestListed == \* mutant: the filter on drafts is missing
    {r \in Ids : \A s \in Ids :
        ~Newer(Releases[s].version, Releases[r].version)}

(* pick_newest(): the greatest version that is not a draft. *)
PickNewest ==
    {r \in published : \A s \in published :
        ~Newer(Releases[s].version, Releases[r].version)}

(* fetch_release(): by tag, or the newest of the list when prereleases are *)
(* allowed, or /latest.  A failure ends the command.                       *)
FetchRelease(tagged) ==
    IF tagged THEN published ELSE PickNewest \union {latest}

(* Without a tag the release must be newer than the running binary.        *)
SelfUpdate ==
    /\ op = Idle /\ Command
    /\ \E tagged, restart \in BOOLEAN : \E r \in FetchRelease(tagged) :
          /\ tagged \/ Newer(Releases[r].version, Releases[exe.release].version)
          /\ Releases[r].asset
          /\ op' = [at |-> "download", release |-> r, tagged |-> tagged,
                    restart |-> restart, tar |-> "none"]
    /\ UNCHANGED <<github, exe, file, sc, sup, background, history>>

(* stream_to_file(): to a .part file, renamed when the stream has ended;   *)
(* it is written afresh, so what an interrupted update has left under that *)
(* name is never read.                                                     *)
Streamed(tar) ==
    \/ NoFault /\ tar = "intact"
    \/ Fault /\ tar = "corrupt"

(* download_asset(); TempCleanup removes the tarball on every return. *)
Download ==
    /\ op.at = "download"
    /\ \/ \E tar \in {"intact", "corrupt"} :
             Streamed(tar) /\ op' = [op EXCEPT !.at = "verify", !.tar = tar]
       \/ Fault /\ op' = Idle
    /\ UNCHANGED <<github, exe, file, sc, sup, background, history>>

VerifyWarns == \* mutant: a mismatch is reported and no more
    /\ op.at = "verify" /\ NoFault
    /\ op' = [op EXCEPT !.at = "extract"]
    /\ UNCHANGED <<github, exe, file, sc, sup, background, history>>

(* What sha256_file() finds agrees with the checksum, where there is one.  *)
ChecksumOk == Releases[op.release].sha256 => op.tar = "intact"

(* A mismatch ends the update, and so does a checksum that cannot be had.  *)
Verify ==
    /\ op.at = "verify"
    /\ \/ NoFault /\ ChecksumOk /\ op' = [op EXCEPT !.at = "extract"]
       \/ NoFault /\ ~ChecksumOk /\ op' = Idle
       \/ Fault /\ Releases[op.release].sha256 /\ op' = Idle
    /\ UNCHANGED <<github, exe, file, sc, sup, background, history>>

(* extract_binary(), make_executable(): a damaged tarball may still yield  *)
(* a binary, or fail; so may a full disk.                                  *)
Extract ==
    /\ op.at = "extract"
    /\ \/ NoFault /\ op' = [op EXCEPT !.at = "swap"]
       \/ NoFault /\ op.tar = "corrupt" /\ op' = Idle
       \/ Fault /\ op' = Idle
    /\ UNCHANGED <<github, exe, file, sc, sup, background, history>>

(* post_upgrade(): `install --upgrade` from the new binary, if there is a  *)
(* configuration.                                                          *)
PostUpgrade ==
    IF file = NoFile THEN Idle ELSE [at |-> "load", upgrade |-> TRUE]

(* self_replace(), an atomic rename. *)
Swap ==
    /\ op.at = "swap"
    /\ \/ /\ NoFault
          /\ exe' = [release |-> op.release, intact |-> op.tar = "intact"]
          /\ op' = IF op.restart THEN PostUpgrade ELSE Idle
          /\ upgraded' = FALSE
       \/ Fault /\ op' = Idle /\ UNCHANGED <<exe, upgraded>>
    /\ UNCHANGED <<github, file, sc, sup, background, damaged>>

-----------------------------------------------------------------------------
(* `vmfleet install [--upgrade]`, by hand or from an update. *)

Install ==
    /\ op = Idle /\ Command
    /\ \E up \in BOOLEAN : op' = [at |-> "load", upgrade |-> up]
    /\ UNCHANGED <<github, exe, file, sc, sup, background, history>>

(* The configuration: load it and migrate it, or prompt for it.  One that  *)
(* cannot be loaded ends the command.                                      *)
InstallLoad ==
    /\ op.at = "load"
    /\ \/ /\ Loadable
          /\ op' = IF op.upgrade /\ Migrated(file.cfg) # file.cfg
                     THEN [at |-> "write", upgrade |-> TRUE,
                           cfg |-> Migrated(file.cfg)]
                     ELSE [at |-> "units", upgrade |-> op.upgrade]
       \/ file = NoFile /\ \E cfg \in Prompted :
             op' = [at |-> "write", upgrade |-> op.upgrade, cfg |-> cfg]
       \/ ~Loadable /\ file # NoFile /\ op' = Idle
    /\ UNCHANGED <<github, exe, file, sc, sup, background, bounds, history>>

InstallWrite ==
    /\ op.at = "write" /\ WriteBegin
    /\ op' = [op EXCEPT !.at = "writing"]
    /\ UNCHANGED <<github, exe, sc, sup, background, bounds, upgraded>>

InstallWritten ==
    /\ op.at = "writing" /\ WriteEnd(op.cfg)
    /\ op' = [at |-> "units", upgrade |-> op.upgrade]
    /\ UNCHANGED <<github, exe, sc, sup, background, bounds, history>>

(* enable_now(): it starts a supervisor that is not active and leaves one  *)
(* alone that is.                                                          *)
EnableNow == sup' = IF sup.state = "absent" THEN Waiting ELSE sup

(* Linger, the unit files, daemon-reload, enable --now.                    *)
InstallUnits ==
    /\ op.at = "units"
    /\ \/ /\ NoFault /\ EnableNow
          /\ op' = IF op.upgrade THEN [at |-> "restart"] ELSE Idle
       \/ Fault /\ op' = Idle /\ UNCHANGED sup
    /\ UNCHANGED <<github, exe, file, sc, background, history>>

(* The supervisor process is gone, and what it knew with it.               *)
SupervisorEnds == sup' = Waiting /\ check' = NoCheck /\ notice' = NoRelease

RestartNothing == \* mutant: enable --now is taken for a restart
    /\ op.at = "restart" /\ NoFault
    /\ upgraded' = TRUE /\ op' = Idle
    /\ UNCHANGED <<github, exe, file, sc, sup, background, damaged>>

(* systemctl restart of the supervisor. *)
InstallRestart ==
    /\ op.at = "restart"
    /\ \/ NoFault /\ SupervisorEnds /\ upgraded' = TRUE
       \/ Fault /\ UNCHANGED <<sup, check, notice, upgraded>>
    /\ op' = Idle
    /\ UNCHANGED <<github, exe, file, sc, damaged>>

-----------------------------------------------------------------------------
(* The supervisor, as far as its start and its update check go. *)

(* main() loads the configuration and runs the supervisor; if it cannot,   *)
(* the process ends and systemd tries again.                               *)
SupervisorStarts ==
    /\ sup = Waiting /\ Loadable /\ exe.intact
    /\ sup' = [state |-> "up", release |-> exe.release, cfg |-> file.cfg]
    /\ UNCHANGED <<github, exe, file, op, sc, background, bounds, history>>

SupervisorDies ==
    /\ Up /\ Fault /\ SupervisorEnds
    /\ UNCHANGED <<github, exe, file, op, sc, history>>

(* latest_version(): None when it cannot be had. *)
LatestVersion(found) ==
    \/ NoFault /\ found = latest
    \/ Fault /\ found = NoRelease

(* maybe_update_check(): when no check is under way and the interval has   *)
(* passed, a thread asks for the latest release.  It takes effect here     *)
(* when the thread has its answer.                                         *)
CheckStarts ==
    /\ Up /\ check = NoCheck
    /\ \E found \in {latest, NoRelease} :
          LatestVersion(found) /\ check' = [at |-> "sent", found |-> found]
    /\ UNCHANGED <<github, exe, file, op, sc, sup, notice, history>>

(* The result is applied; None leaves the last one standing. *)
Noticed(r) ==
    IF Newer(Releases[r].version, Releases[sup.release].version)
      THEN r ELSE NoRelease

CheckSticks == \* mutant: update_rx is reset only after an answer
    /\ Up /\ check.at = "sent" /\ check.found # NoRelease
    /\ notice' = Noticed(check.found)
    /\ check' = NoCheck
    /\ UNCHANGED <<github, exe, file, op, sc, sup, bounds, history>>

CheckApplies ==
    /\ Up /\ check.at = "sent"
    /\ notice' = IF check.found = NoRelease THEN notice ELSE Noticed(check.found)
    /\ check' = NoCheck
    /\ UNCHANGED <<github, exe, file, op, sc, sup, bounds, history>>

-----------------------------------------------------------------------------
(* The world. *)

(* A draft is promoted; the newest stable one by date answers /latest.     *)
Publish ==
    /\ Cardinality(published) <= MaxPublished
    /\ \E r \in Ids \ published :
          /\ published' = published \union {r}
          /\ latest' = IF Releases[r].prerelease THEN latest ELSE r
    /\ UNCHANGED <<exe, file, op, sc, sup, background, bounds, history>>

(* A command is interrupted at any point: nothing is cleaned up.  The child*)
(* `install --upgrade` of an update ends with it.                          *)
Interrupted ==
    /\ Fault
    /\ \/ op # Idle /\ op' = Idle /\ damaged' = (damaged \/ op.at = "writing")
          /\ UNCHANGED sc
       \/ sc # Idle /\ sc' = Idle /\ damaged' = (damaged \/ sc.at = "writing")
          /\ UNCHANGED op
    /\ UNCHANGED <<github, exe, file, sup, background, upgraded>>

OperatorStep ==
    \/ Download \/ Verify \/ Extract \/ Swap
    \/ InstallLoad \/ InstallWrite \/ InstallWritten \/ InstallUnits
    \/ InstallRestart

ScalerStep == ScaleWrite \/ ScaleWritten

CheckStep == CheckStarts \/ CheckApplies

Next ==
    \/ Scale \/ SelfUpdate \/ Install
    \/ OperatorStep \/ ScalerStep
    \/ SupervisorStarts \/ SupervisorDies \/ CheckStep
    \/ Publish \/ Interrupted

SafetySpec == Init /\ [][Next]_vars

(* Processes run and their calls return, systemd restarts the supervisor   *)
(* for ever, and its loop comes round again and again.                     *)
Spec ==
    /\ SafetySpec
    /\ WF_vars(OperatorStep) /\ WF_vars(ScalerStep)
    /\ WF_vars(SupervisorStarts)
    /\ WF_vars(CheckStarts) /\ WF_vars(CheckApplies)

-----------------------------------------------------------------------------
TypeOK ==
    /\ published \subseteq Ids /\ latest \in Ids
    /\ exe \in [release: Ids, intact: BOOLEAN]
    /\ \/ file \in {NoFile, Empty, Torn}
       \/ /\ file = Whole(file.cfg)
          /\ IsConfig(file.cfg) /\ file.cfg.version <= CurrentVersion
    /\ op.at \in {"idle", "download", "verify", "extract", "swap", "load",
                  "write", "writing", "units", "restart"}
    /\ sc.at \in {"idle", "write", "writing"}
    /\ sup.state \in {"absent", "waiting", "up"}
    /\ check.at \in {"none", "sent"}
    /\ notice \in Ids \union {NoRelease}
    /\ commands \in 0..MaxCommands /\ faults \in 0..MaxFaults
    /\ damaged \in BOOLEAN /\ upgraded \in BOOLEAN

(* The installed binary is always a whole one of a published release whose *)
(* checksum has been verified, whatever fails or is interrupted on the way;*)
(* only a release without a checksum can bring in a damaged one.           *)
ExeVerified ==
    /\ exe.release \in published
    /\ ~exe.intact => ~Releases[exe.release].sha256

(* "otherwise only when the release is strictly newer": without --tag an   *)
(* update never goes back in the order of SemVer, in which Releases is     *)
(* given, though /latest answers by date and prereleases may be allowed.   *)
NeverDowngrades ==
    [][exe'.release < exe.release => op.tagged]_vars

(* "swap binary, migrate + restart": from an install --upgrade that ended  *)
(* well until the next swap every supervisor that runs is of the installed *)
(* release, through crashes and restarts.                                  *)
SupervisorUpgraded == (upgraded /\ Up) => sup.release = exe.release

(* The file on disk can be loaded whenever nobody is writing it, after any *)
(* sequence of install, migration and scale, unless a write of it was cut  *)
(* off or two of them overlapped.                                          *)
ConfigLoadable ==
    (file # NoFile /\ Writers = {} /\ ~damaged) => Loadable

(* An installed supervisor comes back each time it ends, if its files are  *)
(* whole: no command leaves it with a configuration or a binary it cannot  *)
(* start from.                                                             *)
SupervisorReturns ==
    <>[](sup.state # "absent" /\ ~damaged /\ exe.intact) => []<>Up

(* "surface when a newer vmfleet is available": a stable release that is   *)
(* newer than the running supervisor and stays the latest is noticed, in   *)
(* spite of checks that fail.                                              *)
UpdateNoticed ==
    \A r \in Ids :
        <>[](Up /\ latest = r
                /\ Newer(Releases[r].version, Releases[sup.release].version))
            => <>[](notice = r)

(* "(supervisor picks this up next cycle)": once scale has written the     *)
(* configuration and the file stays as it is, a supervisor that stays up   *)
(* comes to work by it.                                                    *)
ScalePickedUp ==
    <>[](Up /\ sc = Idle /\ file.state = "whole")
        => <>[](Up /\ file = Whole(sup.cfg))
=============================================================================
