-------------------------- MODULE DeploymentProofs --------------------------
(***************************************************************************)
(* What installs, updates and scales may leave behind, for any releases,   *)
(* configurations and bounds: only a verified binary is swapped in, never  *)
(* an older one unless a tag asked for it; after an upgrade no older       *)
(* supervisor goes on; and the configuration stays one that can be loaded. *)
(***************************************************************************)
EXTENDS Deployment, ConfigProofs, TLAPS

-----------------------------------------------------------------------------
(* The comparison of releases: over all versions, with any number of       *)
(* prerelease identifiers, it is a strict order.  A fleet that follows it  *)
(* can neither update to what it runs nor go round in a circle.            *)

VersionTexts == Versions \union {Unparsable}

LEMMA IdOrder ==
    ASSUME NEW x \in Identifiers, NEW y \in Identifiers, NEW z \in Identifiers
    PROVE  /\ ~IdLess(x, x)
           /\ IdLess(x, y) /\ IdLess(y, z) => IdLess(x, z)
           /\ x = y \/ IdLess(x, y) \/ IdLess(y, x)
  <1>1. x.rank \in Nat /\ y.rank \in Nat /\ z.rank \in Nat
    BY DEF Identifiers
  <1>2. x.numeric \in BOOLEAN /\ y.numeric \in BOOLEAN /\ z.numeric \in BOOLEAN
    BY DEF Identifiers
  <1>3. x.numeric = y.numeric /\ x.rank = y.rank => x = y
    BY DEF Identifiers
  <1> QED
    BY <1>1, <1>2, <1>3 DEF IdLess

LEMMA PreIrreflexive ==
    ASSUME NEW a \in Seq(Identifiers)
    PROVE  ~PreNewer(a, a)
  <1>1. \A i \in 1..Len(a) : a[i] \in Identifiers
    OBVIOUS
  <1> QED
    BY <1>1, IdOrder DEF PreNewer

(* Where a and b first differ decides: b has an identifier there that is   *)
(* less, or has none.                                                      *)
DiffersAt(a, b, i) ==
    /\ i \in 1..Len(a) /\ AgreeUpTo(a, b, i - 1)
    /\ \/ i <= Len(b) /\ IdLess(b[i], a[i])
       \/ i = Len(b) + 1

LEMMA NewerWhereTheyDiffer ==
    ASSUME NEW a \in Seq(Identifiers), NEW b \in Seq(Identifiers), b # <<>>
    PROVE  PreNewer(a, b) <=> a = <<>> \/ \E i \in 1..Len(a) : DiffersAt(a, b, i)
  <1>1. CASE a = <<>>
    BY <1>1 DEF PreNewer
  <1>2. CASE a # <<>>
    <2>1. ASSUME PreNewer(a, b)
          PROVE  \E i \in 1..Len(a) : DiffersAt(a, b, i)
      <3>1. CASE \E i \in 1..Len(a) :
                    i <= Len(b) /\ AgreeUpTo(a, b, i - 1) /\ IdLess(b[i], a[i])
        BY <3>1 DEF DiffersAt
      <3>2. CASE Len(b) < Len(a) /\ AgreeUpTo(a, b, Len(b))
        <4>1. Len(b) + 1 \in 1..Len(a) /\ (Len(b) + 1) - 1 = Len(b)
          BY <3>2
        <4>2. DiffersAt(a, b, Len(b) + 1)
          BY <3>2, <4>1 DEF DiffersAt
        <4> QED
          BY <4>1, <4>2
      <3> QED
        BY <1>2, <2>1, <3>1, <3>2 DEF PreNewer
    <2>2. ASSUME NEW i \in 1..Len(a), DiffersAt(a, b, i)
          PROVE  PreNewer(a, b)
      <3>1. CASE i <= Len(b)
        BY <1>2, <2>2, <3>1 DEF DiffersAt, PreNewer
      <3>2. CASE i = Len(b) + 1
        <4>1. i - 1 = Len(b) /\ Len(b) < Len(a)
          BY <3>2
        <4> QED
          BY <1>2, <2>2, <4>1 DEF DiffersAt, PreNewer
      <3> QED
        BY <2>2, <3>1, <3>2 DEF DiffersAt
    <2> QED
      BY <1>2, <2>1, <2>2
  <1> QED
    BY <1>1, <1>2

LEMMA PreTransitive ==
    ASSUME NEW a \in Seq(Identifiers), NEW b \in Seq(Identifiers),
           NEW c \in Seq(Identifiers), PreNewer(a, b), PreNewer(b, c)
    PROVE  PreNewer(a, c)
  <1>1. b # <<>> \/ (b = <<>> /\ c # <<>>)
    BY DEF PreNewer
  <1>2. b # <<>>
    <2>1. ~PreNewer(a, <<>>)
      BY DEF PreNewer
    <2> QED
      BY <2>1
  <1>3. c # <<>>
    BY DEF PreNewer
  <1>4. CASE a = <<>>
    BY <1>3, <1>4 DEF PreNewer
  <1>5. CASE a # <<>>
    <2>1. PICK i \in 1..Len(a) : DiffersAt(a, b, i)
      BY <1>2, <1>5, NewerWhereTheyDiffer
    <2>2. PICK j \in 1..Len(b) : DiffersAt(b, c, j)
      BY <1>2, <1>3, NewerWhereTheyDiffer
    <2>3. CASE i < j
      <3>1. AgreeUpTo(a, c, i - 1) /\ b[i] = c[i] /\ i <= Len(b)
        BY <2>1, <2>2, <2>3 DEF DiffersAt, AgreeUpTo
      <3>2. i <= Len(c) /\ IdLess(c[i], a[i])
        BY <2>1, <2>2, <2>3, <3>1 DEF DiffersAt
      <3>3. DiffersAt(a, c, i)
        BY <3>1, <3>2 DEF DiffersAt
      <3> QED
        BY <1>3, <3>3, NewerWhereTheyDiffer
    <2>4. CASE j < i
      <3>1. j \in 1..Len(a) /\ a[j] = b[j] /\ AgreeUpTo(a, c, j - 1)
        BY <2>1, <2>2, <2>4 DEF DiffersAt, AgreeUpTo
      <3>2. DiffersAt(a, c, j)
        BY <2>2, <3>1 DEF DiffersAt
      <3> QED
        BY <1>3, <3>1, <3>2, NewerWhereTheyDiffer
    <2>5. CASE i = j
      <3>1. AgreeUpTo(a, c, i - 1) /\ i <= Len(b) /\ IdLess(b[i], a[i])
        BY <2>1, <2>2, <2>5 DEF DiffersAt, AgreeUpTo
      <3>2. CASE i <= Len(c) /\ IdLess(c[i], b[i])
        <4>1. a[i] \in Identifiers /\ b[i] \in Identifiers /\ c[i] \in Identifiers
          BY <3>1, <3>2
        <4>2. IdLess(c[i], a[i])
          BY <3>1, <3>2, <4>1, IdOrder
        <4>3. DiffersAt(a, c, i)
          BY <3>1, <3>2, <4>2 DEF DiffersAt
        <4> QED
          BY <1>3, <4>3, NewerWhereTheyDiffer
      <3>3. CASE i = Len(c) + 1
        <4>1. DiffersAt(a, c, i)
          BY <3>1, <3>3 DEF DiffersAt
        <4> QED
          BY <1>3, <4>1, NewerWhereTheyDiffer
      <3> QED
        BY <2>2, <2>5, <3>2, <3>3 DEF DiffersAt
    <2> QED
      BY <2>3, <2>4, <2>5
  <1> QED
    BY <1>4, <1>5

(* is_newer() never calls a release newer than itself: an update without   *)
(* --tag is not offered the running version again.                         *)
THEOREM NeverNewerThanItself ==
    ASSUME NEW a \in VersionTexts
    PROVE  ~Newer(a, a)
  <1>1. a \in Versions => a.pre \in Seq(Identifiers) /\ a.base \in Nat
    BY DEF Versions
  <1> QED
    BY <1>1, PreIrreflexive DEF Newer, VersionTexts

(* is_newer() is transitive over all version texts, parsable or not: a     *)
(* sequence of updates never comes back to a release it has left.          *)
THEOREM NewerTransitive ==
    ASSUME NEW a \in VersionTexts, NEW b \in VersionTexts, NEW c \in VersionTexts,
           Newer(a, b), Newer(b, c)
    PROVE  Newer(a, c)
  <1>1. a # Unparsable /\ b # Unparsable
    BY DEF Newer
  <1>2. CASE c = Unparsable
    BY <1>1, <1>2 DEF Newer
  <1>3. CASE c # Unparsable
    <2>1. \A v \in {a, b, c} : v.base \in Nat /\ v.pre \in Seq(Identifiers)
      BY <1>1, <1>3 DEF VersionTexts, Versions
    <2>2. CASE a.base = b.base /\ b.base = c.base
      <3>1. PreNewer(a.pre, b.pre) /\ PreNewer(b.pre, c.pre)
        BY <1>1, <1>3, <2>1, <2>2 DEF Newer
      <3>2. PreNewer(a.pre, c.pre)
        BY <2>1, <3>1, PreTransitive
      <3> QED
        BY <1>1, <2>2, <3>2 DEF Newer
    <2>3. CASE b.base < a.base \/ c.base < b.base
      <3>1. b.base <= a.base /\ c.base <= b.base
        BY <1>1, <1>3, <2>1 DEF Newer
      <3>2. c.base < a.base
        BY <2>1, <2>3, <3>1
      <3> QED
        BY <1>1, <3>2 DEF Newer
    <2> QED
      BY <1>1, <1>3, <2>1, <2>2, <2>3 DEF Newer
  <1> QED
    BY <1>2, <1>3

-----------------------------------------------------------------------------
(* What is staged and what is installed. *)

Updating == {"download", "verify", "extract", "swap"}

Updates ==
    [at: Updating, release: published, tagged: BOOLEAN, restart: BOOLEAN,
     tar: {"none", "intact", "corrupt"}]

(* The locals of the operator's process, where EXCEPT relies on them. *)
OpShape ==
    /\ op.at \in Updating => op \in Updates
    /\ op.at \in {"write", "writing"} =>
          op = [at |-> op.at, upgrade |-> op.upgrade, cfg |-> op.cfg]

(* What a later step of an update takes from an earlier one still holds:   *)
(* the checksum, and the comparison with the installed release, which      *)
(* nobody else has replaced meanwhile.                                     *)
StagedSound ==
    /\ op.at \in {"extract", "swap"} => ChecksumOk
    /\ (op.at \in Updating /\ ~op.tagged) =>
          Newer(Releases[op.release].version, Releases[exe.release].version)

UpdateInv ==
    /\ published \subseteq Ids /\ latest \in published
    /\ ExeVerified
    /\ OpShape
    /\ StagedSound

(* The steps that have no part in what the invariant is about. *)
Elsewhere == UNCHANGED <<exe, op, published>> /\ latest' \in published
Ends == UNCHANGED <<exe, published, latest>> /\ op'.at \notin Updating
             /\ op'.at \notin {"write", "writing"}

(* A step that leaves releases, binary and operator alone keeps it. *)
LEMMA ElsewhereKeeps == UpdateInv /\ Elsewhere => UpdateInv'
  BY DEF UpdateInv, Elsewhere, ExeVerified, OpShape, Updates, StagedSound,
         ChecksumOk

(* So does one that ends the update, the install, or its writing. *)
LEMMA EndsKeeps == UpdateInv /\ Ends => UpdateInv'
  BY DEF UpdateInv, Ends, ExeVerified, OpShape, Updates, StagedSound, ChecksumOk,
         Updating

-----------------------------------------------------------------------------
(* One lemma for each step that moves an update or a write on. *)

LEMMA SelfUpdateKeeps == UpdateInv /\ SelfUpdate => UpdateInv'
  <1> SUFFICES ASSUME UpdateInv, SelfUpdate PROVE UpdateInv'
    OBVIOUS
  <1>1. PICK tagged \in BOOLEAN : \E restart \in BOOLEAN, r \in published :
          /\ tagged \/ Newer(Releases[r].version, Releases[exe.release].version)
          /\ op' = [at |-> "download", release |-> r, tagged |-> tagged,
                    restart |-> restart, tar |-> "none"]
    BY DEF SelfUpdate, UpdateInv, FetchRelease, PickNewest
  <1>2. PICK restart \in BOOLEAN, r \in published :
          /\ tagged \/ Newer(Releases[r].version, Releases[exe.release].version)
          /\ op' = [at |-> "download", release |-> r, tagged |-> tagged,
                    restart |-> restart, tar |-> "none"]
    BY <1>1
  <1>3. UNCHANGED <<exe, published, latest>>
    BY DEF SelfUpdate, github
  <1>4. OpShape'
    BY <1>2, <1>3 DEF OpShape, Updates, Updating
  <1>5. StagedSound'
    BY <1>2, <1>3 DEF StagedSound
  <1> QED  BY <1>3, <1>4, <1>5 DEF UpdateInv, ExeVerified

(* A step of the update that only moves it on. *)
LEMMA MovesOn ==
    ASSUME UpdateInv, op.at \in Updating, UNCHANGED <<exe, published, latest>>,
           NEW at \in Updating, NEW tar \in {"none", "intact", "corrupt"},
           op' = [op EXCEPT !.at = at, !.tar = tar],
           at \in {"extract", "swap"} =>
               (Releases[op.release].sha256 => tar = "intact")
    PROVE  UpdateInv'
  <1>1. op \in Updates
    BY DEF UpdateInv, OpShape
  <1>2. /\ op'.at = at /\ op'.tar = tar
        /\ op'.release = op.release /\ op'.tagged = op.tagged
        /\ op' \in Updates
    BY <1>1 DEF Updates
  <1>3. OpShape'
    BY <1>2 DEF OpShape, Updates, Updating
  <1>4. StagedSound'
    BY <1>1, <1>2 DEF UpdateInv, StagedSound, ChecksumOk
  <1> QED  BY <1>3, <1>4 DEF UpdateInv, ExeVerified

LEMMA DownloadKeeps == UpdateInv /\ Download => UpdateInv'
  <1> SUFFICES ASSUME UpdateInv, Download PROVE UpdateInv'
    OBVIOUS
  <1>1. UNCHANGED <<exe, published, latest>> /\ op.at \in Updating
    BY DEF Download, github, Updating
  <1>2. CASE \E tar \in {"intact", "corrupt"} :
               op' = [op EXCEPT !.at = "verify", !.tar = tar]
    BY <1>1, <1>2, MovesOn DEF Updating
  <1>3. CASE op' = Idle
    BY <1>1, <1>3, EndsKeeps DEF Ends, Idle, Updating
  <1> QED  BY <1>2, <1>3 DEF Download

LEMMA VerifyKeeps == UpdateInv /\ Verify => UpdateInv'
  <1> SUFFICES ASSUME UpdateInv, Verify PROVE UpdateInv'
    OBVIOUS
  <1>1. UNCHANGED <<exe, published, latest>> /\ op.at \in Updating
    BY DEF Verify, github, Updating
  <1>2. CASE ChecksumOk /\ op' = [op EXCEPT !.at = "extract"]
    <2>1. op \in Updates
      BY <1>1 DEF UpdateInv, OpShape
    <2>2. op' = [op EXCEPT !.at = "extract", !.tar = op.tar]
      BY <1>2, <2>1 DEF Updates
    <2> QED  BY <1>1, <1>2, <2>1, <2>2, MovesOn DEF Updating, Updates, ChecksumOk
  <1>3. CASE op' = Idle
    BY <1>1, <1>3, EndsKeeps DEF Ends, Idle, Updating
  <1> QED  BY <1>2, <1>3 DEF Verify

LEMMA ExtractKeeps == UpdateInv /\ Extract => UpdateInv'
  <1> SUFFICES ASSUME UpdateInv, Extract PROVE UpdateInv'
    OBVIOUS
  <1>1. UNCHANGED <<exe, published, latest>> /\ op.at = "extract"
    BY DEF Extract, github
  <1>2. CASE op' = [op EXCEPT !.at = "swap"]
    <2>1. op \in Updates /\ ChecksumOk
      BY <1>1 DEF UpdateInv, OpShape, StagedSound, Updating
    <2>2. op' = [op EXCEPT !.at = "swap", !.tar = op.tar]
      BY <1>2, <2>1 DEF Updates
    <2> QED  BY <1>1, <2>1, <2>2, MovesOn DEF Updating, Updates, ChecksumOk
  <1>3. CASE op' = Idle
    BY <1>1, <1>3, EndsKeeps DEF Ends, Idle, Updating
  <1> QED  BY <1>2, <1>3 DEF Extract

(* The swap: what was verified and compared becomes the installed binary.  *)
LEMMA SwapKeeps == UpdateInv /\ Swap => UpdateInv'
  <1> SUFFICES ASSUME UpdateInv, Swap PROVE UpdateInv'
    OBVIOUS
  <1>1. op.at = "swap" /\ op \in Updates /\ ChecksumOk
    BY DEF Swap, UpdateInv, OpShape, StagedSound, Updating
  <1>2. UNCHANGED <<published, latest>>
    BY DEF Swap, github
  <1>3. op'.at \notin Updating /\ op'.at \notin {"write", "writing"}
    BY DEF Swap, PostUpgrade, Idle, Updating
  <1>4. CASE UNCHANGED exe
    BY <1>2, <1>3, <1>4, EndsKeeps DEF Ends
  <1>5. CASE exe' = [release |-> op.release, intact |-> op.tar = "intact"]
    <2>1. exe'.release \in published
      BY <1>1, <1>5 DEF Updates
    <2>2. exe'.release = op.release /\ (exe'.intact <=> op.tar = "intact")
      BY <1>5
    <2>3. ExeVerified'
      BY <1>1, <1>2, <2>1, <2>2 DEF ExeVerified, ChecksumOk
    <2> QED  BY <1>2, <1>3, <2>3 DEF UpdateInv, OpShape, StagedSound, Updating
  <1> QED  BY <1>4, <1>5 DEF Swap

LEMMA InstallLoadKeeps == UpdateInv /\ InstallLoad => UpdateInv'
  <1> SUFFICES ASSUME UpdateInv, InstallLoad PROVE UpdateInv'
    OBVIOUS
  <1>1. UNCHANGED <<exe, published, latest>>
    BY DEF InstallLoad, github
  <1>2. CASE op'.at \in {"units", "idle"}
    BY <1>1, <1>2, EndsKeeps DEF Ends, Updating
  <1>3. CASE \E up, cfg : op' = [at |-> "write", upgrade |-> up, cfg |-> cfg]
    BY <1>1, <1>3 DEF UpdateInv, ExeVerified, OpShape, StagedSound, Updating
  <1>4. op'.at \in {"units", "idle"}
          \/ \E up, cfg : op' = [at |-> "write", upgrade |-> up, cfg |-> cfg]
    BY DEF InstallLoad, Idle
  <1> QED  BY <1>2, <1>3, <1>4

LEMMA InstallWriteKeeps == UpdateInv /\ InstallWrite => UpdateInv'
  <1> SUFFICES ASSUME UpdateInv, InstallWrite PROVE UpdateInv'
    OBVIOUS
  <1>1. UNCHANGED <<exe, published, latest>>
    BY DEF InstallWrite, github
  <1>2. op' = [at |-> "writing", upgrade |-> op.upgrade, cfg |-> op.cfg]
    BY DEF InstallWrite, UpdateInv, OpShape
  <1> QED  BY <1>1, <1>2 DEF UpdateInv, ExeVerified, OpShape, StagedSound, Updating

LEMMA PublishKeeps == UpdateInv /\ Publish => UpdateInv'
  <1> SUFFICES ASSUME UpdateInv, Publish PROVE UpdateInv'
    OBVIOUS
  <1>1. published \subseteq published' /\ published' \subseteq Ids
          /\ latest' \in published'
    BY DEF Publish, UpdateInv
  <1>2. UNCHANGED <<exe, op>>
    BY DEF Publish
  <1> QED  BY <1>1, <1>2 DEF UpdateInv, ExeVerified, OpShape, Updates, StagedSound,
                           ChecksumOk

-----------------------------------------------------------------------------
LEMMA UpdateInit == Init => UpdateInv
  <1> SUFFICES ASSUME Init PROVE UpdateInv
    OBVIOUS
  <1>1. 1 \in Ids
    BY DeploymentAssumption DEF Ids
  <1> QED
    BY <1>1 DEF Init, UpdateInv, ExeVerified, OpShape, StagedSound, Idle, Updating

LEMMA UpdateStep == UpdateInv /\ [Next]_vars => UpdateInv'
  <1> SUFFICES ASSUME UpdateInv, [Next]_vars PROVE UpdateInv'
    OBVIOUS
  <1>1. CASE Scale \/ ScalerStep \/ SupervisorStarts \/ SupervisorDies
               \/ CheckStep \/ UNCHANGED vars
    <2>1. Elsewhere
      BY <1>1 DEF Elsewhere, UpdateInv, Scale, ScalerStep, ScaleWrite, ScaleWritten,
                SupervisorStarts, SupervisorDies, CheckStep, CheckStarts,
                CheckApplies, vars, github
    <2> QED  BY <2>1, ElsewhereKeeps
  <1>2. CASE Install \/ InstallWritten \/ InstallUnits \/ InstallRestart
    <2>1. UNCHANGED <<exe, published, latest>>
      BY <1>2 DEF Install, InstallWritten, InstallUnits, InstallRestart, github
    <2>2. op'.at \in {"idle", "load", "units", "restart"}
      BY <1>2 DEF Install, InstallWritten, InstallUnits, InstallRestart, Idle
    <2> QED  BY <2>1, <2>2, EndsKeeps DEF Ends, Updating
  <1>3. CASE Interrupted
    <2>1. UNCHANGED <<exe, published, latest>>
      BY <1>3 DEF Interrupted, github
    <2>2. CASE op' = Idle
      BY <2>1, <2>2, EndsKeeps DEF Ends, Idle, Updating
    <2>3. CASE UNCHANGED op
      BY <2>1, <2>3, ElsewhereKeeps DEF Elsewhere, UpdateInv
    <2> QED  BY <1>3, <2>2, <2>3 DEF Interrupted
  <1>4. CASE SelfUpdate
    BY <1>4, SelfUpdateKeeps
  <1>5. CASE Download
    BY <1>5, DownloadKeeps
  <1>6. CASE Verify
    BY <1>6, VerifyKeeps
  <1>7. CASE Extract
    BY <1>7, ExtractKeeps
  <1>8. CASE Swap
    BY <1>8, SwapKeeps
  <1>9. CASE InstallLoad
    BY <1>9, InstallLoadKeeps
  <1>10. CASE InstallWrite
    BY <1>10, InstallWriteKeeps
  <1>11. CASE Publish
    BY <1>11, PublishKeeps
  <1> QED  BY <1>1, <1>2, <1>3, <1>4, <1>5, <1>6, <1>7, <1>8, <1>9, <1>10, <1>11
           DEF Next, OperatorStep

(* Selection, download, checksum, extraction and swap of self-update never *)
(* bring in a binary that is not published or, where the release has a     *)
(* checksum, is damaged, whatever fails or is interrupted.                 *)
THEOREM OnlyVerifiedInstalled == SafetySpec => []ExeVerified
  <1>1. UpdateInv => ExeVerified
    BY DEF UpdateInv
  <1> QED  BY <1>1, UpdateInit, UpdateStep, PTL DEF SafetySpec

LEMMA IdsOrdered == \A a, b \in Ids : a < b => ~(b < a) /\ a # b
  BY DeploymentAssumption DEF Ids

(* Releases are numbered in the order is_newer() sees. *)
ReleasesInOrder ==
    \A r, s \in Ids : Newer(Releases[r].version, Releases[s].version) => s < r

(* Where releases are numbered in the order of is_newer(), no update       *)
(* without a tag installs one that comes before the installed one, though  *)
(* another may have been published or made the latest since the two were   *)
(* compared.                                                               *)
THEOREM UpdatesAscend ==
    ASSUME ReleasesInOrder
    PROVE  SafetySpec => NeverDowngrades
  <1>1. UpdateInv /\ [Next]_vars =>
            [exe'.release < exe.release => op.tagged]_vars
    <2> SUFFICES ASSUME UpdateInv, Next, exe'.release < exe.release
                 PROVE  op.tagged
      OBVIOUS
    <2>1. exe.release \in Ids
      BY DEF UpdateInv, ExeVerified
    <2>2. exe' # exe
      BY <2>1, IdsOrdered, Zenon
    <2>3. Swap
      BY <2>2
      DEF Next, OperatorStep, ScalerStep, CheckStep, Scale, ScaleWrite, ScaleWritten,
          SelfUpdate, Download, Verify, Extract, Install, InstallLoad, InstallWrite,
          InstallWritten, InstallUnits, InstallRestart, SupervisorStarts,
          SupervisorDies, CheckStarts, CheckApplies, Publish, Interrupted
    <2>4. op \in Updates /\ op.at = "swap" /\ op.release \in Ids
      BY <2>3 DEF Swap, UpdateInv, OpShape, Updates, Updating
    <2>5. exe'.release = op.release
      BY <2>2, <2>3 DEF Swap
    <2>6. ~op.tagged => exe.release < op.release
      BY <2>1, <2>4 DEF UpdateInv, StagedSound, ReleasesInOrder, Updating
    <2> QED  BY <2>1, <2>4, <2>5, <2>6, IdsOrdered, Zenon
  <1> QED  BY <1>1, UpdateInit, UpdateStep, PTL DEF SafetySpec, NeverDowngrades

(* install --upgrade restarts the supervisor last: from its end to the     *)
(* next swap no supervisor of another release runs.                        *)
THEOREM UpgradeReachesSupervisor == SafetySpec => []SupervisorUpgraded
  <1>1. Init => SupervisorUpgraded
    BY DEF Init, SupervisorUpgraded, Up
  <1>2. SupervisorUpgraded /\ [Next]_vars => SupervisorUpgraded'
    <2> SUFFICES ASSUME SupervisorUpgraded, [Next]_vars PROVE SupervisorUpgraded'
      OBVIOUS
    <2>1. CASE UNCHANGED <<sup, exe, upgraded>>
      BY <2>1 DEF SupervisorUpgraded, Up
    <2>2. CASE sup'.state = "waiting"
      BY <2>2 DEF SupervisorUpgraded, Up
    <2>3. CASE SupervisorStarts
      BY <2>3 DEF SupervisorStarts, SupervisorUpgraded, Up
    <2>4. CASE Swap
      BY <2>4 DEF Swap, SupervisorUpgraded, Up
    <2>5. CASE InstallUnits \/ InstallRestart \/ SupervisorDies
      <3>1. sup'.state = "waiting" \/ UNCHANGED <<sup, exe, upgraded>>
        BY <2>5 DEF InstallUnits, EnableNow, InstallRestart, SupervisorDies,
                  SupervisorEnds, Waiting, history
      <3> QED  BY <2>1, <2>2, <3>1
    <2> QED
      BY <2>1, <2>3, <2>4, <2>5
      DEF Next, OperatorStep, ScalerStep, CheckStep, Scale, ScaleWrite, ScaleWritten,
          SelfUpdate, Download, Verify, Extract, Install, InstallLoad, InstallWrite,
          InstallWritten, CheckStarts, CheckApplies, Publish, Interrupted, vars, history
  <1> QED  BY <1>1, <1>2, PTL DEF SafetySpec
-----------------------------------------------------------------------------
(* What is written to the configuration file is a configuration that this  *)
(* vmfleet accepts; a cut-off or overlapping write apart, the file is one. *)

Good(cfg) == IsConfig(cfg) /\ cfg.version <= CurrentVersion /\ Valid(cfg)

Holding == {"write", "writing"}   \* where a process holds what it writes

FileSound ==
    file \in {NoFile, Empty, Torn} \/ (file = Whole(file.cfg) /\ Good(file.cfg))

WritersSound ==
    /\ op.at \in Holding => Good(op.cfg)
    /\ sc = Idle \/ (/\ sc = [at |-> sc.at, cfg |-> sc.cfg]
                     /\ sc.at \in Holding /\ Good(sc.cfg))

(* A file is empty while it is written, and it is one process that does.   *)
OneWriter ==
    /\ ~(op.at = "writing" /\ sc.at = "writing")
    /\ (op.at = "writing" \/ sc.at = "writing") => file = Empty
    /\ (op.at # "writing" /\ sc.at # "writing") => file \notin {Empty, Torn}

ConfigInv ==
    /\ FileSound /\ WritersSound
    /\ ~damaged => OneWriter
    /\ Up => Good(sup.cfg)

LEMMA FileStates ==
    /\ NoFile # Empty /\ NoFile # Torn /\ Empty # Torn
    /\ \A cfg : Whole(cfg) \notin {NoFile, Empty, Torn} /\ Whole(cfg).cfg = cfg
  BY DEF NoFile, Empty, Torn, Whole

LEMMA LoadableGood == FileSound /\ Loadable => Good(file.cfg)
  BY DEF FileSound, Loadable, NoFile, Empty, Torn

(* migrate() changes nothing that validate() looks at. *)
LEMMA MigratedGood ==
    ASSUME NEW cfg, Good(cfg)
    PROVE  Good(Migrated(cfg))
  <1> DEFINE m == Migrated(cfg)
  <1>1. CurrentVersion \in 0..(U32 - 1) /\ cfg.version \in 0..(U32 - 1)
    BY ConfigAssumption DEF Good, IsConfig
  <1>2. cfg = [version |-> cfg.version, scope |-> cfg.scope,
               bases |-> cfg.bases, pools |-> cfg.pools]
    BY DEF Good, IsConfig
  <1>3. /\ m = [version |-> m.version, scope |-> cfg.scope,
                bases |-> cfg.bases, pools |-> cfg.pools]
        /\ m.version \in {cfg.version, CurrentVersion}
    BY <1>2 DEF Migrated
  <1>4. m.version \in 0..(U32 - 1) /\ m.version <= CurrentVersion
    BY <1>1, <1>3 DEF Good
  <1>5. m.scope = cfg.scope /\ m.bases = cfg.bases /\ m.pools = cfg.pools
    BY <1>3
  <1> HIDE DEF m
  <1>6. IsConfig(m)
    BY <1>3, <1>4, <1>5 DEF Good, IsConfig
  <1>7. Valid(m)
    BY <1>5 DEF Good, Valid
  <1> QED  BY <1>4, <1>6, <1>7 DEF Good, m

(* scale keeps the shape of a configuration, whatever numbers it is given. *)
LEMMA ScaledTyped ==
    ASSUME NEW cfg, IsConfig(cfg), NEW s \in Scales
    PROVE  IsConfig(Scaled(cfg, s)) /\ Scaled(cfg, s).version = cfg.version
  <1> DEFINE New(pool) == [pool EXCEPT !.min_warm = IF s.min = Keep THEN @ ELSE s.min,
                                       !.max = IF s.max = Keep THEN @ ELSE s.max]
             pools == [p \in DOMAIN cfg.pools |->
                         IF cfg.pools[p].name # s.pool THEN cfg.pools[p]
                         ELSE New(cfg.pools[p])]
             d == Scaled(cfg, s)
  <1>1. ASSUME NEW pool, IsPool(pool) PROVE IsPool(New(pool))
    <2> DEFINE low == IF s.min = Keep THEN pool.min_warm ELSE s.min
               high == IF s.max = Keep THEN pool.max ELSE s.max
    <2>1. low \in 0..(U32 - 1) /\ high \in 0..(U32 - 1)
      BY <1>1, DeploymentAssumption DEF IsPool
    <2>2. pool = [name |-> pool.name, labels |-> pool.labels, base |-> pool.base,
                  min_warm |-> pool.min_warm, max |-> pool.max,
                  slot_base |-> pool.slot_base]
      BY <1>1 DEF IsPool
    <2>3. New(pool) = [pool EXCEPT !.min_warm = low, !.max = high]
      OBVIOUS
    <2> HIDE DEF low, high, New
    <2>4. New(pool) = [name |-> pool.name, labels |-> pool.labels,
                       base |-> pool.base, min_warm |-> low, max |-> high,
                       slot_base |-> pool.slot_base]
      BY ONLY <2>2, <2>3
    <2> QED  BY <1>1, <2>1, <2>4 DEF IsPool
  <1>2. cfg = [version |-> cfg.version, scope |-> cfg.scope,
               bases |-> cfg.bases, pools |-> cfg.pools]
    BY DEF IsConfig
  <1>3. d = [cfg EXCEPT !.pools = pools]
    BY DEF Scaled
  <1>4. /\ DOMAIN pools = DOMAIN cfg.pools
        /\ pools = [p \in DOMAIN cfg.pools |-> pools[p]]
        /\ \A p \in DOMAIN cfg.pools :
              pools[p] = cfg.pools[p] \/ pools[p] = New(cfg.pools[p])
    OBVIOUS
  <1> HIDE DEF pools, d, New
  <1>5. /\ d.version = cfg.version /\ d.bases = cfg.bases /\ d.pools = pools
        /\ d = [version |-> d.version, scope |-> d.scope,
                bases |-> d.bases, pools |-> d.pools]
    BY ONLY <1>2, <1>3
  <1>6. \A p \in DOMAIN pools : IsPool(pools[p])
    BY <1>1, <1>4 DEF IsConfig
  <1>7. pools \in Seq({pools[p] : p \in DOMAIN pools})
    <2>1. PICK n \in Nat : DOMAIN cfg.pools = 1..n
      BY DEF IsConfig
    <2> QED  BY <1>4, <2>1
  <1>8. IsConfig(d)
    BY <1>5, <1>6, <1>7 DEF IsConfig
  <1> QED  BY <1>5, <1>8 DEF d

-----------------------------------------------------------------------------
(* A step that leaves the file, its writers and what runs alone keeps it.  *)
LEMMA ConfigElsewhere ==
    ASSUME ConfigInv, UNCHANGED <<file, sc, damaged>>,
           UNCHANGED op \/ (op.at \notin Holding /\ op'.at \notin Holding),
           UNCHANGED sup \/ ~Up'
    PROVE  ConfigInv'
  <1>1. FileSound' /\ WritersSound'
    BY DEF ConfigInv, FileSound, WritersSound
  <1>2. ~damaged' => OneWriter'
    BY DEF ConfigInv, OneWriter, Holding
  <1>3. Up' => Good(sup'.cfg)
    BY DEF ConfigInv, Up
  <1> QED  BY <1>1, <1>2, <1>3 DEF ConfigInv

LEMMA ScaleGood == ConfigInv /\ Scale => ConfigInv'
  <1> SUFFICES ASSUME ConfigInv, Scale PROVE ConfigInv'
    OBVIOUS
  <1>1. PICK s \in Scales :
          /\ Valid(Scaled(file.cfg, s))
          /\ sc' = [at |-> "write", cfg |-> Scaled(file.cfg, s)]
    BY DEF Scale
  <1>2. UNCHANGED <<file, op, sup, damaged>> /\ sc = Idle /\ Loadable
    BY DEF Scale, history
  <1>3. Good(file.cfg)
    BY <1>2, LoadableGood DEF ConfigInv
  <1>4. Good(Scaled(file.cfg, s))
    BY <1>1, <1>3, ScaledTyped DEF Good
  <1>5. WritersSound'
    BY <1>1, <1>2, <1>4 DEF ConfigInv, WritersSound, Holding
  <1>6. ~damaged' => OneWriter'
    BY <1>1, <1>2 DEF ConfigInv, OneWriter, Idle
  <1>7. FileSound' /\ (Up' => Good(sup'.cfg))
    BY <1>2 DEF ConfigInv, FileSound, Up
  <1> QED  BY <1>5, <1>6, <1>7 DEF ConfigInv

LEMMA ScaleWriteGood == ConfigInv /\ ScaleWrite => ConfigInv'
  <1> SUFFICES ASSUME ConfigInv, ScaleWrite PROVE ConfigInv'
    OBVIOUS
  <1>1. /\ sc.at = "write" /\ sc' = [sc EXCEPT !.at = "writing"] /\ file' = Empty
        /\ UNCHANGED <<op, sup>>
    BY DEF ScaleWrite, WriteBegin
  <1>2. sc = [at |-> sc.at, cfg |-> sc.cfg] /\ Good(sc.cfg)
    BY <1>1 DEF ConfigInv, WritersSound, Idle
  <1>3. sc' = [at |-> "writing", cfg |-> sc.cfg]
    BY <1>1, <1>2
  <1>4. WritersSound'
    BY <1>1, <1>2, <1>3 DEF ConfigInv, WritersSound, Holding
  <1>5. ~damaged' => op.at # "writing"
    BY DEF ScaleWrite, WriteBegin, Writers
  <1>6. ~damaged' => OneWriter'
    BY <1>1, <1>3, <1>5 DEF OneWriter
  <1>7. FileSound' /\ (Up' => Good(sup'.cfg))
    BY <1>1 DEF ConfigInv, FileSound, Up
  <1> QED  BY <1>4, <1>6, <1>7 DEF ConfigInv

LEMMA InstallWriteGood == UpdateInv /\ ConfigInv /\ InstallWrite => ConfigInv'
  <1> SUFFICES ASSUME UpdateInv, ConfigInv, InstallWrite PROVE ConfigInv'
    OBVIOUS
  <1>1. /\ op.at = "write" /\ file' = Empty /\ UNCHANGED <<sc, sup>>
        /\ op' = [at |-> "writing", upgrade |-> op.upgrade, cfg |-> op.cfg]
    BY DEF InstallWrite, WriteBegin, UpdateInv, OpShape
  <1>2. WritersSound'
    BY <1>1 DEF ConfigInv, WritersSound, Holding
  <1>3. ~damaged' => sc.at # "writing"
    BY DEF InstallWrite, WriteBegin, Writers
  <1>4. ~damaged' => OneWriter'
    BY <1>1, <1>3 DEF OneWriter
  <1>5. FileSound' /\ (Up' => Good(sup'.cfg))
    BY <1>1 DEF ConfigInv, FileSound, Up
  <1> QED  BY <1>2, <1>4, <1>5 DEF ConfigInv

(* The end of a write, by either: where nobody has interfered, the file is *)
(* still as the beginning has left it.                                     *)
LEMMA WriteEndGood ==
    ASSUME ConfigInv, NEW cfg, Good(cfg), WriteEnd(cfg), UNCHANGED <<sup, damaged>>,
           \/ op.at = "writing" /\ op'.at \notin Holding /\ UNCHANGED sc
           \/ sc.at = "writing" /\ sc' = Idle /\ UNCHANGED op
    PROVE  ConfigInv'
  <1>1. FileSound'
    BY FileStates DEF WriteEnd, FileSound
  <1>2. WritersSound'
    BY DEF ConfigInv, WritersSound
  <1>3. ASSUME ~damaged' PROVE OneWriter'
    <2>1. OneWriter /\ file = Empty
      BY <1>3 DEF ConfigInv, OneWriter
    <2>2. file' = Whole(cfg)
      BY <2>1 DEF WriteEnd
    <2>3. file' \notin {Empty, Torn}
      BY <2>2, FileStates
    <2>4. op'.at # "writing" /\ sc'.at # "writing"
      BY <2>1 DEF OneWriter, Holding, Idle
    <2> QED  BY <2>3, <2>4 DEF OneWriter
  <1>4. Up' => Good(sup'.cfg)
    BY DEF ConfigInv, Up
  <1> QED  BY <1>1, <1>2, <1>3, <1>4 DEF ConfigInv

LEMMA InstallLoadGood == ConfigInv /\ InstallLoad => ConfigInv'
  <1> SUFFICES ASSUME ConfigInv, InstallLoad PROVE ConfigInv'
    OBVIOUS
  <1>1. op.at = "load" /\ UNCHANGED <<file, sc, sup, damaged>>
    BY DEF InstallLoad, history
  <1>2. CASE op'.at \notin Holding
    BY <1>1, <1>2, ConfigElsewhere DEF Holding
  <1>3. ASSUME NEW up, NEW cfg, Good(cfg),
               op' = [at |-> "write", upgrade |-> up, cfg |-> cfg]
        PROVE  ConfigInv'
    <2>1. WritersSound'
      BY <1>1, <1>3 DEF ConfigInv, WritersSound
    <2>2. ~damaged' => OneWriter'
      BY <1>1, <1>3 DEF ConfigInv, OneWriter
    <2>3. FileSound' /\ (Up' => Good(sup'.cfg))
      BY <1>1 DEF ConfigInv, FileSound, Up
    <2> QED  BY <2>1, <2>2, <2>3 DEF ConfigInv
  <1>4. CASE Loadable
    <2>1. Good(file.cfg) /\ Good(Migrated(file.cfg))
      BY <1>4, LoadableGood, MigratedGood DEF ConfigInv
    <2>2. \/ op'.at \in {"units", "idle"}
          \/ op' = [at |-> "write", upgrade |-> TRUE, cfg |-> Migrated(file.cfg)]
          \/ file = NoFile
      BY DEF InstallLoad, Idle
    <2>3. file # NoFile
      BY <1>4 DEF Loadable, NoFile
    <2> QED  BY <1>2, <1>3, <2>1, <2>2, <2>3 DEF Holding
  <1>5. CASE ~Loadable
    <2>1. \/ op' = Idle
          \/ \E cfg \in Prompted :
               op' = [at |-> "write", upgrade |-> op.upgrade, cfg |-> cfg]
      BY <1>5 DEF InstallLoad
    <2>2. \A cfg \in Prompted : Good(cfg)
      BY DeploymentAssumption DEF Good
    <2> QED  BY <1>2, <1>3, <2>1, <2>2 DEF Idle, Holding
  <1> QED  BY <1>4, <1>5

LEMMA InterruptedGood == ConfigInv /\ Interrupted => ConfigInv'
  <1> SUFFICES ASSUME ConfigInv, Interrupted PROVE ConfigInv'
    OBVIOUS
  <1>1. UNCHANGED <<file, sup>>
    BY DEF Interrupted
  <1>2. \/ op' = Idle /\ UNCHANGED sc /\ (~damaged' => ~damaged /\ op.at # "writing")
        \/ sc' = Idle /\ UNCHANGED op /\ (~damaged' => ~damaged /\ sc.at # "writing")
    BY DEF Interrupted
  <1>3. WritersSound'
    BY <1>2 DEF ConfigInv, WritersSound, Idle, Holding
  <1>4. ~damaged' => OneWriter'
    BY <1>1, <1>2 DEF ConfigInv, OneWriter, Idle
  <1>5. FileSound' /\ (Up' => Good(sup'.cfg))
    BY <1>1 DEF ConfigInv, FileSound, Up
  <1> QED  BY <1>3, <1>4, <1>5 DEF ConfigInv

LEMMA SupervisorStartsGood == ConfigInv /\ SupervisorStarts => ConfigInv'
  <1> SUFFICES ASSUME ConfigInv, SupervisorStarts PROVE ConfigInv'
    OBVIOUS
  <1>1. UNCHANGED <<file, op, sc, damaged>> /\ sup'.cfg = file.cfg
    BY DEF SupervisorStarts, history
  <1>2. Good(sup'.cfg)
    BY <1>1, LoadableGood DEF SupervisorStarts, ConfigInv
  <1>3. FileSound' /\ WritersSound' /\ (~damaged' => OneWriter')
    BY <1>1 DEF ConfigInv, FileSound, WritersSound, OneWriter
  <1> QED  BY <1>2, <1>3 DEF ConfigInv

-----------------------------------------------------------------------------
LEMMA ConfigInit == Init => ConfigInv
  <1> SUFFICES ASSUME Init PROVE ConfigInv
    OBVIOUS
  <1>1. \A cfg \in OldConfigs : Good(cfg)
    BY DeploymentAssumption DEF Good
  <1>2. file = NoFile \/ \E cfg \in OldConfigs : file = Whole(cfg)
    BY DEF Init
  <1>3. FileSound /\ file \notin {Empty, Torn}
    BY <1>1, <1>2, FileStates DEF FileSound
  <1>4. WritersSound
    BY DEF Init, WritersSound, Idle, Holding
  <1>5. OneWriter
    BY <1>3 DEF Init, OneWriter, Idle
  <1>6. ~Up
    BY DEF Init, Up
  <1> QED  BY <1>3, <1>4, <1>5, <1>6 DEF ConfigInv

LEMMA ConfigStep == UpdateInv /\ ConfigInv /\ [Next]_vars => ConfigInv'
  <1> SUFFICES ASSUME UpdateInv, ConfigInv, [Next]_vars PROVE ConfigInv'
    OBVIOUS
  <1>1. CASE CheckStep \/ Publish \/ UNCHANGED vars
    <2>1. UNCHANGED <<file, op, sc, damaged, sup>>
      BY <1>1 DEF CheckStep, CheckStarts, CheckApplies, Publish, vars, history
    <2> QED  BY <2>1, ConfigElsewhere
  <1>2. CASE SupervisorDies
    <2>1. UNCHANGED <<file, op, sc, damaged>> /\ ~Up'
      BY <1>2 DEF SupervisorDies, SupervisorEnds, Waiting, Up, history
    <2> QED  BY <2>1, ConfigElsewhere
  <1>3. CASE SelfUpdate \/ Install
    <2>1. UNCHANGED <<file, sc, damaged, sup>>
      BY <1>3 DEF SelfUpdate, Install, history
    <2>2. op.at = "idle" /\ op'.at \in {"download", "load"}
      BY <1>3 DEF SelfUpdate, Install, Idle
    <2> QED  BY <2>1, <2>2, ConfigElsewhere DEF Holding
  <1>4. CASE Download \/ Verify \/ Extract
    <2>1. UNCHANGED <<file, sc, damaged, sup>>
      BY <1>4 DEF Download, Verify, Extract, history
    <2>2. op.at \in Updating
      BY <1>4 DEF Download, Verify, Extract, Updating
    <2>3. op \in Updates
      BY <2>2 DEF UpdateInv, OpShape
    <2>4. ASSUME Download PROVE op'.at \notin Holding
      <3>1. CASE op' = Idle
        BY <3>1 DEF Idle, Holding
      <3>2. ASSUME NEW tar, op' = [op EXCEPT !.at = "verify", !.tar = tar]
            PROVE  op'.at \notin Holding
        <4>1. op'.at = "verify"
          BY <2>3, <3>2 DEF Updates
        <4> QED  BY <4>1 DEF Holding
      <3> QED  BY <2>4, <3>1, <3>2 DEF Download
    <2>5. ASSUME Verify PROVE op'.at \notin Holding
      BY <2>3, <2>5 DEF Verify, Updates, Idle, Holding
    <2>6. ASSUME Extract PROVE op'.at \notin Holding
      BY <2>3, <2>6 DEF Extract, Updates, Idle, Holding
    <2>7. op'.at \notin Holding
      BY <1>4, <2>4, <2>5, <2>6
    <2> QED  BY <2>1, <2>2, <2>7, ConfigElsewhere DEF Holding, Updating
  <1>5. CASE Swap
    <2>1. UNCHANGED <<file, sc, damaged, sup>> /\ op.at = "swap"
      BY <1>5 DEF Swap
    <2>2. op'.at \notin Holding
      BY <1>5 DEF Swap, PostUpgrade, Idle, Holding
    <2> QED  BY <2>1, <2>2, ConfigElsewhere DEF Holding
  <1>6. CASE InstallUnits
    <2>1. UNCHANGED <<file, sc, damaged>> /\ op.at = "units"
      BY <1>6 DEF InstallUnits, history
    <2>2. op'.at \notin Holding
      BY <1>6 DEF InstallUnits, Idle, Holding
    <2>3. UNCHANGED sup \/ ~Up'
      BY <1>6 DEF InstallUnits, EnableNow, Waiting, Up
    <2> QED  BY <2>1, <2>2, <2>3, ConfigElsewhere DEF Holding
  <1>7. CASE InstallRestart
    <2>1. UNCHANGED <<file, sc, damaged>> /\ op.at = "restart" /\ op' = Idle
      BY <1>7 DEF InstallRestart
    <2>2. UNCHANGED sup \/ ~Up'
      BY <1>7 DEF InstallRestart, SupervisorEnds, Waiting, Up
    <2> QED  BY <2>1, <2>2, ConfigElsewhere DEF Holding, Idle
  <1>8. CASE InstallWritten
    <2>1. /\ op.at = "writing" /\ WriteEnd(op.cfg) /\ UNCHANGED <<sc, sup, damaged>>
          /\ op'.at = "units"
      BY <1>8 DEF InstallWritten, history
    <2>2. Good(op.cfg)
      BY <2>1 DEF ConfigInv, WritersSound, Holding
    <2> QED  BY <2>1, <2>2, WriteEndGood DEF Holding
  <1>9. CASE ScaleWritten
    <2>1. /\ sc.at = "writing" /\ WriteEnd(sc.cfg) /\ UNCHANGED <<op, sup, damaged>>
          /\ sc' = Idle
      BY <1>9 DEF ScaleWritten, history
    <2>2. Good(sc.cfg)
      BY <2>1 DEF ConfigInv, WritersSound, Idle
    <2> QED  BY <2>1, <2>2, WriteEndGood
  <1>10. CASE Scale
    BY <1>10, ScaleGood
  <1>11. CASE ScaleWrite
    BY <1>11, ScaleWriteGood
  <1>12. CASE InstallWrite
    BY <1>12, InstallWriteGood
  <1>13. CASE InstallLoad
    BY <1>13, InstallLoadGood
  <1>14. CASE SupervisorStarts
    BY <1>14, SupervisorStartsGood
  <1>15. CASE Interrupted
    BY <1>15, InterruptedGood
  <1> QED
    BY <1>1, <1>2, <1>3, <1>4, <1>5, <1>6, <1>7, <1>8, <1>9, <1>10, <1>11, <1>12,
       <1>13, <1>14, <1>15 DEF Next, OperatorStep, ScalerStep

(* No sequence of installs, upgrades and scales leaves a file that cannot  *)
(* be loaded, unless a write of it was cut off or two of them overlapped:  *)
(* each writes only what validate() has accepted.                          *)
THEOREM FileStaysLoadable == SafetySpec => []ConfigLoadable
  <1>1. ConfigInv => ConfigLoadable
    <2> SUFFICES ASSUME ConfigInv, file # NoFile, Writers = {}, ~damaged
                 PROVE  Loadable
      BY DEF ConfigLoadable
    <2>1. op.at # "writing" /\ sc.at # "writing"
      BY DEF Writers
    <2>2. file = Whole(file.cfg) /\ Good(file.cfg)
      BY <2>1 DEF ConfigInv, OneWriter, FileSound
    <2> QED  BY <2>2 DEF Loadable, Whole, Good
  <1> QED
    BY <1>1, UpdateInit, UpdateStep, ConfigInit, ConfigStep, PTL DEF SafetySpec

(* The slots a running supervisor works with: no two of its pools share a  *)
(* number, though validate() compares neighbours only, in 32 bits, and the *)
(* file has been changed since and is not read again.                      *)
RunningPoolsApart ==
    Up => \A p, q \in DOMAIN sup.cfg.pools : p # q =>
              SlotsOf(sup.cfg.pools[p]) \cap SlotsOf(sup.cfg.pools[q]) = {}

THEOREM RunningPoolsDisjoint == SafetySpec => []RunningPoolsApart
  <1>1. ConfigInv => RunningPoolsApart
    BY SlotsDisjoint DEF ConfigInv, Good, RunningPoolsApart
  <1> QED
    BY <1>1, UpdateInit, UpdateStep, ConfigInit, ConfigStep, PTL DEF SafetySpec

-----------------------------------------------------------------------------
(* Types. *)

Places == {"idle", "download", "verify", "extract", "swap", "load",
           "write", "writing", "units", "restart"}

Binaries == [release: Ids, intact: BOOLEAN]

Found == Ids \union {NoRelease}

(* What the invariants above leave open of TypeOK, and the result that is  *)
(* on its way from the update check to the notice.                         *)
Remaining ==
    /\ exe \in Binaries
    /\ op.at \in Places /\ sup.state \in {"absent", "waiting", "up"}
    /\ check = NoCheck \/ (check.at = "sent" /\ check.found \in Found)
    /\ notice \in Found
    /\ commands \in 0..MaxCommands /\ faults \in 0..MaxFaults
    /\ damaged \in BOOLEAN /\ upgraded \in BOOLEAN

LEMMA StepsCount == Next => NoFault \/ Fault \/ Command
  <1>1. Scale \/ SelfUpdate \/ Install => Command
    BY DEF Scale, SelfUpdate, Install
  <1>2. Download => NoFault \/ Fault
    BY DEF Download, Streamed
  <1>3. Verify \/ Extract \/ Swap => NoFault \/ Fault
    BY DEF Verify, Extract, Swap
  <1>4. InstallLoad \/ InstallWrite \/ InstallWritten => NoFault
    BY DEF InstallLoad, InstallWrite, InstallWritten, NoFault
  <1>5. InstallUnits \/ InstallRestart => NoFault \/ Fault
    BY DEF InstallUnits, InstallRestart
  <1>6. ScaleWrite \/ ScaleWritten \/ SupervisorStarts \/ Publish => NoFault
    BY DEF ScaleWrite, ScaleWritten, SupervisorStarts, Publish, NoFault
  <1>7. SupervisorDies \/ Interrupted => Fault
    BY DEF SupervisorDies, Interrupted
  <1>8. CheckStarts => NoFault \/ Fault
    BY DEF CheckStarts, LatestVersion
  <1>9. CheckApplies => NoFault
    BY DEF CheckApplies, NoFault
  <1> QED
    BY <1>1, <1>2, <1>3, <1>4, <1>5, <1>6, <1>7, <1>8, <1>9
       DEF Next, OperatorStep, ScalerStep, CheckStep

LEMMA CountersStep ==
    ASSUME commands \in 0..MaxCommands, faults \in 0..MaxFaults, [Next]_vars
    PROVE  commands' \in 0..MaxCommands /\ faults' \in 0..MaxFaults
  <1>1. CASE NoFault \/ UNCHANGED vars
    BY <1>1 DEF NoFault, bounds, vars
  <1>2. CASE Fault \/ Command
    BY <1>2, DeploymentAssumption DEF Fault, Command
  <1> QED  BY <1>1, <1>2, StepsCount

LEMMA OpMoves ==
    ASSUME UpdateInv, op.at \in Places, [Next]_vars
    PROVE  op'.at \in Places
  <1>1. CASE UNCHANGED op
    BY <1>1
  <1>2. CASE op' = Idle
    BY <1>2 DEF Idle, Places
  <1>3. ASSUME op.at \in Updating,
               NEW at \in Places, NEW tar, op' = [op EXCEPT !.at = at, !.tar = tar]
        PROVE  op'.at \in Places
    BY <1>3 DEF UpdateInv, OpShape, Updates
  <1>4. ASSUME op.at \in Updating,
               NEW at \in Places, op' = [op EXCEPT !.at = at]
        PROVE  op'.at \in Places
    BY <1>4 DEF UpdateInv, OpShape, Updates
  <1>5. CASE SelfUpdate \/ Install \/ InstallLoad \/ InstallWritten \/ InstallUnits
               \/ InstallRestart
    BY <1>5 DEF SelfUpdate, Install, InstallLoad, InstallWritten, InstallUnits,
                InstallRestart, Idle, Places
  <1>6. CASE Swap
    BY <1>6 DEF Swap, PostUpgrade, Idle, Places
  <1>7. CASE Download
    BY <1>2, <1>3, <1>7 DEF Download, Updating, Places
  <1>8. CASE Verify
    BY <1>2, <1>4, <1>8 DEF Verify, Updating, Places
  <1>9. CASE Extract
    BY <1>2, <1>4, <1>9 DEF Extract, Updating, Places
  <1>10. CASE InstallWrite
    <2>1. op' = [at |-> "writing", upgrade |-> op.upgrade, cfg |-> op.cfg]
      BY <1>10 DEF InstallWrite, UpdateInv, OpShape
    <2> QED  BY <2>1 DEF Places
  <1>11. CASE Scale \/ ScalerStep \/ SupervisorStarts \/ SupervisorDies
                \/ CheckStep \/ Publish \/ Interrupted \/ UNCHANGED vars
    <2>1. op' = op \/ op' = Idle
      BY <1>11 DEF Scale, ScalerStep, ScaleWrite, ScaleWritten, SupervisorStarts,
                   SupervisorDies, CheckStep, CheckStarts, CheckApplies, Publish,
                   Interrupted, vars
    <2> QED  BY <1>1, <1>2, <2>1
  <1> QED
    BY <1>5, <1>6, <1>7, <1>8, <1>9, <1>10, <1>11 DEF Next, OperatorStep

LEMMA ExeMoves ==
    ASSUME UpdateInv, exe \in Binaries, [Next]_vars
    PROVE  exe' \in Binaries
  <1>1. CASE UNCHANGED exe
    BY <1>1 DEF Binaries, Ids
  <1>2. CASE Swap
    <2>1. op.release \in Ids
      BY <1>2 DEF Swap, UpdateInv, OpShape, Updates, Updating
    <2>2. \A b \in BOOLEAN : [release |-> op.release, intact |-> b] \in Binaries
      BY <2>1 DEF Binaries
    <2>3. (op.tar = "intact") \in BOOLEAN
      OBVIOUS
    <2>4. UNCHANGED exe
            \/ exe' = [release |-> op.release, intact |-> op.tar = "intact"]
      BY <1>2 DEF Swap
    <2>5. [release |-> op.release, intact |-> op.tar = "intact"] \in Binaries
      BY <2>2, <2>3, Zenon
    <2>6. Binaries' = Binaries
      BY DEF Binaries, Ids
    <2> QED  BY <2>4, <2>5, <2>6, Zenon
  <1> QED
    BY <1>1, <1>2
    DEF Next, OperatorStep, ScalerStep, CheckStep, Scale, ScaleWrite, ScaleWritten,
        SelfUpdate, Download, Verify, Extract, Install, InstallLoad, InstallWrite,
        InstallWritten, InstallUnits, InstallRestart, SupervisorStarts,
        SupervisorDies, CheckStarts, CheckApplies, Publish, Interrupted, vars

LEMMA SupMoves ==
    ASSUME sup.state \in {"absent", "waiting", "up"}, [Next]_vars
    PROVE  sup'.state \in {"absent", "waiting", "up"}
  <1>1. CASE UNCHANGED sup
    BY <1>1
  <1>2. CASE SupervisorStarts \/ SupervisorDies \/ InstallRestart \/ InstallUnits
    BY <1>2 DEF SupervisorStarts, SupervisorDies, InstallRestart, InstallUnits,
                EnableNow, SupervisorEnds, Waiting
  <1> QED
    BY <1>1, <1>2
    DEF Next, OperatorStep, ScalerStep, CheckStep, Scale, ScaleWrite, ScaleWritten,
        SelfUpdate, Download, Verify, Extract, Swap, Install, InstallLoad,
        InstallWrite, InstallWritten, CheckStarts, CheckApplies, Publish,
        Interrupted, vars

(* The check and the notice hold releases that were the latest once. *)
LEMMA CheckMoves ==
    ASSUME latest \in Ids, notice \in Found,
           check = NoCheck \/ (check.at = "sent" /\ check.found \in Found),
           [Next]_vars
    PROVE  /\ notice' \in Found
           /\ check' = NoCheck \/ (check'.at = "sent" /\ check'.found \in Found)
  <1>1. CASE UNCHANGED background
    BY <1>1 DEF background
  <1>2. CASE SupervisorDies \/ InstallRestart
    BY <1>1, <1>2 DEF SupervisorDies, InstallRestart, SupervisorEnds, Found,
                      background
  <1>3. CASE CheckStarts
    BY <1>3 DEF CheckStarts, Found
  <1>4. CASE CheckApplies
    <2>1. check.found \in Found /\ check' = NoCheck
      BY <1>4 DEF CheckApplies, NoCheck
    <2>2. notice' \in {notice, check.found, NoRelease}
      BY <1>4 DEF CheckApplies, Noticed
    <2> QED  BY <2>1, <2>2 DEF Found
  <1> QED
    BY <1>1, <1>2, <1>3, <1>4
    DEF Next, OperatorStep, ScalerStep, CheckStep, Scale, ScaleWrite, ScaleWritten,
        SelfUpdate, Download, Verify, Extract, Swap, Install, InstallLoad,
        InstallWrite, InstallWritten, InstallUnits, SupervisorStarts, Publish,
        Interrupted, vars

LEMMA HistoryMoves ==
    ASSUME damaged \in BOOLEAN, upgraded \in BOOLEAN, [Next]_vars
    PROVE  damaged' \in BOOLEAN /\ upgraded' \in BOOLEAN
  <1>1. CASE UNCHANGED history
    BY <1>1 DEF history
  <1>2. CASE ScaleWrite \/ InstallWrite
    <2>1. damaged' = (damaged \/ Writers # {}) /\ UNCHANGED upgraded
      BY <1>2 DEF ScaleWrite, InstallWrite, WriteBegin
    <2>2. damaged' \in BOOLEAN
      BY <2>1, Zenon
    <2> QED  BY <2>1, <2>2
  <1>3. CASE Interrupted
    <2>1. /\ \/ damaged' = (damaged \/ op.at = "writing")
             \/ damaged' = (damaged \/ sc.at = "writing")
          /\ UNCHANGED upgraded
      BY <1>3, Zenon DEF Interrupted
    <2>2. damaged' \in BOOLEAN
      BY <2>1, Zenon
    <2> QED  BY <2>1, <2>2
  <1>4. CASE Swap \/ InstallRestart
    <2>1. /\ UNCHANGED damaged
          /\ upgraded' = TRUE \/ upgraded' = FALSE \/ UNCHANGED upgraded
      BY <1>4, Zenon DEF Swap, InstallRestart
    <2> QED  BY <2>1, Zenon
  <1> QED
    BY <1>1, <1>2, <1>3, <1>4
    DEF Next, OperatorStep, ScalerStep, CheckStep, Scale, ScaleWritten,
        SelfUpdate, Download, Verify, Extract, Install, InstallLoad,
        InstallWritten, InstallUnits, SupervisorStarts, SupervisorDies,
        CheckStarts, CheckApplies, Publish, vars

LEMMA RemainingInit == Init => Remaining
  <1> SUFFICES ASSUME Init PROVE Remaining
    OBVIOUS
  <1>1. op.at \in Places /\ sup.state \in {"absent", "waiting", "up"}
    BY DEF Init, Idle, Places
  <1>2. check = NoCheck /\ notice \in Found
    BY DEF Init, Found
  <1>3. commands \in 0..MaxCommands /\ faults \in 0..MaxFaults
    BY DeploymentAssumption DEF Init
  <1>4. damaged \in BOOLEAN /\ upgraded \in BOOLEAN
    BY DEF Init
  <1>5. exe \in Binaries
    <2>1. 1 \in Ids
      BY DeploymentAssumption DEF Ids
    <2> QED  BY <2>1 DEF Init, Binaries
  <1> QED  BY <1>1, <1>2, <1>3, <1>4, <1>5 DEF Remaining

LEMMA RemainingStep == UpdateInv /\ Remaining /\ [Next]_vars => Remaining'
  <1> SUFFICES ASSUME UpdateInv, Remaining, [Next]_vars PROVE Remaining'
    OBVIOUS
  <1>1. latest \in Ids
    BY DEF UpdateInv
  <1>2. exe' \in Binaries /\ op'.at \in Places
        /\ sup'.state \in {"absent", "waiting", "up"}
    BY ExeMoves, OpMoves, SupMoves DEF Remaining
  <1>3. /\ notice' \in Found
        /\ check' = NoCheck \/ (check'.at = "sent" /\ check'.found \in Found)
    BY <1>1, CheckMoves DEF Remaining
  <1>4. commands' \in 0..MaxCommands /\ faults' \in 0..MaxFaults
    BY CountersStep DEF Remaining
  <1>5. damaged' \in BOOLEAN /\ upgraded' \in BOOLEAN
    BY HistoryMoves DEF Remaining
  <1> QED  BY <1>2, <1>3, <1>4, <1>5 DEF Remaining

(* Every step of installer, updater, scaler and supervisor keeps the types *)
(* of the state, and the configuration file one that serde reads and that  *)
(* is not of a later version than the program's.                           *)
THEOREM DeploymentTypes == SafetySpec => []TypeOK
  <1>1. UpdateInv /\ ConfigInv /\ Remaining => TypeOK
    <2> SUFFICES ASSUME UpdateInv, ConfigInv, Remaining PROVE TypeOK
      OBVIOUS
    <2>1. published \subseteq Ids /\ latest \in Ids
      BY DEF UpdateInv
    <2>2. \/ file \in {NoFile, Empty, Torn}
          \/ /\ file = Whole(file.cfg)
             /\ IsConfig(file.cfg) /\ file.cfg.version <= CurrentVersion
      BY DEF ConfigInv, FileSound, Good
    <2>3. sc.at \in {"idle", "write", "writing"}
      BY DEF ConfigInv, WritersSound, Idle, Holding
    <2>4. check.at \in {"none", "sent"}
      BY DEF Remaining, NoCheck
    <2> QED  BY <2>1, <2>2, <2>3, <2>4 DEF Remaining, TypeOK, Binaries, Places, Found
  <1> QED
    BY <1>1, UpdateInit, UpdateStep, ConfigInit, ConfigStep, RemainingInit,
       RemainingStep, PTL DEF SafetySpec
=============================================================================
