------------------------------ MODULE Release ------------------------------
(***************************************************************************)
(* Releases of the package: the local flow (scripts/release.mjs), the CI   *)
(* flow (scripts/release-ci.mjs), the rules they share (release-lib.mjs)   *)
(* and the safeguard of the tag (verify-release-tag.mjs).  Others push to  *)
(* main meanwhile, and a run may die between any two of its commands and   *)
(* be started again.                                                       *)
(*                                                                         *)
(* History is linear.  A commit is the history that ends with it: a        *)
(* sequence of records with what the commit is, and the version in         *)
(* package.json and the sections of CHANGELOG.md as of it.                 *)
(***************************************************************************)
EXTENDS Integers, FiniteSets, Sequences, SequencesExt, Filter

CONSTANTS
  WorkTypes,   \* types of the commits that others push
  MaxHistory,  \* bound: commits of main before releases stop
  MaxReleases  \* bound: runs of the two flows

VARIABLES
  main, tags, published,        \* origin: the branch, the tags and the GitHub releases
  clone, ownTags, dirty,        \* the maintainer's clone, and its working tree
  local,                        \* the run of release.mjs
  ci,                           \* the run of release.mjs --ci
  begun,                       \* how many runs there were
  cutShort,                  \* a local run died after it had written something (history)
  stale                         \* a run committed above work that it had not checked out, above a
                                \* release without its tag, or with nothing new to release (history)

originVars == <<main, tags, published>>
cloneVars  == <<clone, ownTags, dirty>>
releaseVars == <<originVars, cloneVars, local, ci, begun, cutShort, stale>>

-----------------------------------------------------------------------------
(* release-lib.mjs. *)

\* The first part that differs decides; equal versions have none.
IsNewerParts(a, b) ==
  \E i \in 1..3 : a[i] # b[i] /\ a[i] > b[i] /\ \A j \in 1..(i - 1) : a[j] = b[j]

\* The highest of the tags, which are all plain semver tags here, or 0.0.0 of none.
LatestSemverTag(versions) ==
  IF versions = {} THEN <<0, 0, 0>>
  ELSE CHOOSE v \in versions : \A w \in versions : ~IsNewerParts(w, v)

BumpOf(c) == CASE c.type = "breaking" -> 3 [] c.type = "feat" -> 2
               [] c.type = "fix" -> 1 [] OTHER -> 0

Bumped(v, level) ==
  CASE level = 3 -> <<v[1] + 1, 0, 0>> [] level = 2 -> <<v[1], v[2] + 1, 0>>
    [] OTHER -> <<v[1], v[2], v[3] + 1>>

\* The greatest bump of the commits, below 1.0 no more than a minor one; or no version.
ComputeNextVersion(commits, current) ==
  LET bump == CHOOSE b \in {0} \cup {BumpOf(c) : c \in commits} : \A c \in commits : BumpOf(c) <= b
  IN IF bump = 0 THEN <<>>
     ELSE Bumped(current, IF current[1] = 0 /\ bump = 3 THEN 2 ELSE bump)

Categories == <<"feat", "fix", "perf", "refactor", "test", "docs", "ci", "build", "chore">>

\* The groups of commits (given by their positions in h), Breaking first and Other last.
GroupChangelog(h, positions) ==
  LET of(types) == {p \in positions : h[p].type \in types}
      known == {Categories[i] : i \in 1..Len(Categories)} \cup {"breaking"}
      groups == <<of({"breaking"})>> \o [i \in 1..Len(Categories) |-> of({Categories[i]})]
                  \o <<positions \ of(known)>>
  IN Remaining(groups, {{}})

UserFacing(h, positions) == \E p \in positions : h[p].type \in {"breaking", "feat", "fix", "perf"}

\* Seeded fault: a release lists everything there ever was.
ReadCommitsSinceFirst(h, base) == {p \in 1..Len(h) : h[p].type \in WorkTypes}

\* git log base..h, of which the release commits themselves are left out.
ReadCommitsSince(h, base) == {p \in (Len(base) + 1)..Len(h) : h[p].type \in WorkTypes}

Section(v, positions) == [version |-> v, lists |-> positions]
HasSection(h, v) == \E s \in Last(h).sections : s.version = v

ReleaseCommit(h, type, v, sections) ==
  Append(h, [type |-> type, pkg |-> v, sections |-> sections])

-----------------------------------------------------------------------------

FirstVersion == <<0, 1, 0>>
Idle == [pc |-> "idle"]

ReleaseInit ==
  /\ main = << [type |-> "release", pkg |-> FirstVersion, sections |-> {Section(FirstVersion, {})}] >>
  /\ tags = [v \in {FirstVersion} |-> main] /\ published = {FirstVersion}
  /\ clone = main /\ ownTags = tags /\ dirty = FALSE
  /\ local = Idle /\ ci = Idle /\ begun = 0
  /\ cutShort = FALSE /\ stale = FALSE

\* Others push their work; it leaves the release files alone.
PushWork ==
  /\ Len(main) < MaxHistory
  /\ \E t \in WorkTypes : main' = Append(main, [Last(main) EXCEPT !.type = t])
  /\ UNCHANGED <<tags, published, cloneVars, local, ci, begun, cutShort, stale>>

\* git pull: fast-forward, and the tags of origin that the clone has not.
Pull ==
  /\ local = Idle /\ IsStrictPrefix(clone, main)
  /\ clone' = main
  /\ ownTags' = [v \in DOMAIN ownTags \cup DOMAIN tags |->
                   IF v \in DOMAIN ownTags THEN ownTags[v] ELSE tags[v]]
  /\ UNCHANGED <<originVars, dirty, local, ci, begun, cutShort, stale>>

\* The maintainer throws the changes of a run that died away.
Discard ==
  /\ local = Idle /\ dirty
  /\ dirty' = FALSE
  /\ UNCHANGED <<originVars, clone, ownTags, local, ci, begun, cutShort, stale>>

-----------------------------------------------------------------------------
(* release.mjs. *)

remoteAndRuns == <<ci, stale>>

\* Tags of the histories that h contains.
MergedTags(all, h) == {v \in DOMAIN all : IsPrefix(all[v], h)}
TagNearest(all, h) ==
  IF MergedTags(all, h) = {} THEN <<>>
  ELSE all[CHOOSE v \in MergedTags(all, h) : \A w \in MergedTags(all, h) : Len(all[w]) <= Len(all[v])]

\* The checks up to the first write, which end a run in one of many ways that change
\* nothing: a working tree that is not clean, a release that exists, a tag that is not
\* in HEAD's history, or one that origin has and the clone has not.
StartLocal(bump) ==
  LET v == IF bump = 0 THEN Last(clone).pkg ELSE Bumped(Last(clone).pkg, bump)
      hadOwn == v \in DOMAIN ownTags
      commit == IF hadOwn THEN ownTags[v] ELSE clone
      base   == TagNearest(ownTags, Front(commit))
  IN /\ local = Idle /\ begun < MaxReleases /\ Len(clone) < MaxHistory
     /\ ~dirty /\ v \notin published
     /\ hadOwn => IsPrefix(ownTags[v], clone)
     /\ v \in DOMAIN tags => hadOwn
     /\ local' = [pc |-> "write", version |-> v, hadOwn |-> hadOwn, hadRemote |-> v \in DOMAIN tags,
                  lists |-> ReadCommitsSince(commit, base), staged |-> FALSE]
     /\ begun' = begun + 1
     /\ UNCHANGED <<originVars, cloneVars, remoteAndRuns, cutShort>>

\* package.json, jsr.json and CHANGELOG.md, the last only if it has no section for the
\* version yet; README.md and SECURITY.md if there is something new to say.
WriteFiles ==
  /\ local.pc = "write"
  /\ LET bumps == local.version # Last(clone).pkg
         notes == UserFacing(clone, local.lists) /\ ~HasSection(clone, local.version)
     IN \E badge \in BOOLEAN :
          /\ dirty' = (bumps \/ notes \/ badge)
          /\ local' = [local EXCEPT !.pc = "commit", !.staged = dirty']
  /\ UNCHANGED <<originVars, clone, ownTags, remoteAndRuns, begun, cutShort>>

\* Every version that package.json had in h has its tag.
TaggedReleases(h, all) == {h[p].pkg : p \in 1..Len(h)} \subseteq DOMAIN all

\* HEAD itself is tagged: git describe, from HEAD's parent, does not see that tag.
HeadTagged == \E v \in DOMAIN ownTags : ownTags[v] = clone

Commit ==
  /\ local.pc = "commit"
  /\ IF ~local.staged THEN UNCHANGED clone
     ELSE clone' = ReleaseCommit(clone, "bump", local.version,
            Last(clone).sections \cup
              (IF UserFacing(clone, local.lists) /\ ~HasSection(clone, local.version)
               THEN {Section(local.version, local.lists)} ELSE {}))
  /\ dirty' = FALSE /\ local' = [local EXCEPT !.pc = "tag"]
  /\ stale' = (stale \/ (local.staged /\ (~TaggedReleases(clone, ownTags) \/ HeadTagged)))
  /\ UNCHANGED <<originVars, ownTags, ci, begun, cutShort>>

CreateTag ==
  /\ local.pc = "tag"
  /\ ownTags' = IF local.hadOwn THEN ownTags
                ELSE [v \in DOMAIN ownTags \cup {local.version} |->
                        IF v = local.version THEN clone ELSE ownTags[v]]
  /\ local' = [local EXCEPT !.pc = "push"]
  /\ UNCHANGED <<originVars, clone, dirty, remoteAndRuns, begun, cutShort>>

\* main is pushed only by the run that committed; origin refuses what is not a
\* fast-forward, and the run dies of it (LocalDies).
PushMain ==
  /\ local.pc = "push"
  /\ local.staged => IsPrefix(main, clone)
  /\ main' = IF local.staged THEN clone ELSE main
  /\ local' = [local EXCEPT !.pc = "pushTag"]
  /\ UNCHANGED <<tags, published, cloneVars, remoteAndRuns, begun, cutShort>>

\* origin refuses a tag that it has at another commit.
PushTag ==
  /\ local.pc = "pushTag"
  /\ LET v == local.version IN
     /\ ~local.hadRemote /\ v \in DOMAIN tags => tags[v] = ownTags[v]
     /\ tags' = IF local.hadRemote THEN tags
                ELSE [w \in DOMAIN tags \cup {v} |-> IF w = v THEN ownTags[v] ELSE tags[w]]
  /\ local' = [local EXCEPT !.pc = "publish"]
  /\ UNCHANGED <<main, published, cloneVars, remoteAndRuns, begun, cutShort>>

CreateRelease ==
  /\ local.pc = "publish"
  /\ published' = published \cup {local.version}
  /\ local' = Idle
  /\ UNCHANGED <<main, tags, cloneVars, remoteAndRuns, begun, cutShort>>

\* A command fails, the machine goes down, or the maintainer says no.
LocalDies ==
  /\ local # Idle
  /\ local' = Idle
  /\ cutShort' = (cutShort \/ local.pc # "write")
  /\ UNCHANGED <<originVars, cloneVars, remoteAndRuns, begun>>

-----------------------------------------------------------------------------
(* release-ci.mjs. *)

rest == <<published, cloneVars, local, cutShort>>

\* A run has the commit it was started for checked out: main's, or with a run that is
\* repeated an older one.  Without a releasable commit since the last tag it is over.
StartCi(h) ==
  LET base == LatestSemverTag(MergedTags(tags, h))
      positions == ReadCommitsSince(h, IF base \in DOMAIN tags THEN tags[base] ELSE <<>>)
      v == ComputeNextVersion({h[p] : p \in positions}, base)
  IN /\ ci = Idle /\ begun < MaxReleases /\ Len(main) < MaxHistory
     /\ v # <<>>
     /\ ci' = [pc |-> "look", checkout |-> h, version |-> v, lists |-> positions,
               fresh |-> TaggedReleases(h, tags)]
     /\ begun' = begun + 1
     /\ UNCHANGED <<main, tags, stale, rest>>

\* An existing tag is nothing to do.
TagThere ==
  /\ ci.pc = "look" /\ ci.version \in DOMAIN tags
  /\ ci' = Idle
  /\ UNCHANGED <<main, tags, begun, stale, rest>>

IsReleaseCommitOf(h, v) == Last(h).type = "release" /\ Last(h).pkg = v

\* getRef and getCommit of main: HEAD may be the release commit already; else the changelog
\* that was checked out must not have the section.
ReadHead ==
  /\ ci.pc = "look" /\ ci.version \notin DOMAIN tags
  /\ \/ /\ IsReleaseCommitOf(main, ci.version)
        /\ ci' = [pc |-> "tag", version |-> ci.version, commit |-> main]
     \/ /\ ~IsReleaseCommitOf(main, ci.version) /\ ~HasSection(ci.checkout, ci.version)
        /\ ci' = [pc |-> "commit", checkout |-> ci.checkout, version |-> ci.version,
                  lists |-> ci.lists, head |-> main, fresh |-> ci.fresh]
     \/ /\ ~IsReleaseCommitOf(main, ci.version) /\ HasSection(ci.checkout, ci.version)
        /\ ci' = Idle
  /\ UNCHANGED <<main, tags, begun, stale, rest>>

\* Blobs, tree and commit on the head that was read, with the files that were checked
\* out; the ref is updated without force.
CreateReleaseCommit ==
  /\ ci.pc = "commit"
  /\ IF main # ci.head THEN ci' = Idle /\ UNCHANGED <<main, stale>>
     ELSE /\ main' = ReleaseCommit(ci.head, "release", ci.version,
                       Last(ci.checkout).sections \cup {Section(ci.version, ci.lists)})
          /\ ci' = [pc |-> "tag", version |-> ci.version, commit |-> main']
          /\ stale' = (stale \/ ci.checkout # ci.head \/ ~ci.fresh)
  /\ UNCHANGED <<tags, begun, rest>>

\* The tag object, and the ref, which must not exist.
CreateTagRef ==
  /\ ci.pc = "tag"
  /\ tags' = IF ci.version \in DOMAIN tags THEN tags
             ELSE [v \in DOMAIN tags \cup {ci.version} |-> IF v = ci.version THEN ci.commit ELSE tags[v]]
  /\ ci' = Idle
  /\ UNCHANGED <<main, begun, stale, rest>>

CiDies ==
  /\ ci # Idle
  /\ ci' = Idle
  /\ UNCHANGED <<main, tags, begun, stale, rest>>

ReleaseNext ==
  \/ PushWork \/ Pull \/ Discard
  \/ \E bump \in 0..3 : StartLocal(bump)
  \/ WriteFiles \/ Commit \/ CreateTag \/ PushMain \/ PushTag \/ CreateRelease \/ LocalDies
  \/ \E n \in 1..Len(main) : StartCi(SubSeq(main, 1, n))
  \/ TagThere \/ ReadHead \/ CreateReleaseCommit \/ CreateTagRef \/ CiDies

-----------------------------------------------------------------------------

\* verifyReleaseTag; every tag made here is annotated and signed.
VerifyReleaseTag(v) == v \in DOMAIN tags /\ IsPrefix(tags[v], main)

Releases(h, v) == {p \in 1..Len(h) : h[p].type \in {"release", "bump"} /\ h[p].pkg = v
                                       /\ (p = 1 \/ h[p - 1].pkg # v)}

\* What is tagged has its version, always, and is what the safeguard accepts unless a local
\* run was cut short.  Unless one was, and as long as no run commits above what it had not
\* checked out, above a release without its tag, or when there is nothing new: versions
\* grow along main, one commit makes each of them, and no work is announced in two.  All
\* this holds with CI runs that die anywhere and are started again, with both flows at
\* once, and with pushes at any time.
ReleasesSound ==
  /\ \A v \in DOMAIN tags : Last(tags[v]).pkg = v
  /\ ~cutShort => \A v \in DOMAIN tags : VerifyReleaseTag(v)
  /\ ~cutShort /\ ~stale =>
       /\ \A p \in 2..Len(main) : ~IsNewerParts(main[p - 1].pkg, main[p].pkg)
       /\ \A p \in 1..Len(main) : Cardinality(Releases(main, main[p].pkg)) <= 1
       /\ \A s, t \in Last(main).sections : s # t => s.lists \cap t.lists = {}
  /\ \A s \in Last(main).sections :
       LET groups == GroupChangelog(main, s.lists) IN
       \A p \in s.lists : \E i \in 1..Len(groups) : p \in groups[i] /\ \A j \in 1..Len(groups) : p \in groups[j] => i = j

=============================================================================
