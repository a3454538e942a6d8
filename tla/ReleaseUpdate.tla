------------------------------ MODULE ReleaseUpdate ------------------------------
(***************************************************************************)
(* The checks of a release manifest (release.rs) by a client that installs *)
(* what passes them.  A version is the sequence of the numbers of its      *)
(* dotted components, without tags such as -rc1, which no check looks at;  *)
(* a component that is no u32, a word or a number that is too large, is    *)
(* one above MaxNumber.                                                    *)
(***************************************************************************)
EXTENDS Naturals, Sequences, SequencesExt

CONSTANTS
  Versions, Platforms, Digests,
  MaxNumber   \* largest u32; above it stands what is no number

VARIABLES
  installed,  \* [version, platform]
  past        \* history: the versions that were installed before

releaseVars == <<installed, past>>

Manifests ==
  [version : Versions, platform : Platforms, digest : Digests, signed : BOOLEAN]

ReleaseInit ==
  /\ installed \in [version : Versions, platform : Platforms]
  /\ past = {}

\* The signature must be there; what it says is not looked at.
VerifyArtifact(manifest, artifact) ==
  /\ artifact # ""
  /\ manifest.digest = artifact
  /\ manifest.signed

\* Tags are dropped, and so are components that are no number.
Numbers(version) ==
  FoldLeft(LAMBDA kept, number : IF number <= MaxNumber THEN Append(kept, number) ELSE kept,
           <<>>, version)

PartAt(numbers, i) == IF i \in DOMAIN numbers THEN numbers[i] ELSE 0

\* Mutant of IsVersionOlder: only components that both versions have are compared.
IsVersionOlderInCommon(attempted, current) ==
  LET a == Numbers(attempted)
      c == Numbers(current) IN
  \E i \in DOMAIN a \cap DOMAIN c :
    /\ a[i] < c[i]
    /\ \A j \in 1..(i - 1) : a[j] = c[j]

\* The first component that differs decides; a missing one is zero.
Older(a, c) ==
  \E i \in DOMAIN a \cup DOMAIN c :
    /\ PartAt(a, i) < PartAt(c, i)
    /\ \A j \in 1..(i - 1) : PartAt(a, j) = PartAt(c, j)

IsVersionOlder(attempted, current) == Older(Numbers(attempted), Numbers(current))

InstallRelease ==
  \E manifest \in Manifests, artifact \in Digests \cup {""} :
    /\ VerifyArtifact(manifest, artifact)
    /\ ~IsVersionOlder(manifest.version, installed.version)
    /\ manifest.platform = installed.platform
    /\ installed' = [installed EXCEPT !.version = manifest.version]
    /\ past' = past \cup {installed.version}

ReleaseSpec == ReleaseInit /\ [][InstallRelease]_releaseVars

\* All components are numbers.
WellFormed(version) == \A i \in DOMAIN version : version[i] <= MaxNumber

\* No sequence of updates brings back a version older than one that was installed
\* before, however many components they have and whatever malformed versions were
\* installed in between.  Of a malformed version itself nothing is said: the
\* comparison skips what is no number, so it can be older than the one before it,
\* and what follows it can be older than it.
InstalledNeverGoesBack ==
  \A version \in past :
    WellFormed(version) /\ WellFormed(installed.version) => ~Older(installed.version, version)
=================================================================================
