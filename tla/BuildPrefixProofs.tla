-------------------------- MODULE BuildPrefixProofs --------------------------
(***************************************************************************)
(* Theorems about BuildPrefix, for every set of versions, of headers (and  *)
(* which version has which) and of further libraries.                      *)
(***************************************************************************)
EXTENDS BuildPrefix, TLAPS

Lib == "libchiaki.a"

(* libchiaki.a is the first thing to lose its version and the last to get  *)
(* one: whenever it is there, all the rest is of its version.              *)
LibIsWitness ==
    file[Lib] # "absent" =>
        \A f \in Files : file[f] # "absent" =>
            from[f] = from[Lib] /\ (f \notin Libs => file[f] = "whole")

(* What the script knows of its source at each stage. *)
SourceInv ==
    /\ src \in {"git", "dirty", "plain", "bare"} => rev \in Versions
    /\ src = "plain" => sub = rev
    /\ pc # "idle" => want \in Versions /\ last[1] # "done"
    /\ pc \in {"submodules", "build", "rm_include", "rm_libs", "cp", "verify"} =>
          /\ src \in {"git", "dirty", "plain", "bare"}
          /\ src = "git" => rev = want
    /\ pc \in {"build", "rm_include", "rm_libs", "cp", "verify"} =>
          src \in {"git", "dirty", "plain"} /\ sub = rev
    /\ pc \in {"rm_include", "rm_libs", "cp", "verify"} => built = <<rev, sub>>

Fresh(f) == file[f] = "whole" /\ from[f] = rev

(* ... and of the prefix while it collects. *)
CopyInv ==
    /\ pc = "rm_libs" => \A f \in IncludeDir : file[f] = "absent"
    /\ pc \in {"cp", "verify"} =>
          \A f \in Headers \ HeadersOf[rev] : file[f] = "absent"
    /\ pc = "cp" =>
          /\ todo \subseteq Group(step, rev)
          /\ \A n \in 1..6 : n < step => \A f \in Group(n, rev) : Fresh(f)
          /\ \A f \in Group(step, rev) \ todo :
                file[f] # "absent" /\ from[f] = rev
          /\ step < 6 => \A f \in Libs : file[f] = "absent"
          /\ \A f \in Libs : file[f] # "absent" => from[f] = rev
    /\ pc = "verify" => \A n \in 1..6 : \A f \in Group(n, rev) : Fresh(f)

PrefixInv ==
    TypeOK /\ SourceInv /\ CopyInv /\ LibIsWitness /\ DoneIsComplete

(* The groups of files that one cp copies. *)
LEMMA Groups ==
    ASSUME NEW v \in Versions
    PROVE  /\ Group(1, v) = HeadersOf[v]
           /\ Group(2, v) = {"remote.h"}
           /\ Group(3, v) = {"config.h"}
           /\ Group(4, v) = {"takion.pb.h"}
           /\ Group(5, v) = {"pb.h"}
           /\ Group(6, v) = Libs
           /\ \A n \in 1..6 : Group(n, v) \subseteq Files
           /\ HeadersOf[v] \subseteq Headers
<1>1. HeadersOf[v] \subseteq Headers
  BY PrefixAssumption
<1>2. /\ Group(1, v) = HeadersOf[v]
      /\ Group(2, v) = {"remote.h"}
      /\ Group(3, v) = {"config.h"}
      /\ Group(4, v) = {"takion.pb.h"}
      /\ Group(5, v) = {"pb.h"}
      /\ Group(6, v) = Libs
  BY DEF Group
<1>3. ASSUME NEW n \in 1..6 PROVE Group(n, v) \subseteq Files
  <2>1. n = 1 \/ n = 2 \/ n = 3 \/ n = 4 \/ n = 5 \/ n = 6
    OBVIOUS
  <2> QED
    BY <2>1, <1>1, <1>2 DEF Files, IncludeDir, Generated, Libs
<1> QED
  BY <1>1, <1>2, <1>3

(* Every file of a version is in one of the groups. *)
LEMMA GroupsCover ==
    ASSUME NEW v \in Versions,
           NEW f \in (Files \ Headers) \cup HeadersOf[v]
    PROVE  \E n \in 1..6 : f \in Group(n, v)
<1>1. \/ f \in HeadersOf[v] \/ f = "remote.h" \/ f = "config.h"
      \/ f = "takion.pb.h" \/ f = "pb.h" \/ f \in Libs
  BY DEF Files, IncludeDir, Generated
<1> QED
  BY <1>1, Groups

(* Nothing of an include/chiaki that has been removed, or of a later group,*)
(* is a library; no file has two places.                                   *)
LEMMA Places ==
    /\ Lib \in Libs /\ Libs \subseteq Files /\ Lib \in Files
    /\ IncludeDir \subseteq Files
    /\ IncludeDir \cap Libs = {} /\ "pb.h" \notin Libs /\ "pb.h" \notin IncludeDir
    /\ Headers \cap Generated = {}
    /\ \A f \in Files : f \in IncludeDir \/ f = "pb.h" \/ f \in Libs
  BY PrefixAssumption DEF Lib, Libs, Files, IncludeDir, Generated

(* A file is in one group, and headers of other versions are in none. *)
LEMMA Alone ==
    ASSUME NEW v \in Versions, NEW n \in 1..6, NEW f \in Group(n, v)
    PROVE  /\ f \notin Headers \ HeadersOf[v]
           /\ \A m \in 1..6 : f \in Group(m, v) => m = n
<1>1. n = 1 \/ n = 2 \/ n = 3 \/ n = 4 \/ n = 5 \/ n = 6
  OBVIOUS
<1>2. f \notin Headers \ HeadersOf[v]
  BY <1>1, Groups, Places DEF Generated, IncludeDir
<1>3. ASSUME NEW m \in 1..6, f \in Group(m, v) PROVE m = n
  <2>1. m = 1 \/ m = 2 \/ m = 3 \/ m = 4 \/ m = 5 \/ m = 6
    OBVIOUS
  <2> QED
    BY <1>1, <1>3, <2>1, Groups, Places DEF Generated, IncludeDir
<1> QED
  BY <1>2, <1>3

LEMMA PrefixInit == Init => PrefixInv
<1> SUFFICES ASSUME Init PROVE PrefixInv
  OBVIOUS
<1>1. TypeOK
  <2>1. /\ last \in {"none", "done", "refused"} \X MaybeVersion
        /\ built \in MaybeVersion \X MaybeVersion
        /\ crate \in [bindings : SUBSET MaybeVersion, libs : SUBSET MaybeVersion]
    BY DEF Init, MaybeVersion
  <2>2. pc \in {"idle"} /\ step \in 1..6 /\ todo \subseteq Files
    BY DEF Init
  <2>3. skip \in BOOLEAN /\ bind \in SUBSET MaybeVersion
    BY DEF Init
  <2>4. /\ file \in [Files -> {"absent", "torn", "whole"}]
        /\ from \in [Files -> MaybeVersion]
    BY DEF Init, MaybeVersion
  <2>5. want \in MaybeVersion /\ rev \in MaybeVersion /\ sub \in MaybeVersion /\ src = "absent"
    BY DEF Init, MaybeVersion
  <2> QED
    BY <2>1, <2>2, <2>3, <2>4, <2>5 DEF TypeOK
<1>2. SourceInv /\ CopyInv /\ LibIsWitness
  BY Places DEF Init, SourceInv, CopyInv, LibIsWitness
<1>3. DoneIsComplete
  <2>1. last[1] # "done"
    BY DEF Init
  <2> QED
    BY <2>1 DEF DoneIsComplete
<1> QED
  BY <1>1, <1>2, <1>3 DEF PrefixInv

-----------------------------------------------------------------------------
(* Steps.                                                                  *)

LEMMA TypeStep == PrefixInv /\ [Next]_vars => TypeOK'
<1> SUFFICES ASSUME PrefixInv, [Next]_vars PROVE TypeOK'
  OBVIOUS
<1> USE PrefixAssumption
    DEF PrefixInv, TypeOK, MaybeVersion, run, source, prefix, cargo
<1>1. ASSUME NEW v \in Versions, NEW s \in BOOLEAN, Begin(v, s) PROVE TypeOK'
  BY <1>1 DEF Begin
<1>2. ASSUME NEW v \in Versions,
             NEW kind \in {"absent", "git", "plain", "bare"},
             ReplaceSource(kind, v)
      PROVE TypeOK'
  BY <1>2 DEF ReplaceSource, SourceIs
<1>3. CASE Abort \/ AbortGit \/ CloneRefused \/ Verify
  <2>1. last' \in {"none", "done", "refused"} \X MaybeVersion
    <3> USE DEF MaybeVersion
    <3>1. CASE Abort \/ AbortGit
      BY <1>3, <3>1 DEF Abort, AbortGit
    <3>2. CASE CloneRefused
      BY <3>2 DEF CloneRefused
    <3>3. CASE Verify
      BY <3>3 DEF Verify
    <3> QED
      BY <1>3, <3>1, <3>2, <3>3
  <2>2. UNCHANGED <<sub, built, prefix, cargo>> /\ Exit
        /\ (src' = src \/ src' \in {"broken", "dirty"})
        /\ (rev' = rev \/ rev' \in Versions)
    BY <1>3 DEF Abort, AbortGit, CloneRefused, Verify
  <2>3. /\ pc' = "idle" /\ step' = 1 /\ todo' = {} /\ want' = Nothing
        /\ skip' = FALSE
    BY <2>2 DEF Exit
  <2>4. /\ pc' \in {"idle"} /\ step' \in 1..6 /\ todo' \subseteq Files
        /\ want' \in MaybeVersion
    BY <2>3
  <2>5. skip' \in BOOLEAN
    BY <2>3
  <2>6. UNCHANGED <<sub, built, file, from, bind, crate>>
    BY <2>2
  <2>7. /\ src' \in {"absent", "git", "broken", "dirty", "plain", "bare"}
        /\ rev' \in MaybeVersion
    BY <2>2
  <2> HIDE DEF MaybeVersion, PrefixInv
  <2>8. TypeOK
    BY DEF PrefixInv
  <2> QED
    BY <2>1, <2>4, <2>5, <2>6, <2>7, <2>8
<1>4. CASE \/ SourceProvided \/ SourceCheckout \/ SourceStaysDirty
           \/ Submodules \/ Build
  BY <1>4 DEF SourceProvided, SourceCheckout, CheckedOut, SourceStaysDirty,
     Submodules, Build
<1>5. ASSUME NEW v \in Versions, SourceClone(v) PROVE TypeOK'
  BY <1>5 DEF SourceClone
<1>6. CASE Remove("rm_include", IncludeDir) \/ Remove("rm_libs", OldLibs)
  BY <1>6 DEF Remove, Unlinked
<1>7. CASE RemovedInclude \/ CopyLast
  BY <1>7 DEF RemovedInclude, CopyLast
<1>8. CASE RemovedLibs \/ CopyNext
  <2>1. rev \in Versions
    BY <1>8 DEF RemovedLibs, CopyNext, Copied, SourceInv
  <2>2. step' \in 1..6 /\ todo' = Group(step', rev)
    BY <1>8 DEF RemovedLibs, CopyNext
  <2>3. todo' \subseteq Files
    BY <2>1, <2>2, Groups
  <2> QED
    BY <1>8, <2>2, <2>3 DEF RemovedLibs, CopyNext
<1>9. ASSUME NEW f \in Files, CopyBegin(f) PROVE TypeOK'
  <2>1. Made(f) \in MaybeVersion
    BY DEF Made
  <2> QED
    BY <1>9, <2>1 DEF CopyBegin
<1>10. ASSUME NEW f \in Files, CopyEnd(f) PROVE TypeOK'
  BY <1>10 DEF CopyEnd
<1>11. CASE BuildScript \/ Compile \/ Clean
  <2>1. \A fs \in SUBSET Files : VersionsIn(fs) \in SUBSET MaybeVersion
    BY DEF VersionsIn
  <2>2. VersionsIn(IncludeDir) \in SUBSET MaybeVersion
        /\ VersionsIn(Libs) \in SUBSET MaybeVersion
    BY <2>1, Places
  <2> QED
    BY <1>11, <2>2 DEF BuildScript, Compile, Clean
<1>12. CASE UNCHANGED vars
  BY <1>12 DEF vars
<1> QED
  BY <1>1, <1>2, <1>3, <1>4, <1>5, <1>6, <1>7, <1>8, <1>9, <1>10, <1>11,
     <1>12 DEF Next, Script, Cargo

LEMMA SourceStep == PrefixInv /\ [Next]_vars => SourceInv'
<1> SUFFICES ASSUME PrefixInv, [Next]_vars PROVE SourceInv'
  OBVIOUS
<1> USE DEF PrefixInv, SourceInv, run, source, prefix, cargo
<1>1. ASSUME NEW v \in Versions, NEW s \in BOOLEAN, Begin(v, s) PROVE SourceInv'
  BY <1>1 DEF Begin
<1>2. ASSUME NEW v \in Versions,
             NEW kind \in {"absent", "git", "plain", "bare"},
             ReplaceSource(kind, v)
      PROVE SourceInv'
  BY <1>2 DEF ReplaceSource, SourceIs
<1>3. CASE Abort \/ AbortGit \/ CloneRefused \/ Verify
  BY <1>3 DEF Abort, AbortGit, CloneRefused, Verify, Exit
<1>4. CASE \/ SourceProvided \/ SourceCheckout \/ SourceStaysDirty
           \/ Submodules \/ Build
  BY <1>4 DEF SourceProvided, SourceCheckout, CheckedOut, SourceStaysDirty,
     Submodules, Build
<1>5. ASSUME NEW v \in Versions, SourceClone(v) PROVE SourceInv'
  BY <1>5 DEF SourceClone
<1>6. CASE Remove("rm_include", IncludeDir) \/ Remove("rm_libs", OldLibs)
  BY <1>6 DEF Remove
<1>7. CASE RemovedInclude \/ RemovedLibs \/ CopyNext \/ CopyLast
  BY <1>7 DEF RemovedInclude, RemovedLibs, CopyNext, CopyLast, Copied
<1>8. ASSUME NEW f \in Files, CopyBegin(f) \/ CopyEnd(f) PROVE SourceInv'
  BY <1>8 DEF CopyBegin, CopyEnd
<1>9. CASE BuildScript \/ Compile \/ Clean
  BY <1>9 DEF BuildScript, Compile, Clean
<1>10. CASE UNCHANGED vars
  BY <1>10 DEF vars
<1> QED
  BY <1>1, <1>2, <1>3, <1>4, <1>5, <1>6, <1>7, <1>8, <1>9, <1>10
  DEF Next, Script, Cargo

(* What a cp writes is of the version that was checked out. *)
LEMMA MadeIsRev ==
    ASSUME PrefixInv, pc = "cp", NEW f PROVE Made(f) = rev
  BY DEF PrefixInv, SourceInv, Made

(* Libraries are the last group. *)
LEMMA NotLib ==
    ASSUME PrefixInv, pc = "cp", step # 6, NEW f \in Group(step, rev)
    PROVE  f \notin Libs
<1>1. rev \in Versions
  BY DEF PrefixInv, SourceInv
<1>2. step = 1 \/ step = 2 \/ step = 3 \/ step = 4 \/ step = 5
  BY DEF PrefixInv, TypeOK
<1>3. f \in Headers \/ f \in Generated \/ f = "pb.h"
  BY <1>1, <1>2, Groups DEF Generated
<1> QED
  BY <1>3, Places DEF IncludeDir

LEMMA LibStep == PrefixInv /\ [Next]_vars => LibIsWitness'
<1> SUFFICES ASSUME PrefixInv, [Next]_vars PROVE LibIsWitness'
  OBVIOUS
<1> USE DEF PrefixInv
<1>1. CASE UNCHANGED prefix
  BY <1>1 DEF LibIsWitness, prefix
<1>2. CASE Remove("rm_include", IncludeDir) \/ Remove("rm_libs", OldLibs)
  <2>1. PICK f \in Files : /\ file' = [file EXCEPT ![f] = "absent"]
                           /\ from' = [from EXCEPT ![f] = Nothing]
    BY <1>2, Places DEF Remove, Unlinked, OldLibs
  <2> QED
    BY <2>1, Places DEF LibIsWitness, TypeOK
<1>3. ASSUME NEW f \in Files, CopyBegin(f) PROVE LibIsWitness'
  <2>1. /\ pc = "cp" /\ f \in Group(step, rev) /\ Made(f) = rev
        /\ file' = [file EXCEPT ![f] = "torn"]
        /\ from' = [from EXCEPT ![f] = rev]
        /\ rev \in Versions
    BY <1>3, MadeIsRev DEF CopyBegin, CopyInv, SourceInv
  <2>2. CASE step # 6
    <3>1. f # Lib /\ file[Lib] = "absent"
      BY <2>1, <2>2, NotLib, Places DEF CopyInv, TypeOK
    <3> QED
      BY <2>1, <3>1, Places DEF LibIsWitness, TypeOK
  <2>3. CASE step = 6
    <3>1. f \in Libs
      BY <2>1, <2>3, Groups
    <3>2. \A g \in Libs : file[g] # "absent" => from[g] = rev
      BY <2>1 DEF CopyInv
    <3>3. ASSUME NEW g \in Files \ Libs, file[g] # "absent"
          PROVE  Fresh(g)
      <4>1. g \in (Files \ Headers) \cup HeadersOf[rev]
        BY <2>1, <3>3 DEF CopyInv
      <4>2. PICK n \in 1..6 : g \in Group(n, rev)
        BY <2>1, <4>1, GroupsCover
      <4>3. n # 6
        BY <2>1, <4>2, <3>3, Groups
      <4> QED
        BY <2>1, <2>3, <4>2, <4>3 DEF CopyInv
    <3> QED
      BY <2>1, <3>1, <3>2, <3>3, Places DEF LibIsWitness, TypeOK, Fresh
  <2> QED
    BY <2>2, <2>3
<1>4. ASSUME NEW f \in Files, CopyEnd(f) PROVE LibIsWitness'
  <2>1. /\ file[f] = "torn" /\ file' = [file EXCEPT ![f] = "whole"]
        /\ from' = from
    BY <1>4 DEF CopyEnd
  <2> QED
    BY <2>1, Places DEF LibIsWitness, TypeOK
<1> QED
  BY <1>1, <1>2, <1>3, <1>4
  DEF Next, Script, Cargo, vars, prefix, Begin, ReplaceSource, Abort, AbortGit,
      SourceProvided, CloneRefused, SourceCheckout, SourceStaysDirty,
      SourceClone, Submodules,
      Build, RemovedInclude, RemovedLibs, CopyNext, CopyLast, Verify,
      BuildScript, Compile, Clean

(* Before it removes anything and once it has ended, the script owes the   *)
(* prefix nothing.                                                         *)
LEMMA QuietStep ==
    ASSUME pc' \notin {"rm_libs", "cp", "verify"}
    PROVE  CopyInv'
  BY DEF CopyInv

LEMMA CopyStep == PrefixInv /\ [Next]_vars => CopyInv'
<1> SUFFICES ASSUME PrefixInv, [Next]_vars PROVE CopyInv'
  OBVIOUS
<1> USE DEF PrefixInv
<1>1. CASE pc' \notin {"rm_libs", "cp", "verify"}
  BY <1>1, QuietStep
<1>2. CASE Remove("rm_libs", OldLibs)
  <2>1. PICK f \in Files : file' = [file EXCEPT ![f] = "absent"]
    BY <1>2, Places DEF Remove, Unlinked, OldLibs
  <2>2. pc = "rm_libs" /\ pc' = pc
    BY <1>2 DEF Remove
  <2> QED
    BY <2>1, <2>2, Places DEF CopyInv, TypeOK
<1>3. CASE RemovedInclude
  BY <1>3 DEF RemovedInclude, CopyInv, prefix
<1>4. CASE RemovedLibs
  <2>1. /\ pc = "rm_libs" /\ pc' = "cp" /\ step' = 1 /\ todo' = Group(1, rev)
        /\ rev' = rev /\ file' = file /\ from' = from
    BY <1>4 DEF RemovedLibs, source, prefix
  <2>2. \A f \in Libs : file[f] = "absent"
    BY <1>4 DEF RemovedLibs, OldLibs
  <2>3. \A f \in Headers : file[f] = "absent"
    BY <2>1 DEF CopyInv, IncludeDir
  <2> QED
    BY <2>1, <2>2, <2>3 DEF CopyInv
<1>5. ASSUME NEW f \in Files, CopyBegin(f) PROVE CopyInv'
  <2>1. /\ pc = "cp" /\ pc' = "cp" /\ step' = step /\ rev' = rev
        /\ f \in todo /\ todo' = todo \ {f}
        /\ file' = [file EXCEPT ![f] = "torn"]
        /\ from' = [from EXCEPT ![f] = rev]
        /\ rev \in Versions /\ step \in 1..6
    BY <1>5, MadeIsRev DEF CopyBegin, source, SourceInv, TypeOK
  <2>2. f \in Group(step, rev)
    BY <2>1 DEF CopyInv
  <2>3. f \notin Headers \ HeadersOf[rev]
    BY <2>1, <2>2, Alone
  <2>4. \A n \in 1..6 : n < step => f \notin Group(n, rev)
    BY <2>1, <2>2, Alone
  <2>5. step < 6 => f \notin Libs
    BY <2>1, <2>2, NotLib
  <2>6. \A g \in Files \ {f} : file'[g] = file[g] /\ from'[g] = from[g]
    BY <2>1 DEF TypeOK
  <2>7. file'[f] = "torn" /\ from'[f] = rev
    BY <2>1 DEF TypeOK
  <2>8. \A n \in 1..6 : Group(n, rev) \subseteq Files
    BY <2>1, Groups
  <2>9. Headers \subseteq Files
    BY DEF Files, IncludeDir
  <2> QED
    BY <2>1, <2>2, <2>3, <2>4, <2>5, <2>6, <2>7, <2>8, <2>9, Places
    DEF CopyInv, Fresh
<1>6. ASSUME NEW f \in Files, CopyEnd(f) PROVE CopyInv'
  <2>1. /\ pc = "cp" /\ pc' = "cp" /\ step' = step /\ rev' = rev /\ todo' = todo
        /\ file[f] = "torn" /\ file' = [file EXCEPT ![f] = "whole"]
        /\ from' = from /\ rev \in Versions /\ step \in 1..6
    BY <1>6 DEF CopyEnd, source, SourceInv, TypeOK
  <2>2. \A g \in Files \ {f} : file'[g] = file[g]
    BY <2>1 DEF TypeOK
  <2>3. file'[f] = "whole"
    BY <2>1 DEF TypeOK
  <2>4. \A n \in 1..6 : Group(n, rev) \subseteq Files
    BY <2>1, Groups
  <2>5. Headers \subseteq Files
    BY DEF Files, IncludeDir
  <2> QED
    BY <2>1, <2>2, <2>3, <2>4, <2>5, Places DEF CopyInv, Fresh
<1>7. CASE CopyNext \/ CopyLast
  <2>1. /\ pc = "cp" /\ todo = {} /\ rev' = rev /\ file' = file /\ from' = from
        /\ \A f \in Group(step, rev) : file[f] = "whole"
        /\ rev \in Versions /\ step \in 1..6
    BY <1>7 DEF CopyNext, CopyLast, Copied, source, prefix, SourceInv, TypeOK
  <2>2. \A n \in 1..6 : n < step + 1 => \A f \in Group(n, rev) : Fresh(f)
    <3>1. \A f \in Group(step, rev) : Fresh(f)
      BY <2>1 DEF CopyInv, Fresh
    <3>2. \A n \in 1..6 : n < step + 1 => n < step \/ n = step
      BY <2>1
    <3> QED
      BY <2>1, <3>1, <3>2 DEF CopyInv
  <2>3. CASE CopyNext
    <3>1. /\ pc' = "cp" /\ step' = step + 1 /\ todo' = Group(step + 1, rev)
          /\ step < 6
      BY <2>3, <2>1 DEF CopyNext
    <3> QED
      BY <2>1, <2>2, <3>1 DEF CopyInv, Fresh
  <2>4. CASE CopyLast
    <3>1. pc' = "verify" /\ step = 6
      BY <2>4 DEF CopyLast
    <3> QED
      BY <2>1, <2>2, <3>1 DEF CopyInv, Fresh
  <2> QED
    BY <1>7, <2>3, <2>4
<1>8. CASE UNCHANGED vars
  BY <1>8 DEF vars, CopyInv, Fresh
<1> QED
  BY <1>1, <1>2, <1>3, <1>4, <1>5, <1>6, <1>7, <1>8
  DEF Next, Script, Cargo, Begin, ReplaceSource, Abort, AbortGit, Exit,
      SourceProvided, CloneRefused, SourceCheckout, SourceStaysDirty,
      SourceClone, Submodules,
      Build, Remove, Verify, BuildScript, Compile, Clean

LEMMA DoneStep == PrefixInv /\ [Next]_vars => DoneIsComplete'
<1> SUFFICES ASSUME PrefixInv, [Next]_vars PROVE DoneIsComplete'
  OBVIOUS
<1> USE DEF PrefixInv
<1>1. CASE Verify
  <2>1. /\ pc = "verify" /\ last' = <<"done", want>> /\ src' = src /\ rev' = rev
        /\ file' = file /\ from' = from /\ rev \in Versions
        /\ (src = "git" => rev = want)
    BY <1>1 DEF Verify, source, prefix, SourceInv
  <2>2. ASSUME NEW f \in (Files \ Headers) \cup HeadersOf[rev] PROVE Fresh(f)
    BY <2>1, GroupsCover DEF CopyInv
  <2>3. \A f \in Headers \ HeadersOf[rev] : file[f] = "absent"
    BY <2>1 DEF CopyInv
  <2> QED
    BY <2>1, <2>2, <2>3 DEF DoneIsComplete, Fresh
<1>2. CASE last'[1] # "done"
  BY <1>2 DEF DoneIsComplete
<1>3. CASE UNCHANGED <<last, src, rev, file, from>>
  BY <1>3 DEF DoneIsComplete
<1>4. pc # "idle" /\ last' = last => last'[1] # "done"
  BY DEF SourceInv
<1>5. CASE \/ \E v \in Versions, s \in BOOLEAN : Begin(v, s)
           \/ \E v \in Versions, kind \in {"absent", "git", "plain", "bare"} :
                 ReplaceSource(kind, v)
           \/ CloneRefused
  <2>1. last'[1] # "done"
    BY <1>5 DEF Begin, ReplaceSource, CloneRefused
  <2> QED
    BY <2>1, <1>2
<1>6. CASE Script /\ ~Verify /\ ~CloneRefused
  <2>1. pc # "idle" /\ last' = last
    BY <1>6 DEF Script, Abort, AbortGit, SourceProvided, SourceCheckout,
         SourceStaysDirty, SourceClone, Submodules, Build, Remove,
         RemovedInclude, RemovedLibs,
         CopyBegin, CopyEnd, CopyNext, CopyLast, Copied
  <2> QED
    BY <2>1, <1>4, <1>2
<1>7. CASE Cargo \/ UNCHANGED vars
  BY <1>7, <1>3 DEF Cargo, vars, BuildScript, Compile, Clean, source, prefix
<1> QED
  BY <1>1, <1>5, <1>6, <1>7 DEF Next

LEMMA PrefixHolds == Spec => []PrefixInv
<1>1. PrefixInv /\ [Next]_vars => PrefixInv'
  BY TypeStep, SourceStep, CopyStep, LibStep, DoneStep DEF PrefixInv
<1> QED
  BY <1>1, PrefixInit, PTL DEF Spec

-----------------------------------------------------------------------------

(* Every reachable state is well typed. *)
THEOREM PrefixTypeCorrect == Spec => []TypeOK
<1>1. PrefixInv => TypeOK
  BY DEF PrefixInv
<1> QED
  BY <1>1, PrefixHolds, PTL

(* What build.rs accepts is of one version, after any number of runs cut   *)
(* off anywhere (sh 379-403 against build.rs 94-105).                      *)
THEOREM AcceptedNeverMixes == Spec => []AcceptedIsCoherent
<1>1. PrefixInv => AcceptedIsCoherent
  BY DEF PrefixInv, LibIsWitness, Lib, AcceptedIsCoherent, Accepted, MustExist
<1> QED
  BY <1>1, PrefixHolds, PTL

(* "done" means that all of the version asked for is there, and no header  *)
(* of another (sh 228-273, 379-417).                                       *)
THEOREM DoneInstallsAll == Spec => []DoneIsComplete
<1>1. PrefixInv => DoneIsComplete
  BY DEF PrefixInv
<1> QED
  BY <1>1, PrefixHolds, PTL

-----------------------------------------------------------------------------
(* What cargo makes of a prefix.  BindingsMatchLibs does not hold; this is *)
(* what does.                                                              *)

One(S) == \A u, v \in S : u = v

(* The bindings are of one version and so are the libraries, and there are *)
(* both or neither.                                                        *)
EachSideIsOne ==
    /\ crate.bindings \subseteq Versions /\ One(crate.bindings)
    /\ crate.libs \subseteq Versions /\ One(crate.libs)
    /\ crate.bindings = {} <=> crate.libs = {}

CargoInv ==
    /\ \A f \in Files : file[f] # "absent" => from[f] \in Versions
    /\ bind \subseteq Versions /\ One(bind)
    /\ EachSideIsOne

(* What is collected from a prefix with a libchiaki.a is of its version.   *)
LEMMA OneVersion ==
    ASSUME PrefixInv, CargoInv, file[Lib] # "absent", NEW fs \in SUBSET Files
    PROVE  VersionsIn(fs) \subseteq {from[Lib]} /\ from[Lib] \in Versions
  BY Places DEF PrefixInv, CargoInv, LibIsWitness, VersionsIn

LEMMA CargoStep == PrefixInv /\ CargoInv /\ [Next]_vars => CargoInv'
<1> SUFFICES ASSUME PrefixInv, CargoInv, [Next]_vars PROVE CargoInv'
  OBVIOUS
<1>1. CASE UNCHANGED <<prefix, cargo>>
  BY <1>1 DEF prefix, cargo, CargoInv, EachSideIsOne, One
<1>2. CASE Remove("rm_include", IncludeDir) \/ Remove("rm_libs", OldLibs)
  <2>1. UNCHANGED cargo
    BY <1>2 DEF Remove
  <2>2. PICK f \in Files : /\ file' = [file EXCEPT ![f] = "absent"]
                           /\ from' = [from EXCEPT ![f] = Nothing]
    BY <1>2, Places DEF Remove, Unlinked, OldLibs
  <2> QED
    BY <2>1, <2>2 DEF PrefixInv, TypeOK, cargo, CargoInv, EachSideIsOne, One
<1>3. ASSUME NEW f \in Files, CopyBegin(f) PROVE CargoInv'
  <2>1. UNCHANGED cargo
    BY <1>3 DEF CopyBegin
  <2>2. /\ file' = [file EXCEPT ![f] = "torn"]
        /\ from' = [from EXCEPT ![f] = rev]
        /\ rev \in Versions
    BY <1>3, MadeIsRev DEF CopyBegin, PrefixInv, SourceInv
  <2> QED
    BY <2>1, <2>2 DEF PrefixInv, TypeOK, cargo, CargoInv, EachSideIsOne, One
<1>4. ASSUME NEW f \in Files, CopyEnd(f) PROVE CargoInv'
  <2>1. UNCHANGED <<from, bind, crate>> /\ file[f] = "torn"
        /\ file' = [file EXCEPT ![f] = "whole"]
    BY <1>4 DEF CopyEnd, cargo
  <2> QED
    BY <2>1 DEF PrefixInv, TypeOK, CargoInv, EachSideIsOne, One
<1>5. CASE BuildScript
  <2>1. file[Lib] # "absent" /\ UNCHANGED <<file, from, crate>>
        /\ bind' = VersionsIn(IncludeDir)
    BY <1>5 DEF BuildScript, Accepted, MustExist, Lib, prefix
  <2>2. bind' \subseteq {from[Lib]} /\ from[Lib] \in Versions
    BY <2>1, OneVersion, Places
  <2> QED
    BY <2>1, <2>2 DEF CargoInv, EachSideIsOne, One
<1>6. CASE Compile
  <2>1. /\ file[Lib] # "absent" /\ UNCHANGED <<file, from, bind>> /\ bind # {}
        /\ crate' = [bindings |-> bind, libs |-> VersionsIn(Libs)]
    BY <1>6, Places DEF Compile, prefix
  <2>2. VersionsIn(Libs) \subseteq {from[Lib]} /\ from[Lib] \in Versions
    BY <2>1, OneVersion, Places
  <2>3. from[Lib] \in VersionsIn(Libs)
    BY <2>1, Places DEF VersionsIn
  <2>4. crate'.bindings = bind /\ crate'.libs = {from[Lib]}
    BY <2>1, <2>2, <2>3
  <2> QED
    BY <2>1, <2>2, <2>4 DEF CargoInv, EachSideIsOne, One
<1>7. CASE Clean
  <2>1. /\ UNCHANGED <<file, from>> /\ bind' = {}
        /\ crate'.bindings = {} /\ crate'.libs = {}
    BY <1>7 DEF Clean, prefix
  <2> QED
    BY <2>1 DEF CargoInv, EachSideIsOne, One
<1> QED
  BY <1>1, <1>2, <1>3, <1>4, <1>5, <1>6, <1>7
  DEF Next, Script, Cargo, vars, prefix, cargo, Begin, ReplaceSource, Abort,
      AbortGit, SourceProvided, CloneRefused, SourceCheckout, SourceStaysDirty,
      SourceClone,
      Submodules, Build, RemovedInclude, RemovedLibs, CopyNext, CopyLast, Verify

LEMMA CargoHolds == Spec => []CargoInv
<1>1. Init => CargoInv
  BY DEF Init, CargoInv, EachSideIsOne, One
<1> QED
  BY <1>1, CargoStep, PrefixHolds, PTL DEF Spec

(* The bindings never mix the headers of two versions, nor does the crate  *)
(* link the libraries of two, after any number of runs cut off anywhere    *)
(* (build.rs 94-105, sh 379-403).                                          *)
THEOREM CrateNeverMixes == Spec => []EachSideIsOne
<1>1. CargoInv => EachSideIsOne
  BY DEF CargoInv
<1> QED
  BY <1>1, CargoHolds, PTL

(* So the two sides disagree only after a change of version: where there is*)
(* only one source tree, they are of it (session.rs 253, 287).             *)
THEOREM OneVersionAgrees ==
    ASSUME NEW v, Versions = {v} PROVE Spec => []BindingsMatchLibs
<1>1. EachSideIsOne => BindingsMatchLibs
  <2> SUFFICES ASSUME EachSideIsOne PROVE crate.bindings = crate.libs
    BY DEF BindingsMatchLibs
  <2>1. crate.bindings = {} \/ crate.bindings = {v}
    BY DEF EachSideIsOne
  <2>2. crate.libs = {} \/ crate.libs = {v}
    BY DEF EachSideIsOne
  <2> QED
    BY <2>1, <2>2 DEF EachSideIsOne
<1> QED
  BY <1>1, CrateNeverMixes, PTL

=============================================================================
