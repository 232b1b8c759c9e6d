----------------------------- MODULE BuildPrefix -----------------------------
(***************************************************************************)
(* The install prefix between src/build-libchiaki.sh, which fills it, and  *)
(* src/build.rs, which reads it.  The script may stop anywhere (`set -e`,  *)
(* a signal) and be run again for another version; cargo may come whenever *)
(* no script is running.  What was written before stays written: a machine *)
(* that loses its power may forget it (nothing here calls fsync), and is   *)
(* not modelled.                                                           *)
(* A definition marked "slip" is no part of the model: it is a mistake     *)
(* the properties must catch.                                              *)
(*                                                                         *)
(* External: git, CMake, cp, cargo and rustc, from how the two files use   *)
(* them.  A build succeeds with what the checked-out tree and submodules   *)
(* say; a file that is being copied is torn until cp is done with it; a    *)
(* static library that is missing or torn does not link.                   *)
(***************************************************************************)
EXTENDS Naturals

CONSTANTS
    Versions,       \* source trees: the values of CHIAKI_VERSION, and others
    Headers,        \* the names lib/include/chiaki/*.h has in any version
    HeadersOf,      \* HeadersOf[v]: those it has in version v
    ThirdLibs,      \* libcurl.a and the others next to libchiaki.a
    Nothing

Generated == {"remote.h", "config.h", "takion.pb.h"}   \* remote.h: remote/*.h
IncludeDir == Headers \cup Generated                   \* include/chiaki
Libs  == {"libchiaki.a"} \cup ThirdLibs
Files == IncludeDir \cup {"pb.h"} \cup Libs            \* pb.h: the four pb*.h

ASSUME PrefixAssumption ==
    /\ Nothing \notin Versions
    /\ HeadersOf \in [Versions -> SUBSET Headers]
    /\ \A v \in Versions : {"common.h", "session.h"} \subseteq HeadersOf[v]
    /\ {"common.h", "session.h"} \subseteq Headers
    /\ Headers \cap (Generated \cup {"pb.h"} \cup Libs) = {}
    /\ ThirdLibs \cap (Generated \cup {"pb.h", "libchiaki.a"}) = {}

VARIABLES
    pc, step,       \* where the script is, and which cp of the collection
    todo,           \* the files that cp has not begun with
    want, skip,     \* CHIAKI_VERSION and CHIAKI_SKIP_CLONE of this run
    last,           \* how the last run ended, and the version it was for
    src, rev,       \* what $SRC is, and the version it holds
    sub,            \* the version of its submodules
    built,          \* the version of tree and submodules in $SRC/build-lib
    file, from,     \* each file of the prefix, and the version it is of
    bind,           \* the versions of the headers bindings.rs was made from
    crate           \* the versions in the crate that was last compiled

run    == <<want, skip>>
source == <<src, rev, sub>>
prefix == <<file, from>>
cargo  == <<bind, crate>>
vars   == <<pc, step, todo, want, skip, last, src, rev, sub, built, file, from,
            bind, crate>>

MaybeVersion == Versions \cup {Nothing}

TypeOK ==
    /\ pc \in {"idle", "source", "submodules", "build", "rm_include", "rm_libs",
               "cp", "verify"}
    /\ step \in 1..6
    /\ todo \subseteq Files
    /\ want \in MaybeVersion
    /\ skip \in BOOLEAN
    /\ last \in {"none", "done", "refused"} \X MaybeVersion
    /\ src \in {"absent", "git", "broken", "dirty", "plain", "bare"}
    /\ rev \in MaybeVersion
    /\ sub \in MaybeVersion
    /\ built \in MaybeVersion \X MaybeVersion
    /\ file \in [Files -> {"absent", "torn", "whole"}]
    /\ from \in [Files -> MaybeVersion]
    /\ bind \in SUBSET MaybeVersion
    /\ crate \in [bindings : SUBSET MaybeVersion, libs : SUBSET MaybeVersion]

(* What the user may put at $SRC: nothing, a checkout of any version whose *)
(* submodules are not there yet, an unpacked archive with its submodules   *)
(* or without.  (`last` is about the source that is still there.)          *)
SourceIs(kind, v) ==
    /\ src' = kind
    /\ rev' = IF kind = "absent" THEN Nothing ELSE v
    /\ sub' = IF kind = "plain" THEN v ELSE Nothing
    /\ built' = <<Nothing, Nothing>>

Init ==
    /\ pc = "idle"
    /\ step = 1
    /\ todo = {}
    /\ want = Nothing
    /\ skip = FALSE
    /\ last = <<"none", Nothing>>
    /\ src = "absent"
    /\ rev = Nothing
    /\ sub = Nothing
    /\ built = <<Nothing, Nothing>>
    /\ file = [f \in Files |-> "absent"]
    /\ from = [f \in Files |-> Nothing]
    /\ bind = {}
    /\ crate = [bindings |-> {}, libs |-> {}]

ReplaceSource(kind, v) ==
    /\ pc = "idle"
    /\ SourceIs(kind, v)
    /\ last' = <<"none", Nothing>>
    /\ UNCHANGED <<pc, step, todo, run, prefix, cargo>>

-----------------------------------------------------------------------------
(* The script, up to the build.                                            *)

Begin(v, s) ==
    /\ pc = "idle"
    /\ pc' = "source"
    /\ want' = v
    /\ skip' = s
    /\ last' = <<"none", Nothing>>
    /\ UNCHANGED <<step, todo, source, built, prefix, cargo>>

(* The end of the process, and of what only it knew. *)
Exit ==
    /\ pc' = "idle"
    /\ step' = 1
    /\ todo' = {}
    /\ want' = Nothing
    /\ skip' = FALSE

(* A command fails, or the script is killed. *)
Abort ==
    /\ pc # "idle"
    /\ Exit
    /\ UNCHANGED <<last, source, built, prefix, cargo>>

(* ... while git works on $SRC.  Killed, git leaves its lock, and refuses  *)
(* what is left.  Interrupted, it takes the lock back and leaves files of  *)
(* two versions under the old HEAD: with their submodules they are some    *)
(* tree, of which nothing is known.                                        *)
AbortGit ==
    /\ \/ pc = "source" /\ src = "absent" /\ ~skip
       \/ pc \in {"source", "submodules"} /\ src \in {"git", "dirty"}
    /\ Exit
    /\ \/ src' = "broken" /\ UNCHANGED rev
       \/ src' = "dirty" /\ rev' \in Versions
    /\ UNCHANGED <<last, sub, built, prefix, cargo>>

SourceProvided ==
    /\ pc = "source"
    /\ skip
    /\ src \in {"plain", "bare"}
    /\ pc' = "submodules"
    /\ UNCHANGED <<step, todo, run, last, source, built, prefix, cargo>>

(* git clone leaves the default branch, and the script at its checkout. *)
SourceClone(v) ==
    /\ pc = "source"
    /\ ~skip
    /\ src = "absent"
    /\ src' = "git"
    /\ rev' = v
    /\ UNCHANGED <<pc, step, todo, run, last, sub, built, prefix, cargo>>

(* git clone refuses a directory that is not empty. *)
CloneRefused ==
    /\ pc = "source"
    /\ ~skip
    /\ src \in {"plain", "bare"}
    /\ Exit
    /\ last' = <<"refused", want>>
    /\ UNCHANGED <<source, built, prefix, cargo>>

(* Slips: a fresh clone only is checked out; or what a fetch has left is,  *)
(* no version that anyone named.                                           *)
CheckedOutFirst == rev
CheckedOutFetched == "FETCH_HEAD"
CheckedOut == want

SourceCheckout ==
    /\ pc = "source"
    /\ src = "git"
    /\ rev' = CheckedOut
    /\ pc' = "submodules"
    /\ UNCHANGED <<step, todo, run, last, src, sub, built, prefix, cargo>>

(* When HEAD still names the version wanted, git has nothing to do and     *)
(* leaves the files as they are; otherwise it fails, and the script stops. *)
SourceStaysDirty ==
    /\ pc = "source"
    /\ src = "dirty"
    /\ pc' = "submodules"
    /\ UNCHANGED <<step, todo, run, last, source, built, prefix, cargo>>

(* git submodule update --init, or the submodules the archive came with.   *)
(* (A directory without them is an exit, as is any failure of git.)        *)
Submodules ==
    /\ pc = "submodules"
    /\ src \in {"git", "dirty", "plain"}
    /\ sub' = IF src = "plain" THEN sub ELSE rev
    /\ pc' = "build"
    /\ UNCHANGED <<step, todo, run, last, src, rev, built, prefix, cargo>>

(* cmake configures and builds again whatever has changed since.           *)
Build ==
    /\ pc = "build"
    /\ built' = <<rev, sub>>
    /\ pc' = "rm_include"
    /\ UNCHANGED <<step, todo, run, last, source, prefix, cargo>>

-----------------------------------------------------------------------------
(* The collection: rm -rf include/chiaki, rm -f of the libraries, then one *)
(* cp after the other.                                                     *)

Group(n, v) ==
    << HeadersOf[v], {"remote.h"}, {"config.h"}, {"takion.pb.h"}, {"pb.h"}, Libs >>[n]

Unlinked(f) == [file EXCEPT ![f] = "absent"]

OldLibsKept == {}        \* slip: only the headers are removed
OldLibs == Libs

Remove(stage, old) ==
    \E f \in old :
        /\ pc = stage
        /\ file[f] # "absent"
        /\ file' = Unlinked(f)
        /\ from' = [from EXCEPT ![f] = Nothing]
        /\ UNCHANGED <<pc, step, todo, run, last, source, built, cargo>>

RemovedInclude ==
    /\ pc = "rm_include"
    /\ \A f \in IncludeDir : file[f] = "absent"
    /\ pc' = "rm_libs"
    /\ UNCHANGED <<step, todo, run, last, source, built, prefix, cargo>>

RemovedLibs ==
    /\ pc = "rm_libs"
    /\ \A f \in OldLibs : file[f] = "absent"
    /\ pc' = "cp"
    /\ step' = 1
    /\ todo' = Group(1, rev)
    /\ UNCHANGED <<run, last, source, built, prefix, cargo>>

(* The version of the file that cp finds in $SRC or in the build tree. *)
Made(f) ==
    IF f \in Headers \cup {"remote.h"} THEN rev
    ELSE IF f = "pb.h" THEN sub
    ELSE IF f \in ThirdLibs THEN built[2] ELSE built[1]

(* cp opens, and so empties, the target; a failure on one file does not    *)
(* keep cp from the others.                                                *)
CopyBegin(f) ==
    /\ pc = "cp"
    /\ f \in todo
    /\ todo' = todo \ {f}
    /\ file' = [file EXCEPT ![f] = "torn"]
    /\ from' = [from EXCEPT ![f] = Made(f)]
    /\ UNCHANGED <<pc, step, run, last, source, built, cargo>>

CopyEnd(f) ==
    /\ pc = "cp"
    /\ f \in Group(step, rev) \ todo
    /\ file[f] = "torn"
    /\ file' = [file EXCEPT ![f] = "whole"]
    /\ UNCHANGED <<pc, step, todo, run, last, source, built, from, cargo>>

Copied ==
    /\ pc = "cp"
    /\ todo = {}
    /\ \A f \in Group(step, rev) : file[f] = "whole"

CopyNext ==
    /\ Copied
    /\ step < 6
    /\ step' = step + 1
    /\ todo' = Group(step + 1, rev)
    /\ UNCHANGED <<pc, run, last, source, built, prefix, cargo>>

CopyLast ==
    /\ Copied
    /\ step = 6
    /\ pc' = "verify"
    /\ UNCHANGED <<step, todo, run, last, source, built, prefix, cargo>>

Verified == Libs \cup {"session.h", "config.h", "takion.pb.h", "pb.h"}

Verify ==
    /\ pc = "verify"
    /\ \A f \in Verified : file[f] # "absent"
    /\ Exit
    /\ last' = <<"done", want>>
    /\ UNCHANGED <<source, built, prefix, cargo>>

-----------------------------------------------------------------------------
(* cargo.  build.rs names environment variables only as reasons to run     *)
(* again, so its output is kept until it is cleaned away; the crate itself *)
(* is compiled again after a failure or an edit.                           *)

MustExist == {"common.h", "session.h", "config.h", "libchiaki.a"}
Accepted == \A f \in MustExist : file[f] # "absent"    \* chiaki_prefix

VersionsIn(fs) == {from[f] : f \in {g \in fs : file[g] # "absent"}}

BuildScript ==
    /\ pc = "idle"
    /\ bind = {}
    /\ Accepted
    /\ file["remote.h"] # "absent"      \* read_dir of chiaki/remote
    /\ bind' = VersionsIn(IncludeDir)
    /\ UNCHANGED <<pc, step, todo, run, last, source, built, prefix, crate>>

Compile ==
    /\ pc = "idle"
    /\ bind # {}
    /\ \A f \in Libs : file[f] = "whole"
    /\ crate' = [bindings |-> bind, libs |-> VersionsIn(Libs)]
    /\ UNCHANGED <<pc, step, todo, run, last, source, built, prefix, bind>>

Clean ==
    /\ pc = "idle"
    /\ bind' = {}
    /\ crate' = [bindings |-> {}, libs |-> {}]
    /\ UNCHANGED <<pc, step, todo, run, last, source, built, prefix>>

-----------------------------------------------------------------------------

Script ==
    \/ Abort \/ AbortGit
    \/ SourceProvided \/ CloneRefused \/ SourceCheckout \/ SourceStaysDirty
    \/ \E v \in Versions : SourceClone(v)
    \/ Submodules \/ Build
    \/ Remove("rm_include", IncludeDir) \/ RemovedInclude
    \/ Remove("rm_libs", OldLibs) \/ RemovedLibs
    \/ \E f \in Files : CopyBegin(f) \/ CopyEnd(f)
    \/ CopyNext \/ CopyLast \/ Verify

Cargo == BuildScript \/ Compile \/ Clean

Next ==
    \/ \E v \in Versions, s \in BOOLEAN : Begin(v, s)
    \/ \E v \in Versions, kind \in {"absent", "git", "plain", "bare"} :
          ReplaceSource(kind, v)
    \/ Script
    \/ Cargo

Spec == Init /\ [][Next]_vars

-----------------------------------------------------------------------------
(* Properties.                                                             *)

(* A prefix that chiaki_prefix accepts (build.rs 94-105) mixes nothing:    *)
(* whatever runs were cut off before, all that is there of headers and     *)
(* libraries is of one version, and no header is torn.                     *)
AcceptedIsCoherent ==
    Accepted =>
        \A f \in Files : file[f] # "absent" =>
            /\ from[f] = from["libchiaki.a"]
            /\ f \notin Libs => file[f] = "whole"

(* A run that says "done" has installed the version it was asked for (from *)
(* an archive, the archive's; from a checkout that git was interrupted in, *)
(* whatever that holds), all of it, and has left no header of an earlier   *)
(* one behind (sh 228-273, 379-417).                                       *)
DoneIsComplete ==
    last[1] = "done" =>
        /\ src = "git" => rev = last[2]
        /\ \A f \in (Files \ Headers) \cup HeadersOf[rev] :
              file[f] = "whole" /\ from[f] = rev
        /\ \A f \in Headers \ HeadersOf[rev] : file[f] = "absent"

(* The crate is compiled against headers and libraries of one version, so  *)
(* that a ChiakiSession is allocated with the size the library gives it    *)
(* (session.rs 253, 287).                                                  *)
BindingsMatchLibs == crate.bindings = crate.libs

=============================================================================
