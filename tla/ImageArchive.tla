---------------------------- MODULE ImageArchive ----------------------------
(***************************************************************************)
(* The adapter that makes the Docker SDK load PatchEval's images from      *)
(* archives: around the start of a container it loads the image if it is   *)
(* missing, and around the removal of a container it removes the image,    *)
(* if the adapter loaded it and no other container has it.  The threads of *)
(* the evaluations share it.  There is a lock for each image, which is     *)
(* free between the steps, in particular from the look at the image to the *)
(* start of the container.                                                 *)
(*                                                                         *)
(* Docker is external: an image that a container has cannot be removed, an *)
(* image that is missing when a container is created is pulled.            *)
(***************************************************************************)
EXTENDS Naturals, FiniteSets

CONSTANTS None, Threads, Images,
          Cleanup,        \* PATCHEVAL_CLEANUP_IMAGE
          MaxRuns,        \* bound: the containers started
          MaxOdd          \* bound: the calls that fail, and pulls

ASSUME ImageAssumption == Cleanup \in BOOLEAN /\ MaxRuns \in Nat /\ MaxOdd \in Nat

VARIABLES
  pc, image,         \* of each thread: where it is, and the image it is about
  mine,              \* of each thread: what ensure_image returned, or the recorded image
  lock,              \* of each image: the thread that holds it
  present,           \* the images Docker has
  others,            \* those it had before
  containers,        \* containers[i]: the containers with image i
  loaded, recorded,  \* loaded_images, and the keys of container_images
  runs, odd

threads == <<pc, image, mine>>
docker  == <<present, containers>>
notes   == <<loaded, recorded>>
vars    == <<threads, lock, docker, others, notes, runs, odd>>

Init ==
  /\ pc = [t \in Threads |-> "idle"] /\ image = [t \in Threads |-> None]
  /\ mine = [t \in Threads |-> FALSE] /\ lock = [i \in Images |-> None]
  /\ others \in SUBSET Images /\ present = others
  /\ containers = [i \in Images |-> {}]
  /\ loaded = {} /\ recorded = {} /\ runs = 0 /\ odd = 0

Goto(t, l) == pc' = [pc EXCEPT ![t] = l]
Fails      == odd < MaxOdd /\ odd' = odd + 1
Acquire(i, t) == lock[i] = None /\ lock' = [lock EXCEPT ![i] = t]
Release(i)    == lock' = [lock EXCEPT ![i] = None]

\* A container is named by its thread; one nobody knows of, by the number of its run.
Create(i, c) == containers' = [containers EXCEPT ![i] = @ \cup {c}]

-----------------------------------------------------------------------------
(* ensure_image *)
EnsureStart(t, i) ==
  /\ pc[t] = "idle" /\ runs < MaxRuns /\ Acquire(i, t)
  /\ runs' = runs + 1 /\ image' = [image EXCEPT ![t] = i] /\ Goto(t, "get")
  /\ UNCHANGED <<mine, docker, others, notes, odd>>

\* Mutant: every image that is there is taken for one the adapter loaded.
EnsureGetAny(t) ==
  LET i == image[t]
  IN /\ pc[t] = "get"
     /\ IF i \in present
        THEN mine' = [mine EXCEPT ![t] = TRUE] /\ Release(i) /\ Goto(t, "run")
        ELSE Goto(t, "load") /\ UNCHANGED <<mine, lock>>
     /\ UNCHANGED <<image, docker, others, notes, runs, odd>>

EnsureGet(t) ==
  LET i == image[t]
  IN /\ pc[t] = "get"
     /\ IF i \in present
        THEN mine' = [mine EXCEPT ![t] = i \in loaded] /\ Release(i) /\ Goto(t, "run")
        ELSE Goto(t, "load") /\ UNCHANGED <<mine, lock>>
     /\ UNCHANGED <<image, docker, others, notes, runs, odd>>

EnsureLoad(t) ==
  LET i == image[t]
  IN /\ pc[t] = "load" /\ Release(i)
     /\ present' = present \cup {i} /\ loaded' = loaded \cup {i}
     /\ mine' = [mine EXCEPT ![t] = TRUE] /\ Goto(t, "run")
     /\ UNCHANGED <<image, others, containers, recorded, runs, odd>>

\* There is no archive, or `docker load' fails; after a timeout Docker may still finish it.
EnsureFails(t) ==
  LET i == image[t]
  IN /\ pc[t] \in {"get", "load"} /\ Fails /\ Release(i) /\ Goto(t, "idle")
     /\ present' \in {present, IF pc[t] = "load" THEN present \cup {i} ELSE present}
     /\ UNCHANGED <<image, mine, others, containers, notes, runs>>

-----------------------------------------------------------------------------
(* run_with_archive *)
\* The SDK pulls an image that is gone again.
Run(t) ==
  LET i == image[t]
  IN /\ pc[t] = "run" /\ Create(i, t) /\ Goto(t, "record")
     /\ \/ i \in present /\ UNCHANGED <<present, odd>>
        \/ i \notin present /\ Fails /\ present' = present \cup {i}
     /\ UNCHANGED <<image, mine, lock, others, notes, runs>>

\* An error after the container is created leaves it behind.
RunFails(t) ==
  LET i == image[t]
  IN /\ pc[t] = "run" /\ Fails
     /\ Goto(t, IF mine[t] THEN "undo" ELSE "idle")
     /\ \/ UNCHANGED containers
        \/ i \in present /\ Create(i, runs)
     /\ UNCHANGED <<image, mine, lock, present, others, notes, runs>>

UndoLock(t) ==
  /\ pc[t] = "undo" /\ Acquire(image[t], t) /\ Goto(t, "undo_image")
  /\ UNCHANGED <<image, mine, docker, others, notes, runs, odd>>

Removable(i) == i \in present /\ containers[i] = {}

\* Whether the image could be removed or not, it is no longer noted as loaded.
Undo(t) ==
  LET i == image[t]
  IN /\ pc[t] = "undo_image" /\ Release(i) /\ Goto(t, "idle")
     /\ \/ present' = (IF Removable(i) THEN present \ {i} ELSE present) /\ UNCHANGED odd
        \/ Fails /\ UNCHANGED present
     /\ loaded' = loaded \ {i}
     /\ UNCHANGED <<image, mine, containers, others, recorded, runs>>

Record(t) ==
  /\ pc[t] = "record" /\ Goto(t, "use")
  /\ recorded' = IF mine[t] THEN recorded \cup {t} ELSE recorded
  /\ UNCHANGED <<image, mine, lock, docker, others, loaded, runs, odd>>

-----------------------------------------------------------------------------
(* remove_with_cleanup *)
RemoveStart(t) ==
  /\ pc[t] = "use" /\ Goto(t, "remove")
  /\ mine' = [mine EXCEPT ![t] = t \in recorded]
  /\ recorded' = recorded \ {t}
  /\ UNCHANGED <<image, lock, docker, others, loaded, runs, odd>>

RemoveContainer(t) ==
  /\ pc[t] = "remove" /\ Goto(t, IF mine[t] /\ Cleanup THEN "clean" ELSE "idle")
  /\ containers' = [containers EXCEPT ![image[t]] = @ \ {t}]
  /\ UNCHANGED <<image, mine, lock, present, others, notes, runs, odd>>

RemoveFails(t) ==
  /\ pc[t] = "remove" /\ Fails /\ Goto(t, "idle")
  /\ containers' = [containers EXCEPT ![image[t]] = (@ \ {t}) \cup {runs}]
  /\ UNCHANGED <<image, mine, lock, present, others, notes, runs>>

CleanLock(t) ==
  /\ pc[t] = "clean" /\ Acquire(image[t], t) /\ Goto(t, "clean_list")
  /\ UNCHANGED <<image, mine, docker, others, notes, runs, odd>>

\* Mutant: the note is dropped although a container of the image remains.
CleanListForgets(t) ==
  LET i == image[t]
  IN /\ pc[t] = "clean_list" /\ loaded' = loaded \ {i}
     /\ IF containers[i] = {} THEN Goto(t, "clean_image") /\ UNCHANGED lock
                              ELSE Goto(t, "idle") /\ Release(i)
     /\ UNCHANGED <<image, mine, docker, others, recorded, runs, odd>>

CleanList(t) ==
  LET i == image[t]
  IN /\ pc[t] = "clean_list"
     /\ IF containers[i] = {} THEN Goto(t, "clean_image") /\ UNCHANGED lock
                              ELSE Goto(t, "idle") /\ Release(i)
     /\ UNCHANGED <<image, mine, docker, others, notes, runs, odd>>

\* Between the two calls another thread may have started a container.
CleanImage(t) ==
  LET i == image[t]
  IN /\ pc[t] = "clean_image" /\ Release(i) /\ Goto(t, "idle")
     /\ \/ Removable(i) /\ present' = present \ {i} /\ loaded' = loaded \ {i} /\ UNCHANGED odd
        \/ ~Removable(i) /\ UNCHANGED <<present, loaded, odd>>
        \/ Fails /\ UNCHANGED <<present, loaded>>
     /\ UNCHANGED <<image, mine, containers, others, recorded, runs>>

Next ==
  \E t \in Threads :
    \/ \E i \in Images : EnsureStart(t, i)
    \/ EnsureGet(t) \/ EnsureLoad(t) \/ EnsureFails(t)
    \/ Run(t) \/ RunFails(t) \/ UndoLock(t) \/ Undo(t) \/ Record(t)
    \/ RemoveStart(t) \/ RemoveContainer(t) \/ RemoveFails(t)
    \/ CleanLock(t) \/ CleanList(t) \/ CleanImage(t)

Spec == Init /\ [][Next]_vars

-----------------------------------------------------------------------------
(* Properties *)
\* An image that was there before the adapter is never removed by it, whatever fails and
\* however the evaluations overlap: others on this host may need it.
OthersStay == others \subseteq present

\* When every evaluation is over, and no call failed and no image had to be pulled, the
\* adapter has removed each image it loaded, the one of threads that overlapped included.
NothingLeft ==
  Cleanup /\ odd = 0 /\ (\A t \in Threads : pc[t] = "idle") => present = others /\ loaded = {}
=============================================================================
