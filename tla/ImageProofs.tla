----------------------------- MODULE ImageProofs -----------------------------
(***************************************************************************)
(* The two properties of ImageArchive, for every set of threads and        *)
(* images, every number of containers and of failing calls.                *)
(***************************************************************************)
EXTENDS ImageArchive, TLAPS

Labels == {"idle", "get", "load", "run", "undo", "undo_image", "record", "use", "remove",
           "clean", "clean_list", "clean_image"}

ImageTypeOK ==
  /\ pc \in [Threads -> Labels] /\ mine \in [Threads -> BOOLEAN]
  /\ image \in [Threads -> Images \cup {None}]
  /\ \A t \in Threads : pc[t] # "idle" => image[t] \in Images
  /\ DOMAIN containers = Images
  /\ others \subseteq Images
  /\ odd \in Nat

\* At these labels a thread removes an image, or will if it is its own.
Removing == {"undo", "undo_image", "clean", "clean_list", "clean_image"}
Owning   == {"run", "record", "remove"}

\* What a thread may remove is none of the images that were there before.
ThreadInv(t) ==
  /\ pc[t] \in Removing \cup {"load"} => image[t] \notin others
  /\ pc[t] \in Owning /\ mine[t] => image[t] \notin others
  /\ t \in recorded => pc[t] = "use" /\ image[t] \notin others

StayInv ==
  /\ OthersStay
  /\ loaded \cap others = {}
  /\ \A t \in Threads : ThreadInv(t)

\* t has an image i to account for: it is on its way to the removal of i.
Accounts(t, i) ==
  /\ image[t] = i
  /\ \/ pc[t] \in Owning /\ mine[t]
     \/ pc[t] = "use" /\ t \in recorded
     \/ pc[t] \in {"clean", "clean_list", "clean_image"}

\* While no call has failed and no image was pulled: what Docker has more than before is what
\* is noted as loaded, each such image has a thread to account for it, every thread with a
\* container of one is such a thread, and no other containers are there.
LeftInv ==
  odd = 0 =>
    /\ present = others \cup loaded
    /\ \A i \in loaded : \E t \in Threads : Accounts(t, i)
    /\ \A t \in Threads :
         /\ pc[t] \notin {"undo", "undo_image"}
         /\ image[t] \notin others =>
              /\ pc[t] \in Owning => mine[t]
              /\ pc[t] = "use" => t \in recorded
    /\ \A i \in Images : \A c \in containers[i] :
         c \in Threads /\ image[c] = i /\ pc[c] \in {"record", "use", "remove"}

-----------------------------------------------------------------------------
\* No thread has begun.
LEMMA TypeInit == Init => ImageTypeOK
BY DEF Init, ImageTypeOK, Labels

\* Whatever formula a flag is set to, it is a Boolean.
LEMMA BooleanUpdate ==
  ASSUME NEW S, NEW f \in [S -> BOOLEAN], NEW x \in S, NEW a, NEW B
  PROVE  [f EXCEPT ![x] = a \in B] \in [S -> BOOLEAN]
<1>1. (a \in B) \in BOOLEAN
  <2>1. CASE a \in B
    <3>1. (a \in B) = TRUE
      BY <2>1
    <3>2. QED
      BY <3>1
  <2>2. CASE a \notin B
    <3>1. (a \in B) = FALSE
      BY <2>2
    <3>2. QED
      BY <3>1
  <2>3. QED
    BY <2>1, <2>2
<1>2. QED
  <2> DEFINE g == [f EXCEPT ![x] = a \in B]
  <2>1. DOMAIN g = S
    BY Zenon
  <2>2. \A y \in S : g[y] \in BOOLEAN
    BY <1>1, Zenon
  <2>3. g = [y \in S |-> g[y]]
    BY <2>1, Zenon
  <2>4. QED
    BY <2>2, <2>3, Zenon

\* Every step of the adapter keeps the types, whatever Docker answers.
LEMMA TypeNext == ImageTypeOK /\ [Next]_vars => ImageTypeOK'
<1> SUFFICES ASSUME ImageTypeOK, [Next]_vars PROVE ImageTypeOK'
  OBVIOUS
<1> USE DEF ImageTypeOK, Labels, Goto, Fails, Acquire, Release, Create, Removable, docker, notes
<1>1. ASSUME NEW t \in Threads, NEW i \in Images, EnsureStart(t, i) PROVE ImageTypeOK'
  BY <1>1 DEF EnsureStart
<1>2. ASSUME NEW t \in Threads, EnsureGet(t) PROVE ImageTypeOK'
  <2>1. mine' = [mine EXCEPT ![t] = image[t] \in loaded] \/ mine' = mine
    BY <1>2, Zenon DEF EnsureGet
  <2>2. mine' \in [Threads -> BOOLEAN]
    <3>1. mine \in [Threads -> BOOLEAN]
      OBVIOUS
    <3>2. [mine EXCEPT ![t] = image[t] \in loaded] \in [Threads -> BOOLEAN]
      BY <3>1, BooleanUpdate, Zenon
    <3>3. QED
      BY <2>1, <3>1, <3>2, Zenon
  <2>3. UNCHANGED <<image, containers, others, odd>> /\ pc' \in [Threads -> Labels]
    BY <1>2 DEF EnsureGet
  <2>4. \A s \in Threads : pc'[s] # "idle" => image'[s] \in Images
    BY <1>2 DEF EnsureGet
  <2>5. QED
    BY <2>2, <2>3, <2>4
<1>3. ASSUME NEW t \in Threads, EnsureLoad(t) PROVE ImageTypeOK'
  BY <1>3 DEF EnsureLoad
<1>4. ASSUME NEW t \in Threads, EnsureFails(t) PROVE ImageTypeOK'
  BY <1>4 DEF EnsureFails
<1>5. ASSUME NEW t \in Threads, Run(t) PROVE ImageTypeOK'
  BY <1>5 DEF Run
<1>6. ASSUME NEW t \in Threads, RunFails(t) PROVE ImageTypeOK'
  BY <1>6 DEF RunFails
<1>7. ASSUME NEW t \in Threads, UndoLock(t) \/ Undo(t) PROVE ImageTypeOK'
  BY <1>7 DEF UndoLock, Undo
<1>8. ASSUME NEW t \in Threads, Record(t) \/ RemoveStart(t) PROVE ImageTypeOK'
  <2>1. mine' = [mine EXCEPT ![t] = t \in recorded] \/ mine' = mine
    BY <1>8, Zenon DEF Record, RemoveStart
  <2>2. mine' \in [Threads -> BOOLEAN]
    <3>1. mine \in [Threads -> BOOLEAN]
      OBVIOUS
    <3>2. [mine EXCEPT ![t] = t \in recorded] \in [Threads -> BOOLEAN]
      BY <3>1, BooleanUpdate, Zenon
    <3>3. QED
      BY <2>1, <3>1, <3>2, Zenon
  <2>3. UNCHANGED <<image, containers, others, odd>> /\ pc' \in [Threads -> Labels]
    BY <1>8 DEF Record, RemoveStart
  <2>4. \A s \in Threads : pc'[s] # "idle" => image'[s] \in Images
    BY <1>8 DEF Record, RemoveStart
  <2>5. QED
    BY <2>2, <2>3, <2>4
<1>9. ASSUME NEW t \in Threads, RemoveContainer(t) \/ RemoveFails(t) PROVE ImageTypeOK'
  BY <1>9 DEF RemoveContainer, RemoveFails
<1>10. ASSUME NEW t \in Threads, CleanLock(t) \/ CleanList(t) \/ CleanImage(t) PROVE ImageTypeOK'
  BY <1>10 DEF CleanLock, CleanList, CleanImage
<1>11. CASE UNCHANGED vars
  BY <1>11 DEF vars, threads
<1>12. QED
  BY <1>1, <1>2, <1>3, <1>4, <1>5, <1>6, <1>7, <1>8, <1>9, <1>10, <1>11 DEF Next

\* No step brings a thread with an image of the others to its removal.
LEMMA StayNext == ImageTypeOK /\ StayInv /\ [Next]_vars => StayInv'
<1> SUFFICES ASSUME ImageTypeOK, StayInv, [Next]_vars PROVE StayInv'
  OBVIOUS
<1> USE DEF ImageTypeOK, StayInv, OthersStay, ThreadInv, Removing, Owning, Labels,
            Goto, Fails, Acquire, Release, Create, Removable, docker, notes
<1>1. ASSUME NEW t \in Threads, NEW i \in Images, EnsureStart(t, i) PROVE StayInv'
  BY <1>1 DEF EnsureStart
<1>2. ASSUME NEW t \in Threads, EnsureGet(t) PROVE StayInv'
  BY <1>2 DEF EnsureGet
<1>3. ASSUME NEW t \in Threads, EnsureLoad(t) PROVE StayInv'
  BY <1>3 DEF EnsureLoad
<1>4. ASSUME NEW t \in Threads, EnsureFails(t) PROVE StayInv'
  BY <1>4 DEF EnsureFails
<1>5. ASSUME NEW t \in Threads, Run(t) PROVE StayInv'
  BY <1>5 DEF Run
<1>6. ASSUME NEW t \in Threads, RunFails(t) PROVE StayInv'
  BY <1>6 DEF RunFails
<1>7. ASSUME NEW t \in Threads, UndoLock(t) \/ Undo(t) PROVE StayInv'
  BY <1>7 DEF UndoLock, Undo
<1>8. ASSUME NEW t \in Threads, Record(t) \/ RemoveStart(t) PROVE StayInv'
  BY <1>8 DEF Record, RemoveStart
<1>9. ASSUME NEW t \in Threads, RemoveContainer(t) \/ RemoveFails(t) PROVE StayInv'
  BY <1>9 DEF RemoveContainer, RemoveFails
<1>10. ASSUME NEW t \in Threads, CleanLock(t) \/ CleanList(t) \/ CleanImage(t) PROVE StayInv'
  BY <1>10 DEF CleanLock, CleanList, CleanImage
<1>11. CASE UNCHANGED vars
  BY <1>11 DEF vars, threads
<1>12. QED
  BY <1>1, <1>2, <1>3, <1>4, <1>5, <1>6, <1>7, <1>8, <1>9, <1>10, <1>11 DEF Next

\* No image that was there before the adapter is ever removed by it: however the evaluations
\* overlap, a thread comes to remove only an image that ensure_image saw missing, or that was
\* noted as loaded by one that did.
THEOREM OthersAlwaysStay == Spec => []OthersStay
<1>1. Init => ImageTypeOK /\ StayInv
  BY TypeInit DEF Init, StayInv, OthersStay, ThreadInv, Removing, Owning
<1>2. ImageTypeOK /\ StayInv /\ [Next]_vars => (ImageTypeOK /\ StayInv)'
  BY TypeNext, StayNext
<1>3. StayInv => OthersStay
  BY DEF StayInv
<1>4. QED
  BY <1>1, <1>2, <1>3, PTL DEF Spec

\* A step that gives up an image leaves it removed, or to a thread that will.
LEMMA LeftNext == Cleanup /\ ImageTypeOK /\ StayInv /\ LeftInv /\ [Next]_vars => LeftInv'
<1> SUFFICES ASSUME Cleanup, ImageTypeOK, StayInv, LeftInv, [Next]_vars PROVE LeftInv'
  OBVIOUS
<1> USE DEF ImageTypeOK, StayInv, OthersStay, LeftInv, Accounts, Owning, Labels,
            Goto, Fails, Acquire, Release, Create, Removable, docker, notes
<1>1. ASSUME NEW t \in Threads, NEW i \in Images, EnsureStart(t, i) PROVE LeftInv'
  BY <1>1 DEF EnsureStart
<1>2. ASSUME NEW t \in Threads, EnsureGet(t) PROVE LeftInv'
  <2>1. CASE image[t] \in present
    <3>1. mine' = [mine EXCEPT ![t] = image[t] \in loaded]
      BY <1>2, <2>1, Zenon DEF EnsureGet
    <3>2. mine'[t] <=> image[t] \in loaded
      BY <3>1, Zenon
    <3>3. \A s \in Threads : s # t => mine'[s] = mine[s]
      BY <3>1
    <3>4. QED
      BY <1>2, <2>1, <3>2, <3>3 DEF EnsureGet
  <2>2. CASE image[t] \notin present
    BY <1>2, <2>2 DEF EnsureGet
  <2>3. QED
    BY <2>1, <2>2
<1>3. ASSUME NEW t \in Threads, EnsureLoad(t) PROVE LeftInv'
  BY <1>3 DEF EnsureLoad
<1>4. ASSUME NEW t \in Threads, EnsureFails(t) PROVE LeftInv'
  BY <1>4 DEF EnsureFails
<1>5. ASSUME NEW t \in Threads, Run(t) PROVE LeftInv'
  BY <1>5 DEF Run
<1>6. ASSUME NEW t \in Threads, RunFails(t) PROVE LeftInv'
  BY <1>6 DEF RunFails
<1>7. ASSUME NEW t \in Threads, UndoLock(t) PROVE LeftInv'
  BY <1>7 DEF UndoLock
<1>8. ASSUME NEW t \in Threads, Undo(t) PROVE LeftInv'
  BY <1>8 DEF Undo
<1>9. ASSUME NEW t \in Threads, Record(t) PROVE LeftInv'
  BY <1>9 DEF Record
<1>10. ASSUME NEW t \in Threads, RemoveStart(t) PROVE LeftInv'
  <2>1. mine' = [mine EXCEPT ![t] = t \in recorded]
    BY <1>10, Zenon DEF RemoveStart
  <2>2. mine'[t] <=> t \in recorded
    <3>1. t \in DOMAIN mine
      OBVIOUS
    <3>2. [mine EXCEPT ![t] = t \in recorded][t] <=> t \in recorded
      BY <3>1, Zenon
    <3>3. QED
      BY <2>1, <3>2, Zenon
  <2>3. \A s \in Threads : s # t => mine'[s] = mine[s]
    BY <2>1
  <2>4. QED
    BY <1>10, <2>2, <2>3 DEF RemoveStart
<1>11. ASSUME NEW t \in Threads, RemoveContainer(t) PROVE LeftInv'
  BY <1>11 DEF RemoveContainer
<1>12. ASSUME NEW t \in Threads, RemoveFails(t) PROVE LeftInv'
  BY <1>12 DEF RemoveFails
<1>13. ASSUME NEW t \in Threads, CleanLock(t) PROVE LeftInv'
  BY <1>13 DEF CleanLock
<1>14. ASSUME NEW t \in Threads, CleanList(t) PROVE LeftInv'
  BY <1>14 DEF CleanList
<1>15. ASSUME NEW t \in Threads, CleanImage(t) PROVE LeftInv'
  <2> SUFFICES ASSUME odd' = 0 PROVE LeftInv'
    OBVIOUS
  <2> DEFINE i == image[t]
  <2>1. CASE Removable(i) /\ present' = present \ {i} /\ loaded' = loaded \ {i} /\ UNCHANGED odd
    <3>1. present' = others' \cup loaded'
      BY <1>15, <2>1 DEF CleanImage, ThreadInv, Removing
    <3>2. ASSUME NEW j \in loaded' PROVE \E c \in Threads : Accounts(c, j)'
      <4>1. PICK c \in Threads : Accounts(c, j)
        BY <1>15, <2>1
      <4>2. c # t
        BY <2>1, <4>1
      <4>3. Accounts(c, j)'
        BY <1>15, <2>1, <4>1, <4>2 DEF CleanImage
      <4>4. QED
        BY <4>3
    <3>3. QED
      BY <1>15, <2>1, <3>1, <3>2 DEF CleanImage
  <2>2. CASE ~Removable(i) /\ UNCHANGED <<present, loaded, odd>>
    <3>1. ASSUME i \in loaded PROVE \E c \in Threads : c # t /\ Accounts(c, i)'
      BY <1>15, <2>2, <3>1 DEF CleanImage
    <3>2. ASSUME NEW j \in loaded, j # i PROVE \E c \in Threads : Accounts(c, j)'
      BY <1>15, <2>2, <3>2 DEF CleanImage
    <3>3. \A j \in loaded' : \E c \in Threads : Accounts(c, j)'
      BY <1>15, <2>2, <3>1, <3>2 DEF CleanImage
    <3>4. QED
      BY <1>15, <2>2, <3>3 DEF CleanImage
  <2>3. QED
    BY <1>15, <2>1, <2>2 DEF CleanImage
<1>16. CASE UNCHANGED vars
  BY <1>16 DEF vars, threads
<1>17. QED
  BY <1>1, <1>2, <1>3, <1>4, <1>5, <1>6, <1>7, <1>8, <1>9, <1>10, <1>11, <1>12, <1>13, <1>14,
     <1>15, <1>16 DEF Next

\* When every evaluation is over, and no call failed and no image had to be pulled, no image
\* the adapter loaded is left: each has a thread to account for it until it is removed, and
\* a thread that leaves an image to another's container leaves it to one that accounts for it.
THEOREM NothingIsLeft == Spec => []NothingLeft
<1> DEFINE Inv == ImageTypeOK /\ StayInv /\ (Cleanup => LeftInv)
<1>1. Init => Inv
  BY TypeInit DEF Init, StayInv, OthersStay, ThreadInv, Removing, Owning, LeftInv
<1>2. Inv /\ [Next]_vars => Inv'
  BY TypeNext, StayNext, LeftNext
<1>3. Inv => NothingLeft
  BY DEF NothingLeft, LeftInv, Accounts, Owning
<1> HIDE DEF Inv
<1>4. QED
  BY <1>1, <1>2, <1>3, PTL DEF Spec
=============================================================================
