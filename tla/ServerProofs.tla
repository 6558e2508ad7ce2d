----------------------------- MODULE ServerProofs -----------------------------
(* Proofs about the server's requests (Server), the subscribers of a build     *)
(* channel (Chan, a BuildChannel) and the file watches (Watch, a FileWatch),   *)
(* each for any value of its constants: one inductive invariant per module,    *)
(* and the properties of the runs that follow from it.                         *)
EXTENDS Server, MCBuildChannel, MCFileWatch, FiniteSetTheorems, SequenceTheorems, TLAPS

-----------------------------------------------------------------------------
(* Requests that restart the ROS subsystems or open a workspace: what holds is *)
(* stated by how far each request is (pos).                                    *)

(* Where a component is among the components, and a manager among those that   *)
(* are restarted.                                                              *)
Place(m) == CHOOSE k \in 1..5 : Components[k] = m
Turn(m) == CHOOSE k \in 1..3 : Managers[k] = m

(* How far a change of the domain is, as a number that only grows.             *)
Number(s, k) ==
    CASE s = "zshrc" -> 1
      [] s = "write" -> 2
      [] s = "save" -> 3
      [] s = "shutdown" -> 4
      [] s = "shutting" -> 4
      [] s = "unlisten" -> 4 + k
      [] s = "root" -> 8
      [] s = "create" -> 8 + k
      [] s = "controller" -> 12
      [] s = "controls" -> 12
      [] s = "channel" -> 11 + 2 * k
      [] s = "sets" -> 11 + 2 * k
      [] s = "listen" -> 12 + 2 * k
      [] s = "adds" -> 12 + 2 * k
      [] s = "aware" -> 18 + k
      [] s = "replaces" -> 18 + k
      [] s = "answer" -> 22
      [] OTHER -> 23
Where(r) ==
    IF job[r] = "domain" THEN Number(stage[r], step[r])
    ELSE IF job[r] = "open" THEN 24 ELSE 0
pos == [r \in Request |-> Where(r)]

(* A restart will still take the channel off the old manager, create the new   *)
(* one, give it to the controller and the channel, have it listened to, and    *)
(* put it into the list of the workspace.                                      *)
Hears(r, m) == 4 <= pos[r] /\ pos[r] <= 4 + Turn(m)
Creates(r, m) == 4 <= pos[r] /\ pos[r] <= 8 + Turn(m)
Steers(r) == pos[r] \in 10..12
Links(r, m) == 9 + Turn(m) <= pos[r] /\ pos[r] <= 11 + 2 * Turn(m)
Listens(r, m) == 9 + Turn(m) <= pos[r] /\ pos[r] <= 12 + 2 * Turn(m)
Lists(r, m) == 9 + Turn(m) <= pos[r] /\ pos[r] <= 18 + Turn(m)
Reborn(r, m) == 2 <= pos[r] /\ pos[r] <= 8 + Turn(m)
Creators(m) == {r \in Request : pos[r] > 8 + Turn(m)}
Saves(r, m) == pos[r] = 3 /\ Turn(m) < step[r]

(* The manager a restart has read and will give to the next place, and whether *)
(* it will have the server's own listened to.                                  *)
Using == {"controls", "sets", "adds", "replaces"}
aim == [r \in Request |-> IF stage[r] \in Using THEN slot[r] ELSE -1]
Adds(r, m) ==
    Listens(r, m) /\ (pos[r] = 12 + 2 * Turn(m) => aim[r] \in {-1, current[m]})

(* A request stands at a stage of its kind, at one of the components there.    *)
Opening == {"assign", "pick", "give"}
Walked ==
    {"save", "shutdown", "shutting", "unlisten", "create", "channel", "sets", "listen", "adds",
     "aware", "replaces", "pick", "give"}
StageShape ==
    \A r \in Request :
        /\ job[r] = "none" => stage[r] = "done"
        /\ job[r] = "open" => stage[r] \in Opening \cup {"answer", "done"}
        /\ job[r] = "domain" => stage[r] \notin Opening
        /\ stage[r] \notin Opening => step[r] <= 3
        /\ stage[r] \notin Walked => step[r] = 1

(* A restart has saved the managers there were; nobody else has.               *)
SavedShape ==
    \A r \in Request, m \in Managed :
        /\ pos[r] \in 4..21 \/ Saves(r, m) => old[r][m] \in Instance
        /\ pos[r] \notin 3..22 => old[r][m] = -1

(* What a restart has read is a manager that was created, and the server's own *)
(* while no other restart creates one.                                         *)
SlotShape ==
    \A r \in Request :
        aim[r] # -1 =>
            /\ aim[r] \in Instance /\ Under(r) \in Managed
            /\ life[Under(r)][aim[r]] # "none"
            /\ {"domain"} \notin overlap => aim[r] = current[Under(r)]

(* An instance that is used has been created, and one that has not been hears  *)
(* nobody.                                                                     *)
UsedShape ==
    /\ \A m \in Managed :
          /\ life[m][current[m]] # "none"
          /\ \A r \in Request : old[r][m] # -1 => life[m][old[r][m]] # "none"
          /\ \A g \in Instance : life[m][g] = "none" => listens[m][g] = 0
    /\ \A m \in Component : life[m][aware[m]] # "none"

(* No more managers are created than requests have come to create one.         *)
FreshShape ==
    \A m \in Managed :
        \E n \in 0..Cardinality(Creators(m)) :
            \A g \in Instance : life[m][g] # "none" <=> g <= n

(* The server's manager is alive and its channel listens to it, unless a       *)
(* restart will have it listened to or, having saved it, will replace it.      *)
LiveShape ==
    \A m \in Managed :
        \/ life[m][current[m]] = "up"
        \/ \E r \in Request : Creates(r, m) /\ old[r][m] = current[m]
HeardShape ==
    \A m \in Managed :
        \/ listens[m][current[m]] >= 1
        \/ \E r \in Request : Adds(r, m)
        \/ \E r \in Request : Creates(r, m) /\ old[r][m] = current[m]

(* The history of overlaps has all the pairs served together.                  *)
OverlapShape ==
    \A r, q \in Request : r # q /\ Served(r) /\ Served(q) => {job[r], job[q]} \in overlap

(* While no two restarts overlap, the channels, the controller and the list of *)
(* the workspace have the server's managers, and each channel listens once,    *)
(* but for what the one restart has not come to.                               *)
Alone == {"domain"} \notin overlap
LinkShape ==
    Alone =>
        /\ \A m \in Managed : channel[m] = current[m] \/ \E r \in Request : Links(r, m)
        /\ controller = current["build"] \/ \E r \in Request : Steers(r)
ListShape ==
    Alone => \A m \in Managed :
        aware[m] = current[m] \/ \E r \in Request : Lists(r, m) /\ aware[m] = old[r][m]
SoloShape ==
    Alone => \A m \in Managed, r \in Request :
        Creates(r, m) \/ Saves(r, m) => old[r][m] = current[m] /\ aware[m] = current[m]
OnceShape ==
    Alone => \A m \in Managed :
        IF \E r \in Request : Listens(r, m) \/ (Creates(r, m) /\ ~Hears(r, m))
        THEN listens[m][current[m]] = 0 ELSE listens[m][current[m]] = 1

(* While nothing overlaps at all, every component has the root of the          *)
(* validator, but for those a change of the workspace has not come to.         *)
Serial == overlap \cap {{"open"}, {"open", "domain"}, {"domain"}} = {}
left == [r \in Request |-> IF stage[r] \in {"pick", "give"} THEN step[r] ELSE 6]
Gives(r, m) == left[r] <= Place(m)
RootShape ==
    Serial =>
        \A m \in Component :
            rootOf[m][aware[m]] = root \/ \E r \in Request : Gives(r, m)
NewRootShape ==
    Serial =>
        \A r \in Request :
            /\ pos[r] \in 9..11 => seen[r] = root
            /\ \A m \in Managed : Lists(r, m) => rootOf[m][current[m]] = root
GiveShape ==
    Serial =>
        \A r \in Request :
            stage[r] = "give" => seen[r] = root /\ slot[r] = aware[Components[step[r]]]

(* While no two changes of the domain overlap, the file tells what a change    *)
(* that was written has set, and the managers were made in it or will be       *)
(* replaced.                                                                   *)
DomainShape ==
    Alone =>
        /\ written = "whole" => Told \/ \E r \in Request : pos[r] = 2
        /\ \A r \in Request : pos[r] = 2 => env = domain[r]
BornShape ==
    /\ bornIn \in [Component -> [Instance -> Domain \cup {NoDomain}]]
    /\ Alone /\ written # "failed" =>
          \A m \in Managed : bornIn[m][current[m]] = env \/ \E r \in Request : Reborn(r, m)

ServerInv ==
    /\ TypeOK
    /\ StageShape
    /\ SavedShape
    /\ SlotShape
    /\ UsedShape
    /\ FreshShape
    /\ LinkShape
    /\ LiveShape
    /\ HeardShape
    /\ OverlapShape
    /\ ListShape
    /\ SoloShape
    /\ OnceShape
    /\ RootShape
    /\ NewRootShape
    /\ GiveShape
    /\ DomainShape
    /\ BornShape
-----------------------------------------------------------------------------
(* The order of the components and of the managers.                            *)
LEMMA Orders ==
    /\ Len(Managers) = 3 /\ Len(Components) = 5
    /\ \A k \in 1..3 : Managers[k] \in Managed /\ Turn(Managers[k]) = k
    /\ \A m \in Managed : Turn(m) \in 1..3 /\ Managers[Turn(m)] = m
    /\ \A k \in 1..5 : Components[k] \in Component /\ Place(Components[k]) = k
    /\ \A m \in Component : Place(m) \in 1..5 /\ Components[Place(m)] = m
    /\ Managed \subseteq Component
    /\ "build" \in Managed /\ Turn("build") = 1
<1>1. /\ Len(Managers) = 3 /\ Len(Components) = 5
      /\ \A k, l \in 1..3 : Managers[k] = Managers[l] => k = l
      /\ \A k, l \in 1..5 : Components[k] = Components[l] => k = l
    BY DEF Managers, Components
<1>2. \A k \in 1..3 : Managers[k] \in Managed /\ Turn(Managers[k]) = k
    BY <1>1 DEF Managed, Turn
<1>3. \A k \in 1..5 : Components[k] \in Component /\ Place(Components[k]) = k
    BY <1>1 DEF Component, Place
<1>4. \A m \in Managed : Turn(m) \in 1..3 /\ Managers[Turn(m)] = m
    BY <1>1 DEF Managed, Turn
<1>5. \A m \in Component : Place(m) \in 1..5 /\ Components[Place(m)] = m
    BY <1>1 DEF Component, Place
<1>6. /\ Managers[1] = "build" /\ Managers[2] = "stream" /\ Managers[3] = "tf"
      /\ Components[1] = "build" /\ Components[4] = "stream" /\ Components[5] = "tf"
    BY DEF Managers, Components
<1>7. "build" \in Managed /\ Turn("build") = 1
    BY <1>2, <1>6
<1>8. Managed \subseteq Component
    BY <1>1, <1>3, <1>6 DEF Managed
<1> QED
    BY <1>1, <1>2, <1>3, <1>4, <1>5, <1>7, <1>8

(* What a step needs of it.                                                    *)
LEMMA InTurn ==
    /\ \A m \in Managed : m \in Component /\ Turn(m) \in {1, 2, 3}
    /\ \A m, l \in Managed : Turn(m) = Turn(l) => m = l
    /\ "build" \in Managed /\ Turn("build") = 1
BY Orders

(* A request that is under way goes from one stage, or component, to another.  *)
Advances(r, k, l) ==
    /\ job' = job /\ overlap' = overlap
    /\ stage' \in [Request -> Stage] /\ step' \in [Request -> 1..5]
    /\ StageShape' /\ OverlapShape'
    /\ \A q \in Request : q # r => stage'[q] = stage[q] /\ step'[q] = step[q]
    /\ job[r] = "domain" => pos[r] = k /\ pos' = [pos EXCEPT ![r] = l] /\ left' = left
    /\ job[r] = "domain" => stage[r] # "give" /\ stage'[r] # "give"
    /\ job[r] = "open" => pos' = pos
    /\ pos \in [Request -> 0..24] /\ pos' \in [Request -> 0..24]

(* A table of tables, with one entry changed.                                  *)
LEMMA Updated ==
    ASSUME NEW I, NEW J, NEW T, NEW f \in [I -> [J -> T]], NEW i \in I, NEW j \in J, NEW t \in T
    PROVE  /\ [f EXCEPT ![i][j] = t] \in [I -> [J -> T]]
           /\ \A n \in I, h \in J :
                 [f EXCEPT ![i][j] = t][n][h] = IF n = i /\ h = j THEN t ELSE f[n][h]
OBVIOUS

(* The numbers are those of the stages.                                        *)
LEMMA PosType == ASSUME TypeOK, StageShape PROVE pos \in [Request -> 0..24]
<1>1. ASSUME NEW r \in Request PROVE Where(r) \in 0..24
  <2>1. CASE job[r] = "domain"
    <3>0. stage[r] \in Stage /\ step[r] \in 1..5
        BY Orders DEF TypeOK
    <3>1. stage[r] \in Stage \ Opening /\ step[r] \in 1..3
        BY <2>1, <3>0 DEF StageShape
    <3>2. \A s \in Stage, k \in 1..3 : Number(s, k) \in 0..24
        BY DEF Number, Stage
    <3> QED
        BY <2>1, <3>1, <3>2 DEF Where
  <2>2. CASE job[r] # "domain"
      BY <2>2 DEF Where
  <2> QED
      BY <2>1, <2>2
<1> QED
    BY <1>1 DEF pos

(* A request that goes on to another stage goes on to a later position.        *)
LEMMA Moves ==
    ASSUME TypeOK, StageShape, OverlapShape, NEW r \in Request, NEW s \in Stage \ {"done"},
           At(r, s), NEW n \in Stage, NEW k \in 1..5, job' = job, overlap' = overlap,
           stage' = [stage EXCEPT ![r] = n], step' = [step EXCEPT ![r] = k],
           n \notin Opening => k <= 3,
           n \notin Walked => k = 1,
           n \in Opening <=> (s \in Opening /\ n # "answer"),
           s = "answer" => n = "done"
    PROVE  Advances(r, Number(s, step[r]), Number(n, k))
<1>1. /\ stage \in [Request -> Stage] /\ step \in [Request -> 1..5]
      /\ job[r] # "none" /\ stage[r] = s
    BY Orders DEF TypeOK, At
<1>2. stage' \in [Request -> Stage] /\ step' \in [Request -> 1..5]
    BY <1>1
<1>3. \A q \in Request : q # r => stage'[q] = stage[q] /\ step'[q] = step[q]
    BY <1>1
<1>4. stage'[r] = n /\ step'[r] = k
    BY <1>1
<1>5. StageShape'
  <2>1. ASSUME NEW q \in Request, q # r
        PROVE  stage'[q] = stage[q] /\ step'[q] = step[q] /\ job'[q] = job[q]
      BY <2>1, <1>3
  <2>2. job[r] = "open" => n \in Opening \cup {"answer", "done"}
      BY <1>1 DEF StageShape, TypeOK, Opening
  <2>3. job[r] = "domain" => n \notin Opening
      BY <1>1 DEF StageShape, TypeOK, Opening
  <2> QED
      BY <1>1, <1>4, <2>1, <2>2, <2>3 DEF StageShape
<1>6. OverlapShape'
    BY <1>1, <1>3 DEF OverlapShape, Served
<1>7. pos \in [Request -> 0..24]
    BY PosType
<1>8. pos' \in [Request -> 0..24]
  <2>1. TypeOK => job \in [Request -> {"none", "domain", "open"}]
      BY DEF TypeOK
  <2>2. ASSUME NEW q \in Request PROVE Where(q)' \in 0..24
    <3>1. CASE job'[q] = "domain"
      <4>1. stage'[q] \in Stage \ Opening /\ step'[q] \in 1..3
          BY <3>1, <1>2, <1>5 DEF StageShape, Opening, Stage
      <4>2. \A t \in Stage, l \in 1..3 : Number(t, l) \in 0..24
          BY DEF Number, Stage
      <4> QED
          BY <3>1, <4>1, <4>2 DEF Where
    <3>2. CASE job'[q] # "domain"
        BY <3>2 DEF Where
    <3> QED
        BY <3>1, <3>2
  <2> QED
      BY <2>2 DEF pos
<1>9. \A q \in Request : q # r => Where(q)' = Where(q)
    BY <1>3 DEF Where
<1>10. job[r] = "domain" => Where(r) = Number(s, step[r]) /\ Where(r)' = Number(n, k)
    BY <1>1, <1>4 DEF Where
<1>11. job[r] = "open" => Where(r) = 24 /\ Where(r)' = 24
    BY <1>1 DEF Where
<1>12. job[r] = "domain" => pos[r] = Number(s, step[r])
       /\ pos' = [pos EXCEPT ![r] = Number(n, k)]
    BY <1>9, <1>10 DEF pos
<1>13. job[r] = "open" => pos' = pos
    BY <1>9, <1>11 DEF pos
<1>14. job[r] = "domain" => left' = left
  <2>1. job[r] = "domain" => s \notin Opening /\ n \notin Opening
      BY <1>1 DEF StageShape
  <2> QED
      BY <1>1, <1>3, <1>4, <2>1 DEF left, Opening
<1>15. job[r] = "domain" => stage[r] # "give" /\ stage'[r] # "give"
    BY <1>1, <1>4 DEF StageShape, Opening
<1> QED
    BY <1>14, <1>15, <1>2, <1>3, <1>5, <1>6, <1>7, <1>8, <1>12, <1>13 DEF Advances

(* The three ways to go on, for a request that changes the domain.             *)
LEMMA GoesAdvances ==
    ASSUME TypeOK, StageShape, OverlapShape, NEW r \in Request, NEW s \in Stage \ {"done"},
           At(r, s), NEW n \in Stage \ {"pick", "give"}, Goes(r, n),
           n \in Opening <=> (s \in Opening /\ n # "answer"),
           s = "answer" => n = "done"
    PROVE  Advances(r, Number(s, step[r]), Number(n, 1))
<1>1. stage' = [stage EXCEPT ![r] = n] /\ step' = [step EXCEPT ![r] = 1]
      /\ job' = job /\ overlap' = overlap
    BY DEF Goes
<1>2. n \in Stage /\ 1 \in 1..5 /\ 1 <= 3
    OBVIOUS
<1> QED
    BY <1>1, <1>2, Moves

(* So does one that takes the same turn of the loop at its next stage.         *)
LEMMA TurnsAdvances ==
    ASSUME TypeOK, StageShape, OverlapShape, NEW r \in Request,
           NEW s \in Walked, At(r, s), NEW n \in Walked, Turns(r, n),
           n \in Opening <=> s \in Opening
    PROVE  Advances(r, Number(s, step[r]), Number(n, step[r]))
<1>1. step[r] \in 1..5 /\ stage[r] \in Stage /\ step \in [Request -> 1..5] /\ stage[r] = s
    BY Orders DEF TypeOK, At
<1>2. stage' = [stage EXCEPT ![r] = n] /\ step' = [step EXCEPT ![r] = step[r]]
      /\ job' = job /\ overlap' = overlap
    BY <1>1 DEF Turns
<1>3. n \in Stage /\ s \in Stage \ {"done"} /\ n # "answer" /\ s # "answer"
    BY DEF Walked, Stage
<1>4. n \notin Opening => step[r] <= 3
    BY <1>1, <1>3 DEF StageShape
<1> QED
    BY <1>1, <1>2, <1>3, <1>4, Moves

(* A loop over the managers.                                                   *)
LEMMA LoopsAdvances ==
    ASSUME TypeOK, StageShape, OverlapShape, NEW r \in Request,
           NEW s \in Walked \ Opening, At(r, s), NEW a \in Walked \ Opening,
           NEW n \in Stage \ Opening, Loops(r, Managers, a, n), n # "done"
    PROVE  Advances(r, Number(s, step[r]),
                    IF step[r] = 3 THEN Number(n, 1) ELSE Number(a, step[r] + 1))
<1>1. step[r] \in 1..3 /\ stage[r] = s
  <2>1. step[r] \in 1..5 /\ stage[r] = s
      BY Orders DEF TypeOK, At
  <2> QED
      BY <2>1 DEF StageShape
<1>2. s \in Stage \ {"done"} /\ s # "answer" /\ a \in Stage /\ a # "answer"
    BY DEF Walked, Stage
<1>3. CASE step[r] = 3
  <2>1. Goes(r, n)
      BY <1>3, Orders DEF Loops
  <2> QED
      BY <1>2, <1>3, <2>1, GoesAdvances DEF Opening
<1>4. CASE step[r] # 3
  <2>1. /\ stage' = [stage EXCEPT ![r] = a] /\ step' = [step EXCEPT ![r] = step[r] + 1]
        /\ job' = job /\ overlap' = overlap
      BY <1>4, Orders DEF Loops
  <2>2. step[r] + 1 \in 1..5 /\ step[r] + 1 <= 3
      BY <1>1, <1>4
  <2>3. Advances(r, Number(s, step[r]), Number(a, step[r] + 1))
      BY <1>2, <2>1, <2>2, Moves
  <2> QED
      BY <1>4, <2>3
<1> QED
    BY <1>3, <1>4

(* A change of the domain at work is at one of the numbers between.            *)
LEMMA Numbers ==
    ASSUME TypeOK, StageShape, NEW r \in Request
    PROVE  /\ pos[r] \in 1..22 <=> job[r] = "domain" /\ stage[r] # "done"
           /\ pos[r] = 24 <=> job[r] = "open"
<1>1. stage[r] \in Stage /\ step[r] \in 1..5 /\ pos[r] = Where(r)
    BY Orders DEF TypeOK, pos
<1>2. CASE job[r] = "domain"
  <2>1. stage[r] \in Stage \ Opening /\ step[r] \in 1..3
      BY <1>1, <1>2 DEF StageShape
  <2>2. \A s \in Stage \ Opening, k \in 1..3 :
            /\ Number(s, k) # 24
            /\ Number(s, k) \in 1..22 <=> s # "done"
      BY DEF Number, Stage, Opening
  <2> QED
      BY <1>1, <1>2, <2>1, <2>2 DEF Where
<1>3. CASE job[r] # "domain"
    BY <1>1, <1>3 DEF Where
<1> QED
    BY <1>2, <1>3

(* Where no two overlap there is only one.                                     *)
LEMMA OnlyOne ==
    ASSUME TypeOK, StageShape, OverlapShape, Alone, NEW r \in Request, pos[r] \in 1..22
    PROVE  \A q \in Request : q # r => pos[q] \notin 1..22
<1> SUFFICES ASSUME NEW q \in Request, q # r, pos[q] \in 1..22 PROVE FALSE
    OBVIOUS
<1>1. Served(r) /\ Served(q) /\ {job[r], job[q]} = {"domain"}
    BY Numbers DEF Served
<1> QED
    BY <1>1 DEF OverlapShape, Alone

(* While restarts and switches come one at a time, no other request is served. *)
LEMMA OnlyServed ==
    ASSUME TypeOK, StageShape, OverlapShape, Serial, NEW r \in Request, Served(r)
    PROVE  /\ Alone
           /\ \A q \in Request : q # r => ~Served(q)
<1>1. Alone
    BY DEF Serial, Alone
<1> SUFFICES ASSUME NEW q \in Request, q # r, Served(q) PROVE FALSE
    BY <1>1
<1>2. job[r] \in {"domain", "open"} /\ job[q] \in {"domain", "open"}
    BY DEF TypeOK, Served
<1>3. {job[r], job[q]} \in {{"open"}, {"open", "domain"}, {"domain"}}
    BY <1>2
<1> QED
    BY <1>3 DEF OverlapShape, Serial

(* A step that neither reads a manager to give it on nor gives one on.         *)
LEMMA AimKept ==
    ASSUME NEW r \in Request, stage[r] \notin Using, stage'[r] \notin Using,
           \A q \in Request : q # r => stage'[q] = stage[q] /\ slot'[q] = slot[q]
    PROVE  aim' = aim /\ aim[r] = -1 /\ aim'[r] = -1
<1>1. \A q \in Request :
          (IF stage'[q] \in Using THEN slot'[q] ELSE -1)
              = (IF stage[q] \in Using THEN slot[q] ELSE -1)
    OBVIOUS
<1> QED
    BY <1>1 DEF aim

(* Whoever has read one is at a stage between its creation and the answer.     *)
LEMMA AimPlace ==
    ASSUME TypeOK, StageShape, NEW r \in Request, aim[r] # -1
    PROVE  pos[r] \in 12..21 /\ stage[r] \in Using
<1>1. stage[r] \in Using /\ step[r] \in 1..5 /\ job[r] \in {"none", "open", "domain"}
    BY Orders DEF aim, TypeOK
<1>2. job[r] = "domain" /\ step[r] \in 1..3
    BY <1>1 DEF StageShape, Using, Opening
<1>3. \A s \in Using, k \in 1..3 : Number(s, k) \in 12..21
    BY DEF Number, Using
<1> QED
    BY <1>1, <1>2, <1>3 DEF pos, Where

(* While requests only go on, nobody creates more managers than may.           *)
LEMMA FreshKept ==
    ASSUME FreshShape, pos \in [Request -> 0..24], pos' \in [Request -> 0..24],
           \A q \in Request : pos[q] <= pos'[q],
           \A m \in Managed, g \in Instance : life'[m][g] = "none" <=> life[m][g] = "none"
    PROVE  FreshShape'
<1> SUFFICES ASSUME NEW m \in Managed
             PROVE  \E n \in 0..Cardinality(Creators(m)') :
                        \A g \in Instance : life'[m][g] # "none" <=> g <= n
    BY DEF FreshShape
<1>1. Creators(m) \subseteq Creators(m)' /\ Creators(m)' \subseteq Request
    BY Orders DEF Creators
<1>2. IsFiniteSet(Creators(m)') /\ IsFiniteSet(Creators(m))
    BY <1>1, RequestAssumption, FS_Subset
<1>3. /\ Cardinality(Creators(m)) \in Nat /\ Cardinality(Creators(m)') \in Nat
      /\ Cardinality(Creators(m)) <= Cardinality(Creators(m)')
    BY <1>1, <1>2, FS_Subset, FS_CardinalityType
<1>4. PICK n \in 0..Cardinality(Creators(m)) :
            \A g \in Instance : life[m][g] # "none" <=> g <= n
    BY DEF FreshShape
<1>5. n \in 0..Cardinality(Creators(m)')
    BY <1>3, <1>4
<1> QED
    BY <1>4, <1>5

(* There is always an instance for the next manager, the first unused one.     *)
LEMMA FreshInstance ==
    ASSUME TypeOK, FreshShape, pos \in [Request -> 0..24], NEW r \in Request,
           NEW m \in Managed, pos[r] <= 8 + Turn(m)
    PROVE  /\ Fresh(m) \in Instance /\ life[m][Fresh(m)] = "none"
           /\ \A h \in Instance : h < Fresh(m) => life[m][h] # "none"
<1>1. PICK n \in 0..Cardinality(Creators(m)) :
            \A g \in Instance : life[m][g] # "none" <=> g <= n
    BY DEF FreshShape
<1>2. Creators(m) \subseteq Request /\ r \notin Creators(m)
    BY InTurn DEF Creators
<1>3. /\ Cardinality(Creators(m)) \in Nat /\ Cardinality(Request) \in Nat
      /\ Cardinality(Creators(m)) < Cardinality(Request)
  <2>1. IsFiniteSet(Creators(m)) /\ Cardinality(Creators(m)) \in Nat
        /\ Cardinality(Request) \in Nat
      BY <1>2, RequestAssumption, FS_Subset, FS_CardinalityType
  <2>2. /\ Cardinality(Creators(m)) <= Cardinality(Request)
        /\ Cardinality(Request) = Cardinality(Creators(m)) => Request = Creators(m)
      BY <1>2, RequestAssumption, FS_Subset
  <2> QED
      BY <1>2, <2>1, <2>2
<1>4. n \in Nat /\ n + 1 \in Instance
    BY <1>1, <1>3 DEF Instance
<1>5. life[m][n + 1] = "none" /\ \A h \in 0..n : h \in Instance /\ life[m][h] # "none"
    BY <1>1, <1>3, <1>4 DEF Instance
<1>6. \E g \in Instance : life[m][g] = "none" /\ \A h \in 0..(g - 1) : life[m][h] # "none"
    BY <1>4, <1>5
<1>7. /\ Fresh(m) \in Instance /\ life[m][Fresh(m)] = "none"
      /\ \A h \in 0..(Fresh(m) - 1) : life[m][h] # "none"
    BY <1>6 DEF Fresh
<1>8. \A h \in Instance : h < Fresh(m) => h \in 0..(Fresh(m) - 1)
    BY <1>3, <1>7 DEF Instance
<1> QED
    BY <1>7, <1>8

(* A restart that meets nobody meets no change of the workspace.               *)
LEMMA NobodyGives ==
    ASSUME TypeOK, StageShape, OverlapShape, Serial, NEW r \in Request, job[r] = "domain",
           stage[r] # "done"
    PROVE  /\ \A q \in Request : stage[q] \notin {"pick", "give"}
           /\ \A q \in Request, m \in Component : ~Gives(q, m)
<1>1. Served(r)
    BY DEF Served
<1>2. ASSUME NEW q \in Request PROVE stage[q] \notin {"pick", "give"}
  <2>1. CASE q = r
      BY <2>1 DEF StageShape, Opening
  <2>2. CASE q # r
    <3>1. ~Served(q)
        BY <1>1, <2>2, OnlyServed
    <3> QED
        BY <3>1 DEF Served, StageShape
  <2> QED
      BY <2>1, <2>2
<1>3. \A q \in Request : left[q] = 6
    BY <1>2 DEF left
<1> QED
    BY <1>2, <1>3, Orders DEF Gives

(* It reads the file and sets the environment ...                              *)
LEMMA SetDomainReadsStep ==
    ASSUME ServerInv, NEW r \in Request, SetDomainReads(r)
    PROVE  ServerInv'
<1> USE DEF SetDomainReads, RestKeeps, locals, pointers, instances
<1>1. job[r] = "domain" /\ stage[r] = "zshrc" /\ At(r, "zshrc")
    BY DEF At, ServerInv, TypeOK, StageShape, Opening
<1>2. Advances(r, 1, 2)
  <2>1. "zshrc" \in Stage \ {"done"} /\ "write" \in Stage \ {"pick", "give"}
      BY DEF Stage
  <2>2. "write" \notin Opening /\ "zshrc" \notin Opening /\ Goes(r, "write")
      BY DEF Opening
  <2>3. Advances(r, Number("zshrc", step[r]), Number("write", 1))
      BY <1>1, <2>1, <2>2, GoesAdvances DEF ServerInv
  <2> QED
      BY <2>3 DEF Number
<1>3. /\ job' = job /\ overlap' = overlap /\ left' = left
      /\ pos[r] = 1 /\ pos' = [pos EXCEPT ![r] = 2]
      /\ pos \in [Request -> 0..24] /\ pos' \in [Request -> 0..24]
      /\ stage[r] # "give" /\ stage'[r] # "give"
      /\ \A q \in Request : q # r => stage'[q] = stage[q] /\ step'[q] = step[q]
    BY <1>1, <1>2 DEF Advances
<1>4. StageShape' /\ OverlapShape'
    BY <1>2 DEF Advances
<1>5. Alone => \A q \in Request : q # r => pos[q] \notin 1..22
    BY <1>1, <1>3, OnlyOne DEF ServerInv
<1>s. aim' = aim /\ aim[r] = -1
  <2>1. stage[r] \notin Using /\ stage'[r] \notin Using
      BY <1>1 DEF Goes, Loops, Turns, Begins, Using, ServerInv, TypeOK
  <2>2. \A q \in Request : q # r => slot'[q] = slot[q]
      BY DEF ServerInv, TypeOK
  <2> QED
      BY <1>3, <2>1, <2>2, AimKept
<1>6. TypeOK'
  <2>1. read' \in [Request -> SUBSET Line]
      BY DEF ServerInv, TypeOK
  <2> QED
      BY <1>1, <1>3, <1>2, <2>1, Orders DEF Advances, ServerInv, TypeOK
<1>7. SavedShape'
    BY <1>1, <1>3, InTurn DEF ServerInv, SavedShape, Saves
<1>8. SlotShape'
    BY <1>3, <1>s DEF ServerInv, SlotShape, Under
<1>9. UsedShape'
    BY <1>1, <1>3, InTurn DEF ServerInv, UsedShape
<1>10. FreshShape'
    BY <1>1, <1>3, FreshKept DEF ServerInv
<1>11. LinkShape'
    BY <1>1, <1>3, InTurn DEF ServerInv, LinkShape, Alone, Links, Steers
<1>12. LiveShape'
    BY <1>1, <1>3, InTurn DEF ServerInv, LiveShape, Creates
<1>13. HeardShape'
    BY <1>1, <1>3, <1>s, InTurn DEF ServerInv, HeardShape, Creates, Adds, Listens
<1>14. ListShape'
    BY <1>1, <1>3, <1>5, InTurn DEF ServerInv, ListShape, Alone, Lists
<1>15. SoloShape'
    BY <1>1, <1>3, <1>5, InTurn DEF ServerInv, SoloShape, Alone, Creates, Saves
<1>16. OnceShape'
    BY <1>1, <1>3, <1>5, InTurn
       DEF ServerInv, OnceShape, Alone, Listens, Creates, Hears
<1>17. RootShape'
    BY <1>1, <1>3, InTurn DEF ServerInv, RootShape, Serial, Gives
<1>18. NewRootShape'
    BY <1>1, <1>3, <1>5, InTurn DEF ServerInv, NewRootShape, Serial, Lists
<1>19. GiveShape'
    BY <1>1, <1>3 DEF ServerInv, GiveShape, Serial
<1>20. DomainShape'
    BY <1>1, <1>3, <1>5, InTurn DEF ServerInv, TypeOK, DomainShape, Told, Alone
<1>21. BornShape'
  <2>1. \A m \in Managed : Reborn(r, m)'
      BY <1>3, InTurn DEF Reborn
  <2> QED
      BY <2>1 DEF ServerInv, BornShape
<1> QED
    BY <1>4, <1>6, <1>7, <1>8, <1>9, <1>10, <1>11, <1>12, <1>13, <1>14, <1>15,
       <1>16, <1>17, <1>18, <1>19, <1>20, <1>21
       DEF ServerInv

(* ... writes the file ...                                                     *)
LEMMA SetDomainWritesStep ==
    ASSUME ServerInv, NEW r \in Request, SetDomainWrites(r)
    PROVE  ServerInv'
<1> USE DEF SetDomainWrites, Rewritten, RestKeeps, locals, pointers, instances
<1>1. job[r] = "domain" /\ stage[r] = "write" /\ At(r, "write")
    BY DEF At, ServerInv, TypeOK, StageShape, Opening
<1>2. Advances(r, 2, 3)
  <2>1. "write" \in Stage \ {"done"} /\ "save" \in Stage \ {"pick", "give"}
      BY DEF Stage
  <2>2. "save" \notin Opening /\ "write" \notin Opening /\ Goes(r, "save")
      BY DEF Opening
  <2>3. Advances(r, Number("write", step[r]), Number("save", 1))
      BY <1>1, <2>1, <2>2, GoesAdvances DEF ServerInv
  <2> QED
      BY <2>3 DEF Number
<1>3. /\ job' = job /\ overlap' = overlap /\ left' = left
      /\ pos[r] = 2 /\ pos' = [pos EXCEPT ![r] = 3]
      /\ pos \in [Request -> 0..24] /\ pos' \in [Request -> 0..24]
      /\ stage[r] # "give" /\ stage'[r] # "give"
      /\ \A q \in Request : q # r => stage'[q] = stage[q] /\ step'[q] = step[q]
    BY <1>1, <1>2 DEF Advances
<1>4. StageShape' /\ OverlapShape'
    BY <1>2 DEF Advances
<1>5. Alone => \A q \in Request : q # r => pos[q] \notin 1..22
    BY <1>1, <1>3, OnlyOne DEF ServerInv
<1>s. aim' = aim /\ aim[r] = -1
  <2>1. stage[r] \notin Using /\ stage'[r] \notin Using
      BY <1>1 DEF Goes, Loops, Turns, Begins, Using, ServerInv, TypeOK
  <2>2. \A q \in Request : q # r => slot'[q] = slot[q]
      BY DEF ServerInv, TypeOK
  <2> QED
      BY <1>3, <2>1, <2>2, AimKept
<1>w. /\ domain[r] \in Domain \cup {NoDomain} /\ read[r] \subseteq Line
      /\ lines' = {l \in read[r] : LeftAlone(l, domain[r])} \cup Added(domain[r])
      /\ written' = "whole"
    BY DEF ServerInv, TypeOK
<1>6. TypeOK'
  <2>1. Added(domain[r]) \subseteq Line
      BY <1>w DEF Added, Export, Line
  <2>2. lines' \subseteq Line
      BY <1>w, <2>1
  <2> QED
      BY <1>w, <1>2, <1>3, <2>2, Orders DEF Advances, ServerInv, TypeOK
<1>t. \A m \in Managed : ~Saves(r, m)'
  <2>1. step'[r] = 1
      BY <1>1, Orders DEF Goes, ServerInv, TypeOK
  <2> QED
      BY <2>1, InTurn DEF Saves
<1>7. SavedShape'
    BY <1>1, <1>3, <1>t, InTurn DEF ServerInv, SavedShape, Saves
<1>8. SlotShape'
    BY <1>3, <1>s DEF ServerInv, SlotShape, Under
<1>9. UsedShape'
    BY <1>1, <1>3, InTurn DEF ServerInv, UsedShape
<1>10. FreshShape'
    BY <1>1, <1>3, FreshKept DEF ServerInv
<1>11. LinkShape'
    BY <1>1, <1>3, InTurn DEF ServerInv, LinkShape, Alone, Links, Steers
<1>12. LiveShape'
    BY <1>1, <1>3, InTurn DEF ServerInv, LiveShape, Creates
<1>13. HeardShape'
    BY <1>1, <1>3, <1>s, InTurn DEF ServerInv, HeardShape, Creates, Adds, Listens
<1>14. ListShape'
    BY <1>1, <1>3, <1>5, InTurn DEF ServerInv, ListShape, Alone, Lists
<1>15. SoloShape'
    BY <1>1, <1>3, <1>5, <1>t, InTurn DEF ServerInv, SoloShape, Alone, Creates, Saves
<1>16. OnceShape'
    BY <1>1, <1>3, <1>5, InTurn
       DEF ServerInv, OnceShape, Alone, Listens, Creates, Hears
<1>17. RootShape'
    BY <1>1, <1>3, InTurn DEF ServerInv, RootShape, Serial, Gives
<1>18. NewRootShape'
    BY <1>1, <1>3, <1>5, InTurn DEF ServerInv, NewRootShape, Serial, Lists
<1>19. GiveShape'
    BY <1>1, <1>3 DEF ServerInv, GiveShape, Serial
<1>20. DomainShape'
  <2>1. Alone => env = domain[r]
      BY <1>3 DEF ServerInv, DomainShape
  <2>2. env = domain[r] => Told'
    <3>1. \A l \in read[r] : LeftAlone(l, domain[r]) =>
              IF domain[r] = NoDomain THEN l.kind # "export" ELSE l.kind = "typeset"
        BY DEF LeftAlone
    <3>2. Added(domain[r]) = IF domain[r] = NoDomain THEN {} ELSE {Export(domain[r])}
        BY DEF Added
    <3> QED
        BY <1>w, <3>1, <3>2 DEF Told
  <2>3. Alone => \A q \in Request : pos'[q] # 2
      BY <1>3, <1>5
  <2> QED
      BY <1>3, <2>1, <2>2, <2>3 DEF DomainShape, Alone
<1>21. BornShape'
  <2>1. \A m \in Managed : Reborn(r, m)'
      BY <1>3, InTurn DEF Reborn
  <2> QED
      BY <2>1 DEF ServerInv, BornShape
<1> QED
    BY <1>4, <1>6, <1>7, <1>8, <1>9, <1>10, <1>11, <1>12, <1>13, <1>14, <1>15,
       <1>16, <1>17, <1>18, <1>19, <1>20, <1>21
       DEF ServerInv

(* ... or a part of it ...                                                     *)
LEMMA SetDomainCutStep ==
    ASSUME ServerInv, NEW r \in Request, SetDomainCut(r)
    PROVE  ServerInv'
<1> USE DEF SetDomainCut, RestKeeps, locals, pointers, instances
<1>1. job[r] = "domain" /\ stage[r] = "write" /\ At(r, "write")
    BY DEF At, ServerInv, TypeOK, StageShape, Opening
<1>2. Advances(r, 2, 3)
  <2>1. "write" \in Stage \ {"done"} /\ "save" \in Stage \ {"pick", "give"}
      BY DEF Stage
  <2>2. "save" \notin Opening /\ "write" \notin Opening /\ Goes(r, "save")
      BY DEF Opening
  <2>3. Advances(r, Number("write", step[r]), Number("save", 1))
      BY <1>1, <2>1, <2>2, GoesAdvances DEF ServerInv
  <2> QED
      BY <2>3 DEF Number
<1>3. /\ job' = job /\ overlap' = overlap /\ left' = left
      /\ pos[r] = 2 /\ pos' = [pos EXCEPT ![r] = 3]
      /\ pos \in [Request -> 0..24] /\ pos' \in [Request -> 0..24]
      /\ stage[r] # "give" /\ stage'[r] # "give"
      /\ \A q \in Request : q # r => stage'[q] = stage[q] /\ step'[q] = step[q]
    BY <1>1, <1>2 DEF Advances
<1>4. StageShape' /\ OverlapShape'
    BY <1>2 DEF Advances
<1>5. Alone => \A q \in Request : q # r => pos[q] \notin 1..22
    BY <1>1, <1>3, OnlyOne DEF ServerInv
<1>s. aim' = aim /\ aim[r] = -1
  <2>1. stage[r] \notin Using /\ stage'[r] \notin Using
      BY <1>1 DEF Goes, Loops, Turns, Begins, Using, ServerInv, TypeOK
  <2>2. \A q \in Request : q # r => slot'[q] = slot[q]
      BY DEF ServerInv, TypeOK
  <2> QED
      BY <1>3, <2>1, <2>2, AimKept
<1>w. PICK some \in SUBSET Rewritten(r) : lines' \in Cuts(some)
    OBVIOUS
<1>v. written' = "cut"
    OBVIOUS
<1>6. TypeOK'
  <2>1. domain[r] \in Domain \cup {NoDomain} /\ read[r] \subseteq Line
      BY DEF ServerInv, TypeOK
  <2>2. Rewritten(r) \subseteq Line
      BY <2>1 DEF Rewritten, Added, Export, Line
  <2>3. \A l \in Line, v \in Domain \cup {NoDomain} : [l EXCEPT !.value = v] \in Line
      BY DEF Line
  <2>4. lines' \subseteq Line
      BY <1>w, <2>2, <2>3 DEF Cuts
  <2> QED
      BY <1>2, <1>3, <1>v, <2>4, Orders DEF Advances, ServerInv, TypeOK
<1>t. \A m \in Managed : ~Saves(r, m)'
  <2>1. step'[r] = 1
      BY <1>1, Orders DEF Goes, ServerInv, TypeOK
  <2> QED
      BY <2>1, InTurn DEF Saves
<1>7. SavedShape'
    BY <1>1, <1>3, <1>t, InTurn DEF ServerInv, SavedShape, Saves
<1>8. SlotShape'
    BY <1>3, <1>s DEF ServerInv, SlotShape, Under
<1>9. UsedShape'
    BY <1>1, <1>3, InTurn DEF ServerInv, UsedShape
<1>10. FreshShape'
    BY <1>1, <1>3, FreshKept DEF ServerInv
<1>11. LinkShape'
    BY <1>1, <1>3, InTurn DEF ServerInv, LinkShape, Alone, Links, Steers
<1>12. LiveShape'
    BY <1>1, <1>3, InTurn DEF ServerInv, LiveShape, Creates
<1>13. HeardShape'
    BY <1>1, <1>3, <1>s, InTurn DEF ServerInv, HeardShape, Creates, Adds, Listens
<1>14. ListShape'
    BY <1>1, <1>3, <1>5, InTurn DEF ServerInv, ListShape, Alone, Lists
<1>15. SoloShape'
    BY <1>1, <1>3, <1>5, <1>t, InTurn DEF ServerInv, SoloShape, Alone, Creates, Saves
<1>16. OnceShape'
    BY <1>1, <1>3, <1>5, InTurn
       DEF ServerInv, OnceShape, Alone, Listens, Creates, Hears
<1>17. RootShape'
    BY <1>1, <1>3, InTurn DEF ServerInv, RootShape, Serial, Gives
<1>18. NewRootShape'
    BY <1>1, <1>3, <1>5, InTurn DEF ServerInv, NewRootShape, Serial, Lists
<1>19. GiveShape'
    BY <1>1, <1>3 DEF ServerInv, GiveShape, Serial
<1>20. DomainShape'
  <2>1. Alone => \A q \in Request : pos'[q] # 2
      BY <1>3, <1>5
  <2> QED
      BY <1>3, <1>v, <2>1 DEF DomainShape, Alone
<1>21. BornShape'
  <2>1. \A m \in Managed : Reborn(r, m)'
      BY <1>3, InTurn DEF Reborn
  <2> QED
      BY <2>1 DEF ServerInv, BornShape
<1> QED
    BY <1>4, <1>6, <1>7, <1>8, <1>9, <1>10, <1>11, <1>12, <1>13, <1>14, <1>15,
       <1>16, <1>17, <1>18, <1>19, <1>20, <1>21
       DEF ServerInv

(* ... or cannot.                                                              *)
LEMMA SetDomainFailsStep ==
    ASSUME ServerInv, NEW r \in Request, SetDomainFails(r)
    PROVE  ServerInv'
<1> USE DEF SetDomainFails, RestKeeps, locals, pointers, instances
<1>1. job[r] = "domain" /\ stage[r] = "write" /\ At(r, "write")
    BY DEF At, ServerInv, TypeOK, StageShape, Opening
<1>2. Advances(r, 2, 22)
  <2>1. "write" \in Stage \ {"done"} /\ "answer" \in Stage \ {"pick", "give"}
      BY DEF Stage
  <2>2. "answer" \notin Opening /\ "write" \notin Opening /\ Goes(r, "answer")
      BY DEF Opening
  <2>3. Advances(r, Number("write", step[r]), Number("answer", 1))
      BY <1>1, <2>1, <2>2, GoesAdvances DEF ServerInv
  <2> QED
      BY <2>3 DEF Number
<1>3. /\ job' = job /\ overlap' = overlap /\ left' = left
      /\ pos[r] = 2 /\ pos' = [pos EXCEPT ![r] = 22]
      /\ pos \in [Request -> 0..24] /\ pos' \in [Request -> 0..24]
      /\ stage[r] # "give" /\ stage'[r] # "give"
      /\ \A q \in Request : q # r => stage'[q] = stage[q] /\ step'[q] = step[q]
    BY <1>1, <1>2 DEF Advances
<1>4. StageShape' /\ OverlapShape'
    BY <1>2 DEF Advances
<1>5. Alone => \A q \in Request : q # r => pos[q] \notin 1..22
    BY <1>1, <1>3, OnlyOne DEF ServerInv
<1>s. aim' = aim /\ aim[r] = -1
  <2>1. stage[r] \notin Using /\ stage'[r] \notin Using
      BY <1>1 DEF Goes, Loops, Turns, Begins, Using, ServerInv, TypeOK
  <2>2. \A q \in Request : q # r => slot'[q] = slot[q]
      BY DEF ServerInv, TypeOK
  <2> QED
      BY <1>3, <2>1, <2>2, AimKept
<1>6. TypeOK'
    BY <1>1, <1>3, <1>2, Orders DEF Advances, ServerInv, TypeOK
<1>7. SavedShape'
    BY <1>1, <1>3, InTurn DEF ServerInv, SavedShape, Saves
<1>8. SlotShape'
    BY <1>3, <1>s DEF ServerInv, SlotShape, Under
<1>9. UsedShape'
    BY <1>1, <1>3, InTurn DEF ServerInv, UsedShape
<1>10. FreshShape'
    BY <1>1, <1>3, FreshKept DEF ServerInv
<1>11. LinkShape'
    BY <1>1, <1>3, InTurn DEF ServerInv, LinkShape, Alone, Links, Steers
<1>12. LiveShape'
    BY <1>1, <1>3, InTurn DEF ServerInv, LiveShape, Creates
<1>13. HeardShape'
    BY <1>1, <1>3, <1>s, InTurn DEF ServerInv, HeardShape, Creates, Adds, Listens
<1>14. ListShape'
    BY <1>1, <1>3, <1>5, InTurn DEF ServerInv, ListShape, Alone, Lists
<1>15. SoloShape'
    BY <1>1, <1>3, <1>5, InTurn DEF ServerInv, SoloShape, Alone, Creates, Saves
<1>16. OnceShape'
    BY <1>1, <1>3, <1>5, InTurn
       DEF ServerInv, OnceShape, Alone, Listens, Creates, Hears
<1>17. RootShape'
    BY <1>1, <1>3, InTurn DEF ServerInv, RootShape, Serial, Gives
<1>18. NewRootShape'
    BY <1>1, <1>3, <1>5, InTurn DEF ServerInv, NewRootShape, Serial, Lists
<1>19. GiveShape'
    BY <1>1, <1>3 DEF ServerInv, GiveShape, Serial
<1>20. DomainShape'
    BY <1>1, <1>3, <1>5, InTurn DEF ServerInv, TypeOK, DomainShape, Told, Alone
<1>21. BornShape'
    BY <1>1, <1>3, <1>5, InTurn DEF ServerInv, TypeOK, BornShape, Alone, Reborn
<1> QED
    BY <1>4, <1>6, <1>7, <1>8, <1>9, <1>10, <1>11, <1>12, <1>13, <1>14, <1>15,
       <1>16, <1>17, <1>18, <1>19, <1>20, <1>21
       DEF ServerInv

(* A step of a restart that is repeated is one of its three managers.          *)
LEMMA RestartPlace ==
    ASSUME ServerInv, NEW r \in Request, NEW s \in Walked \ Opening, At(r, s)
    PROVE  /\ step[r] \in 1..3 /\ job[r] = "domain" /\ stage[r] = s
           /\ Under(r) \in Managed /\ Turn(Under(r)) = step[r]
<1>1. /\ stage[r] = s /\ s \notin Opening /\ s \notin {"answer", "done"} /\ step[r] \in 1..5
      /\ job[r] \in {"open", "domain"}
    BY Orders DEF At, ServerInv, TypeOK, Walked, Opening
<1>2. step[r] <= 3 /\ job[r] # "open"
    BY <1>1 DEF ServerInv, StageShape
<1>3. step[r] \in 1..3
    BY <1>1, <1>2
<1> QED
    BY <1>1, <1>2, <1>3, Orders DEF Under

(* The restart saves the managers there are ...                                *)
LEMMA RestartSavesStep ==
    ASSUME ServerInv, NEW r \in Request, RestartSaves(r)
    PROVE  ServerInv'
<1> USE DEF RestartSaves, RestKeeps, RestartKeeps, locals, pointers, instances
<1>1. /\ step[r] \in 1..3 /\ job[r] = "domain" /\ stage[r] = "save" /\ At(r, "save")
      /\ Under(r) \in Managed /\ Turn(Under(r)) = step[r]
    BY RestartPlace DEF Walked, Opening
<1>2. Advances(r, 3, IF step[r] = 3 THEN 4 ELSE 3)
  <2>1. Loops(r, Managers, "save", "shutdown")
      OBVIOUS
  <2>2. "save" \in Walked \ Opening /\ "shutdown" \in Stage \ Opening
      BY DEF Walked, Opening, Stage
  <2>3. Advances(r, Number("save", step[r]),
                 IF step[r] = 3 THEN Number("shutdown", 1) ELSE Number("save", step[r] + 1))
      BY <1>1, <2>1, <2>2, LoopsAdvances DEF ServerInv
  <2>4. /\ Number("save", step[r]) = 3 /\ Number("shutdown", 1) = 4
        /\ Number("save", step[r] + 1) = 3
      BY DEF Number
  <2>5. (IF step[r] = 3 THEN Number("shutdown", 1) ELSE Number("save", step[r] + 1))
            = (IF step[r] = 3 THEN 4 ELSE 3)
      BY <1>1, <2>4
  <2> QED
      BY <2>3, <2>4, <2>5
<1>3. /\ job' = job /\ overlap' = overlap /\ left' = left
      /\ pos[r] = 3 /\ pos' = [pos EXCEPT ![r] = IF step[r] = 3 THEN 4 ELSE 3]
      /\ pos \in [Request -> 0..24] /\ pos' \in [Request -> 0..24]
      /\ stage[r] # "give" /\ stage'[r] # "give"
      /\ \A q \in Request : q # r => stage'[q] = stage[q] /\ step'[q] = step[q]
    BY <1>1, <1>2 DEF Advances
<1>t. pos'[r] = 3 => step'[r] = step[r] + 1
    BY <1>1, <1>3, Orders DEF Loops, Goes, ServerInv, TypeOK
<1>4. StageShape' /\ OverlapShape'
    BY <1>2 DEF Advances
<1>5. Alone => \A q \in Request : q # r => pos[q] \notin 1..22
    BY <1>1, <1>3, OnlyOne DEF ServerInv
<1>0. /\ old' \in [Request -> [Managed -> Instance \cup {-1}]]
      /\ \A q \in Request, m \in Managed :
            old'[q][m] = IF q = r /\ m = Under(r) THEN current[m] ELSE old[q][m]
      /\ current \in [Managed -> Instance]
  <2>1. /\ current \in [Managed -> Instance]
        /\ old \in [Request -> [Managed -> Instance \cup {-1}]]
      BY DEF ServerInv, TypeOK
  <2> QED
      BY <1>1, <2>1, Updated
<1>s. aim' = aim /\ aim[r] = -1
  <2>1. stage[r] \notin Using /\ stage'[r] \notin Using
      BY <1>1 DEF Goes, Loops, Turns, Begins, Using, ServerInv, TypeOK
  <2>2. \A q \in Request : q # r => slot'[q] = slot[q]
      BY DEF ServerInv, TypeOK
  <2> QED
      BY <1>3, <2>1, <2>2, AimKept
<1>6. TypeOK'
    BY <1>1, <1>3, <1>0, <1>2, Orders DEF Advances, ServerInv, TypeOK
<1>p. \A m \in Managed : /\ pos'[r] = 4 \/ Saves(r, m)' => Saves(r, m) \/ m = Under(r)
                         /\ ~Saves(r, Under(r))
    BY <1>1, <1>3, <1>t, InTurn DEF Saves
<1>q. \A m \in Managed, q \in Request : q # r => (Saves(q, m)' <=> Saves(q, m))
    BY <1>3 DEF Saves
<1>7. SavedShape'
  <2>1. \A m \in Managed : pos'[r] = 4 \/ Saves(r, m)' => old'[r][m] \in Instance
      BY <1>0, <1>p DEF ServerInv, SavedShape
  <2>2. pos'[r] \in {3, 4} /\ \A q \in Request : q # r => pos'[q] = pos[q]
      BY <1>3
  <2> QED
      BY <1>0, <1>q, <2>1, <2>2 DEF ServerInv, SavedShape
<1>8. SlotShape'
    BY <1>3, <1>s DEF ServerInv, SlotShape, Under
<1>9. UsedShape'
    BY <1>0 DEF ServerInv, UsedShape
<1>10. FreshShape'
    BY <1>1, <1>3, <1>0, FreshKept DEF ServerInv
<1>11. LinkShape'
    BY <1>1, <1>3, <1>0, InTurn DEF ServerInv, LinkShape, Alone, Links, Steers
<1>12. LiveShape'
  <2>1. \A m \in Managed, q \in Request :
            Creates(q, m) => q # r /\ Creates(q, m)' /\ old'[q][m] = old[q][m]
      BY <1>0, <1>3, InTurn DEF Creates
  <2> QED
      BY <2>1 DEF ServerInv, LiveShape
<1>13. HeardShape'
  <2>1. \A m \in Managed, q \in Request :
            /\ Adds(q, m) => Adds(q, m)'
            /\ Creates(q, m) => q # r /\ Creates(q, m)' /\ old'[q][m] = old[q][m]
      BY <1>0, <1>3, <1>s, InTurn DEF Adds, Listens, Creates
  <2> QED
      BY <2>1 DEF ServerInv, HeardShape
<1>14. ListShape'
  <2>1. Alone => \A m \in Managed : aware[m] = current[m]
      BY <1>3, <1>5, InTurn DEF ServerInv, ListShape, Lists
  <2> QED
      BY <1>3, <2>1 DEF ListShape, Alone
<1>15. SoloShape'
  <2>1. Alone => \A m \in Managed : aware[m] = current[m]
      BY <1>3, <1>5, InTurn DEF ServerInv, ListShape, Lists
  <2>2. Alone => \A m \in Managed, q \in Request : Creates(q, m)' => q = r /\ pos'[r] = 4
      BY <1>3, <1>5, InTurn DEF Creates
  <2>3. Alone => \A m \in Managed, q \in Request : Saves(q, m)' => q = r
      BY <1>3, <1>5 DEF Saves
  <2>4. Alone => \A m \in Managed : Saves(r, m) => old[r][m] = current[m]
      BY DEF ServerInv, SoloShape
  <2> QED
      BY <1>0, <1>3, <1>p, <2>1, <2>2, <2>3, <2>4 DEF SoloShape, Alone
<1>16. OnceShape'
    BY <1>1, <1>3, <1>0, <1>5, InTurn
       DEF ServerInv, OnceShape, Alone, Listens, Creates, Hears
<1>17. RootShape'
    BY <1>1, <1>3, <1>0, InTurn DEF ServerInv, RootShape, Serial, Gives
<1>18. NewRootShape'
    BY <1>1, <1>3, <1>0, <1>5, InTurn DEF ServerInv, NewRootShape, Serial, Lists
<1>19. GiveShape'
    BY <1>1, <1>3, <1>0 DEF ServerInv, GiveShape, Serial
<1>20. DomainShape'
    BY <1>1, <1>3, <1>0, <1>5, InTurn DEF ServerInv, DomainShape, Told, Alone
<1>21. BornShape'
    BY <1>1, <1>3, <1>0, <1>5, InTurn DEF ServerInv, BornShape, Alone, Reborn
<1> QED
    BY <1>4, <1>6, <1>7, <1>8, <1>9, <1>10, <1>11, <1>12, <1>13, <1>14, <1>15,
       <1>16, <1>17, <1>18, <1>19, <1>20, <1>21
       DEF ServerInv

(* Shutting down begins, or there is nothing to shut down.                     *)
LEMMA RestartShutsStep ==
    ASSUME ServerInv, NEW r \in Request, RestartShuts(r)
    PROVE  ServerInv'
<1> USE DEF RestartShuts, RestKeeps, RestartKeeps, locals, pointers, instances
<1>1. /\ step[r] \in 1..3 /\ job[r] = "domain" /\ stage[r] = "shutdown" /\ At(r, "shutdown")
      /\ Under(r) \in Managed /\ Turn(Under(r)) = step[r]
    BY RestartPlace DEF Walked, Opening
<1>2. PICK l \in {4, 5} : Advances(r, 4, l)
  <2>1. CASE life[Under(r)][old[r][Under(r)]] = "up"
    <3>1. Turns(r, "shutting")
        BY <2>1
    <3>2. /\ "shutdown" \in Walked /\ "shutting" \in Walked
          /\ "shutdown" \notin Opening /\ "shutting" \notin Opening
        BY DEF Walked, Opening
    <3>3. Advances(r, Number("shutdown", step[r]), Number("shutting", step[r]))
        BY <1>1, <3>1, <3>2, TurnsAdvances DEF ServerInv
    <3>4. Advances(r, 4, 4)
        BY <3>3 DEF Number
    <3> QED
        BY <3>4
  <2>2. CASE life[Under(r)][old[r][Under(r)]] # "up"
    <3>1. Loops(r, Managers, "shutdown", "unlisten")
        BY <2>2
    <3>2. "shutdown" \in Walked \ Opening /\ "unlisten" \in Stage \ Opening
        BY DEF Walked, Opening, Stage
    <3>3. Advances(r, Number("shutdown", step[r]),
                   IF step[r] = 3 THEN Number("unlisten", 1) ELSE Number("shutdown",
                   step[r] + 1))
        BY <1>1, <3>1, <3>2, LoopsAdvances DEF ServerInv
    <3>4. /\ Number("shutdown", step[r]) = 4 /\ Number("unlisten", 1) = 5
          /\ Number("shutdown", step[r] + 1) = 4
        BY DEF Number
    <3>5. Advances(r, 4, IF step[r] = 3 THEN 5 ELSE 4)
        BY <3>3, <3>4
    <3>6. (IF step[r] = 3 THEN 5 ELSE 4) \in {4, 5}
        OBVIOUS
    <3> QED
        BY <3>5, <3>6
  <2> QED
      BY <2>1, <2>2
<1>3. /\ job' = job /\ overlap' = overlap /\ left' = left
      /\ pos[r] = 4 /\ pos' = [pos EXCEPT ![r] = l]
      /\ pos \in [Request -> 0..24] /\ pos' \in [Request -> 0..24]
      /\ stage[r] # "give" /\ stage'[r] # "give"
      /\ \A q \in Request : q # r => stage'[q] = stage[q] /\ step'[q] = step[q]
    BY <1>1, <1>2 DEF Advances
<1>4. StageShape' /\ OverlapShape'
    BY <1>2 DEF Advances
<1>5. Alone => \A q \in Request : q # r => pos[q] \notin 1..22
    BY <1>1, <1>3, OnlyOne DEF ServerInv
<1>0. /\ life' \in [Component -> [Instance -> {"none", "up", "shutting", "shut"}]]
      /\ \A n \in Component, h \in Instance :
            \/ life'[n][h] = life[n][h]
            \/ n = Under(r) /\ h = old[r][n] /\ life[n][h] = "up" /\ life'[n][h] = "shutting"
  <2>1. /\ life \in [Component -> [Instance -> {"none", "up", "shutting", "shut"}]]
        /\ Under(r) \in Component
      BY <1>1, InTurn DEF ServerInv, TypeOK
  <2>2. old[r][Under(r)] \in Instance
      BY <1>1, <1>3 DEF ServerInv, SavedShape, Saves
  <2>3. CASE life[Under(r)][old[r][Under(r)]] = "up"
    <3>1. life' = [life EXCEPT ![Under(r)][old[r][Under(r)]] = "shutting"]
        BY <2>3
    <3> QED
        BY <2>1, <2>2, <2>3, <3>1, Updated
  <2>4. CASE life[Under(r)][old[r][Under(r)]] # "up"
      BY <2>1, <2>4
  <2> QED
      BY <2>3, <2>4
<1>s. aim' = aim /\ aim[r] = -1
  <2>1. stage[r] \notin Using /\ stage'[r] \notin Using
      BY <1>1 DEF Goes, Loops, Turns, Begins, Using, ServerInv, TypeOK
  <2>2. \A q \in Request : q # r => slot'[q] = slot[q]
      BY DEF ServerInv, TypeOK
  <2> QED
      BY <1>3, <2>1, <2>2, AimKept
<1>6. TypeOK'
    BY <1>1, <1>3, <1>0, <1>2, Orders DEF Advances, ServerInv, TypeOK
<1>7. SavedShape'
    BY <1>1, <1>3, <1>0, InTurn DEF ServerInv, SavedShape, Saves
<1>8. SlotShape'
  <2>1. \A m \in Managed, g \in Instance : life'[m][g] = "none" <=> life[m][g] = "none"
      BY <1>0, InTurn
  <2> QED
      BY <1>3, <1>s, <2>1 DEF ServerInv, SlotShape, Under
<1>9. UsedShape'
  <2>1. \A m \in Component, g \in Instance : life'[m][g] = "none" <=> life[m][g] = "none"
      BY <1>0
  <2>2. /\ current \in [Managed -> Instance] /\ aware \in [Component -> Instance]
        /\ \A q \in Request, m \in Managed : old[q][m] \in Instance \cup {-1}
      BY DEF ServerInv, TypeOK
  <2> QED
      BY <2>1, <2>2, InTurn DEF ServerInv, UsedShape
<1>10. FreshShape'
  <2>1. \A m \in Managed, g \in Instance : life'[m][g] = "none" <=> life[m][g] = "none"
      BY <1>0, InTurn
  <2>2. \A q \in Request : pos[q] <= pos'[q]
      BY <1>3
  <2> QED
      BY <1>3, <2>1, <2>2, FreshKept DEF ServerInv
<1>11. LinkShape'
    BY <1>1, <1>3, <1>0, InTurn DEF ServerInv, LinkShape, Alone, Links, Steers
<1>12. LiveShape'
  <2>1. \A m \in Managed, q \in Request : Creates(q, m) => Creates(q, m)'
      BY <1>3, InTurn DEF Creates
  <2>2. \A m \in Managed : m = Under(r) => Creates(r, m)'
      BY <1>1, <1>3 DEF Creates
  <2>3. \A m \in Managed : m \in Component /\ current[m] \in Instance
      BY InTurn DEF ServerInv, TypeOK
  <2>4. ASSUME NEW m \in Managed
        PROVE  \/ life'[m][current[m]] = "up"
               \/ \E q \in Request : Creates(q, m)' /\ old[q][m] = current[m]
    <3>1. CASE m = Under(r) /\ current[m] = old[r][m]
        BY <2>2, <3>1
    <3>2. CASE ~(m = Under(r) /\ current[m] = old[r][m])
      <4>1. life'[m][current[m]] = life[m][current[m]]
          BY <1>0, <2>3, <3>2
      <4> QED
          BY <4>1, <2>1 DEF ServerInv, LiveShape
    <3> QED
        BY <3>1, <3>2
  <2> QED
      BY <2>4 DEF LiveShape
<1>13. HeardShape'
  <2>1. \A m \in Managed, q \in Request :
            /\ Creates(q, m) => Creates(q, m)'
            /\ Adds(q, m) => Adds(q, m)'
      BY <1>3, <1>s, InTurn DEF Creates, Adds, Listens
  <2> QED
      BY <2>1 DEF ServerInv, HeardShape
<1>14. ListShape'
    BY <1>1, <1>3, <1>0, <1>5, InTurn DEF ServerInv, ListShape, Alone, Lists
<1>15. SoloShape'
    BY <1>1, <1>3, <1>0, <1>5, InTurn DEF ServerInv, SoloShape, Alone, Creates, Saves
<1>16. OnceShape'
    BY <1>1, <1>3, <1>0, <1>5, InTurn
       DEF ServerInv, OnceShape, Alone, Listens, Creates, Hears
<1>17. RootShape'
    BY <1>1, <1>3, <1>0, InTurn DEF ServerInv, RootShape, Serial, Gives
<1>18. NewRootShape'
    BY <1>1, <1>3, <1>0, <1>5, InTurn DEF ServerInv, NewRootShape, Serial, Lists
<1>19. GiveShape'
    BY <1>1, <1>3, <1>0 DEF ServerInv, GiveShape, Serial
<1>20. DomainShape'
    BY <1>1, <1>3, <1>0, <1>5, InTurn DEF ServerInv, DomainShape, Told, Alone
<1>21. BornShape'
    BY <1>1, <1>3, <1>0, <1>5, InTurn DEF ServerInv, BornShape, Alone, Reborn
<1> QED
    BY <1>4, <1>6, <1>7, <1>8, <1>9, <1>10, <1>11, <1>12, <1>13, <1>14, <1>15,
       <1>16, <1>17, <1>18, <1>19, <1>20, <1>21
       DEF ServerInv

(* ... shuts each of them down ...                                             *)
LEMMA RestartHasShutStep ==
    ASSUME ServerInv, NEW r \in Request, RestartHasShut(r)
    PROVE  ServerInv'
<1> USE DEF RestartHasShut, RestKeeps, RestartKeeps, locals, pointers, instances
<1>1. /\ step[r] \in 1..3 /\ job[r] = "domain" /\ stage[r] = "shutting" /\ At(r, "shutting")
      /\ Under(r) \in Managed /\ Turn(Under(r)) = step[r]
    BY RestartPlace DEF Walked, Opening
<1>2. Advances(r, 4, IF step[r] = 3 THEN 5 ELSE 4)
  <2>1. Loops(r, Managers, "shutdown", "unlisten")
      OBVIOUS
  <2>2. /\ "shutting" \in Walked \ Opening /\ "shutdown" \in Walked \ Opening
        /\ "unlisten" \in Stage \ Opening
      BY DEF Walked, Opening, Stage
  <2>3. Advances(r, Number("shutting", step[r]),
                 IF step[r] = 3 THEN Number("unlisten", 1) ELSE Number("shutdown", step[r] + 1))
      BY <1>1, <2>1, <2>2, LoopsAdvances DEF ServerInv
  <2>4. /\ Number("shutting", step[r]) = 4 /\ Number("unlisten", 1) = 4 + 1
        /\ Number("shutdown", step[r] + 1) = 4
      BY DEF Number
  <2>5. (IF step[r] = 3 THEN Number("unlisten", 1) ELSE Number("shutdown",
        step[r] + 1)) = (IF step[r] = 3 THEN 5 ELSE 4)
      BY <1>1, <2>4
  <2> QED
      BY <2>3, <2>4, <2>5
<1>3. /\ job' = job /\ overlap' = overlap /\ left' = left
      /\ pos[r] = 4 /\ pos' = [pos EXCEPT ![r] = IF step[r] = 3 THEN 5 ELSE 4]
      /\ pos \in [Request -> 0..24] /\ pos' \in [Request -> 0..24]
      /\ stage[r] # "give" /\ stage'[r] # "give"
      /\ \A q \in Request : q # r => stage'[q] = stage[q] /\ step'[q] = step[q]
    BY <1>1, <1>2 DEF Advances
<1>4. StageShape' /\ OverlapShape'
    BY <1>2 DEF Advances
<1>5. Alone => \A q \in Request : q # r => pos[q] \notin 1..22
    BY <1>1, <1>3, OnlyOne DEF ServerInv
<1>0. /\ old[r][Under(r)] \in Instance /\ life[Under(r)][old[r][Under(r)]] # "none"
      /\ life' \in [Component -> [Instance -> {"none", "up", "shutting", "shut"}]]
      /\ \A n \in Component, h \in Instance :
            life'[n][h] = IF n = Under(r) /\ h = old[r][Under(r)] THEN "shut" ELSE life[n][h]
  <2>1. life \in [Component -> [Instance -> {"none", "up", "shutting", "shut"}]]
        /\ Under(r) \in Component
      BY <1>1, InTurn DEF ServerInv, TypeOK
  <2>2. old[r][Under(r)] \in Instance
      BY <1>1, <1>3 DEF ServerInv, SavedShape, Saves
  <2>3. old[r][Under(r)] # -1
      BY <2>2 DEF Instance
  <2>4. life[Under(r)][old[r][Under(r)]] # "none"
      BY <1>1, <2>3 DEF ServerInv, UsedShape
  <2>5. "shut" \in {"none", "up", "shutting", "shut"}
      BY <2>1, <2>2
  <2> QED
      BY <2>1, <2>2, <2>4, <2>5, Updated
<1>s. aim' = aim /\ aim[r] = -1
  <2>1. stage[r] \notin Using /\ stage'[r] \notin Using
      BY <1>1 DEF Goes, Loops, Turns, Begins, Using, ServerInv, TypeOK
  <2>2. \A q \in Request : q # r => slot'[q] = slot[q]
      BY DEF ServerInv, TypeOK
  <2> QED
      BY <1>3, <2>1, <2>2, AimKept
<1>6. TypeOK'
    BY <1>1, <1>3, <1>0, <1>2, Orders DEF Advances, ServerInv, TypeOK
<1>7. SavedShape'
    BY <1>1, <1>3, <1>0, InTurn DEF ServerInv, SavedShape, Saves
<1>8. SlotShape'
  <2>1. \A m \in Managed, g \in Instance : life'[m][g] = "none" <=> life[m][g] = "none"
      BY <1>0, InTurn
  <2> QED
      BY <1>3, <1>s, <2>1 DEF ServerInv, SlotShape, Under
<1>9. UsedShape'
  <2>1. \A m \in Component, g \in Instance : life'[m][g] = "none" <=> life[m][g] = "none"
      BY <1>0
  <2>2. /\ current \in [Managed -> Instance] /\ aware \in [Component -> Instance]
        /\ \A q \in Request, m \in Managed : old[q][m] \in Instance \cup {-1}
      BY DEF ServerInv, TypeOK
  <2> QED
      BY <2>1, <2>2, InTurn DEF ServerInv, UsedShape
<1>10. FreshShape'
  <2>1. \A m \in Managed, g \in Instance : life'[m][g] = "none" <=> life[m][g] = "none"
      BY <1>0, InTurn
  <2>2. \A q \in Request : pos[q] <= pos'[q]
      BY <1>3
  <2> QED
      BY <1>3, <2>1, <2>2, FreshKept DEF ServerInv
<1>11. LinkShape'
    BY <1>1, <1>3, <1>0, InTurn DEF ServerInv, LinkShape, Alone, Links, Steers
<1>12. LiveShape'
  <2>1. \A m \in Managed, q \in Request : Creates(q, m) => Creates(q, m)'
      BY <1>3, InTurn DEF Creates
  <2>2. \A m \in Managed : m = Under(r) => Creates(r, m)'
      BY <1>1, <1>3 DEF Creates
  <2>3. \A m \in Managed : m \in Component /\ current[m] \in Instance
      BY InTurn DEF ServerInv, TypeOK
  <2>4. ASSUME NEW m \in Managed
        PROVE  \/ life'[m][current[m]] = "up"
               \/ \E q \in Request : Creates(q, m)' /\ old[q][m] = current[m]
    <3>1. CASE m = Under(r) /\ current[m] = old[r][m]
        BY <2>2, <3>1
    <3>2. CASE ~(m = Under(r) /\ current[m] = old[r][m])
      <4>1. life'[m][current[m]] = life[m][current[m]]
          BY <1>0, <2>3, <3>2
      <4> QED
          BY <4>1, <2>1 DEF ServerInv, LiveShape
    <3> QED
        BY <3>1, <3>2
  <2> QED
      BY <2>4 DEF LiveShape
<1>13. HeardShape'
  <2>1. \A m \in Managed, q \in Request :
            /\ Creates(q, m) => Creates(q, m)'
            /\ Adds(q, m) => Adds(q, m)'
      BY <1>3, <1>s, InTurn DEF Creates, Adds, Listens
  <2> QED
      BY <2>1 DEF ServerInv, HeardShape
<1>14. ListShape'
    BY <1>1, <1>3, <1>0, <1>5, InTurn DEF ServerInv, ListShape, Alone, Lists
<1>15. SoloShape'
    BY <1>1, <1>3, <1>0, <1>5, InTurn DEF ServerInv, SoloShape, Alone, Creates, Saves
<1>16. OnceShape'
    BY <1>1, <1>3, <1>0, <1>5, InTurn
       DEF ServerInv, OnceShape, Alone, Listens, Creates, Hears
<1>17. RootShape'
    BY <1>1, <1>3, <1>0, InTurn DEF ServerInv, RootShape, Serial, Gives
<1>18. NewRootShape'
    BY <1>1, <1>3, <1>0, <1>5, InTurn DEF ServerInv, NewRootShape, Serial, Lists
<1>19. GiveShape'
    BY <1>1, <1>3, <1>0 DEF ServerInv, GiveShape, Serial
<1>20. DomainShape'
    BY <1>1, <1>3, <1>0, <1>5, InTurn DEF ServerInv, DomainShape, Told, Alone
<1>21. BornShape'
    BY <1>1, <1>3, <1>0, <1>5, InTurn DEF ServerInv, BornShape, Alone, Reborn
<1> QED
    BY <1>4, <1>6, <1>7, <1>8, <1>9, <1>10, <1>11, <1>12, <1>13, <1>14, <1>15,
       <1>16, <1>17, <1>18, <1>19, <1>20, <1>21
       DEF ServerInv

(* ... takes the channels off them ...                                         *)
LEMMA RestartUnlistensStep ==
    ASSUME ServerInv, NEW r \in Request, RestartUnlistens(r)
    PROVE  ServerInv'
<1> USE DEF RestartUnlistens, Unlistened, RestKeeps, RestartKeeps, locals, pointers,
            instances
<1>1. /\ step[r] \in 1..3 /\ job[r] = "domain" /\ stage[r] = "unlisten" /\ At(r, "unlisten")
      /\ Under(r) \in Managed /\ Turn(Under(r)) = step[r]
    BY RestartPlace DEF Walked, Opening
<1>2. Advances(r, 4 + step[r], 5 + step[r])
  <2>1. Loops(r, Managers, "unlisten", "root")
      OBVIOUS
  <2>2. /\ "unlisten" \in Walked \ Opening /\ "unlisten" \in Walked \ Opening
        /\ "root" \in Stage \ Opening
      BY DEF Walked, Opening, Stage
  <2>3. Advances(r, Number("unlisten", step[r]),
                 IF step[r] = 3 THEN Number("root", 1) ELSE Number("unlisten", step[r] + 1))
      BY <1>1, <2>1, <2>2, LoopsAdvances DEF ServerInv
  <2>4. /\ Number("unlisten", step[r]) = 4 + step[r] /\ Number("root", 1) = 8
        /\ Number("unlisten", step[r] + 1) = 4 + (step[r] + 1)
      BY DEF Number
  <2>5. (IF step[r] = 3 THEN Number("root", 1) ELSE Number("unlisten",
        step[r] + 1)) = (5 + step[r])
      BY <1>1, <2>4
  <2> QED
      BY <2>3, <2>4, <2>5
<1>3. /\ job' = job /\ overlap' = overlap /\ left' = left
      /\ pos[r] = 4 + step[r] /\ pos' = [pos EXCEPT ![r] = 5 + step[r]]
      /\ pos \in [Request -> 0..24] /\ pos' \in [Request -> 0..24]
      /\ stage[r] # "give" /\ stage'[r] # "give"
      /\ \A q \in Request : q # r => stage'[q] = stage[q] /\ step'[q] = step[q]
    BY <1>1, <1>2 DEF Advances
<1>4. StageShape' /\ OverlapShape'
    BY <1>2 DEF Advances
<1>5. Alone => \A q \in Request : q # r => pos[q] \notin 1..22
    BY <1>1, <1>3, OnlyOne DEF ServerInv
<1>0. /\ old[r][Under(r)] \in Instance /\ life[Under(r)][old[r][Under(r)]] # "none"
      /\ listens' \in [Component -> [Instance -> Nat]]
      /\ \A n \in Component, h \in Instance :
            listens'[n][h] = IF n = Under(r) /\ h = old[r][Under(r)] THEN Unlistened(Under(r),
            listens[Under(r)][old[r][Under(r)]]) ELSE listens[n][h]
  <2>1. listens \in [Component -> [Instance -> Nat]] /\ Under(r) \in Component
      BY <1>1, InTurn DEF ServerInv, TypeOK
  <2>2. old[r][Under(r)] \in Instance
      BY <1>1, <1>3 DEF ServerInv, SavedShape, Saves
  <2>3. old[r][Under(r)] # -1
      BY <2>2 DEF Instance
  <2>4. life[Under(r)][old[r][Under(r)]] # "none"
      BY <1>1, <2>3 DEF ServerInv, UsedShape
  <2>5. Unlistened(Under(r), listens[Under(r)][old[r][Under(r)]]) \in Nat
      BY <2>1, <2>2 DEF Unlistened
  <2> QED
      BY <2>1, <2>2, <2>4, <2>5, Updated
<1>s. aim' = aim /\ aim[r] = -1
  <2>1. stage[r] \notin Using /\ stage'[r] \notin Using
      BY <1>1 DEF Goes, Loops, Turns, Begins, Using, ServerInv, TypeOK
  <2>2. \A q \in Request : q # r => slot'[q] = slot[q]
      BY DEF ServerInv, TypeOK
  <2> QED
      BY <1>3, <2>1, <2>2, AimKept
<1>6. TypeOK'
    BY <1>1, <1>3, <1>0, <1>2, Orders DEF Advances, ServerInv, TypeOK
<1>7. SavedShape'
    BY <1>1, <1>3, <1>0, InTurn DEF ServerInv, SavedShape, Saves
<1>8. SlotShape'
    BY <1>3, <1>s DEF ServerInv, SlotShape, Under
<1>9. UsedShape'
  <2>1. \A m \in Managed, g \in Instance :
            life[m][g] = "none" => listens'[m][g] = listens[m][g]
      BY <1>0, InTurn
  <2> QED
      BY <2>1 DEF ServerInv, UsedShape
<1>10. FreshShape'
    BY <1>1, <1>3, <1>0, FreshKept DEF ServerInv
<1>11. LinkShape'
    BY <1>1, <1>3, <1>0, InTurn DEF ServerInv, LinkShape, Alone, Links, Steers
<1>12. LiveShape'
    BY <1>1, <1>3, <1>0, InTurn DEF ServerInv, LiveShape, Creates
<1>13. HeardShape'
  <2>1. \A m \in Managed, q \in Request :
            /\ Creates(q, m) => Creates(q, m)'
            /\ Adds(q, m) => Adds(q, m)'
      BY <1>1, <1>3, <1>s, InTurn DEF Creates, Adds, Listens
  <2>2. \A m \in Managed : m = Under(r) => Creates(r, m)'
      BY <1>1, <1>3 DEF Creates
  <2>3. \A m \in Managed : m \in Component /\ current[m] \in Instance
      BY InTurn DEF ServerInv, TypeOK
  <2>4. ASSUME NEW m \in Managed
        PROVE  \/ listens'[m][current[m]] >= 1
               \/ \E q \in Request : Adds(q, m)'
               \/ \E q \in Request : Creates(q, m)' /\ old[q][m] = current[m]
    <3>1. CASE m = Under(r) /\ current[m] = old[r][m]
        BY <2>2, <3>1
    <3>2. CASE ~(m = Under(r) /\ current[m] = old[r][m])
      <4>1. listens'[m][current[m]] = listens[m][current[m]]
          BY <1>0, <2>3, <3>2
      <4> QED
          BY <4>1, <2>1 DEF ServerInv, HeardShape
    <3> QED
        BY <3>1, <3>2
  <2> QED
      BY <2>4 DEF HeardShape
<1>14. ListShape'
    BY <1>1, <1>3, <1>0, <1>5, InTurn DEF ServerInv, ListShape, Alone, Lists
<1>15. SoloShape'
    BY <1>1, <1>3, <1>0, <1>5, InTurn DEF ServerInv, SoloShape, Alone, Creates, Saves
<1>16. OnceShape'
  <2> SUFFICES ASSUME Alone, NEW m \in Managed
               PROVE  IF \E q \in Request : Listens(q, m)' \/ (Creates(q, m)' /\ ~Hears(q, m)')
                      THEN listens'[m][current[m]] = 0 ELSE listens'[m][current[m]] = 1
      BY <1>3 DEF OnceShape, Alone
  <2>1. m \in Component /\ current[m] \in Instance
      BY InTurn DEF ServerInv, TypeOK
  <2>2. \A q \in Request : q # r => /\ ~Listens(q, m) /\ ~Listens(q, m)'
                                    /\ ~Creates(q, m) /\ ~Creates(q, m)'
      BY <1>3, <1>5, InTurn DEF Listens, Creates
  <2>3. IF Listens(r, m) \/ (Creates(r, m) /\ ~Hears(r, m))
        THEN listens[m][current[m]] = 0 ELSE listens[m][current[m]] = 1
      BY <2>2 DEF ServerInv, OnceShape
  <2>4. Creates(r, m) /\ ~Listens(r, m) /\ Creates(r, m)' /\ ~Listens(r, m)'
      BY <1>1, <1>3, InTurn DEF Creates, Listens
  <2>5. CASE m = Under(r)
    <3>1. Hears(r, m) /\ ~Hears(r, m)'
        BY <1>1, <1>3, <2>5 DEF Hears
    <3>2. current[m] = old[r][m]
        BY <2>4 DEF ServerInv, SoloShape
    <3>3. listens'[m][current[m]] = Unlistened(m, 1)
        BY <1>0, <2>1, <2>3, <2>4, <2>5, <3>1, <3>2
    <3> QED
        BY <2>4, <3>1, <3>3
  <2>6. CASE m # Under(r)
    <3>1. Hears(r, m) <=> Hears(r, m)'
        BY <1>1, <1>3, <2>6, InTurn DEF Hears
    <3>2. listens'[m][current[m]] = listens[m][current[m]]
        BY <1>0, <2>1, <2>6
    <3> QED
        BY <2>2, <2>3, <2>4, <3>1, <3>2
  <2> QED
      BY <2>5, <2>6
<1>17. RootShape'
    BY <1>1, <1>3, <1>0, InTurn DEF ServerInv, RootShape, Serial, Gives
<1>18. NewRootShape'
    BY <1>1, <1>3, <1>0, <1>5, InTurn DEF ServerInv, NewRootShape, Serial, Lists
<1>19. GiveShape'
    BY <1>1, <1>3, <1>0 DEF ServerInv, GiveShape, Serial
<1>20. DomainShape'
    BY <1>1, <1>3, <1>0, <1>5, InTurn DEF ServerInv, DomainShape, Told, Alone
<1>21. BornShape'
    BY <1>1, <1>3, <1>0, <1>5, InTurn DEF ServerInv, BornShape, Alone, Reborn
<1> QED
    BY <1>4, <1>6, <1>7, <1>8, <1>9, <1>10, <1>11, <1>12, <1>13, <1>14, <1>15,
       <1>16, <1>17, <1>18, <1>19, <1>20, <1>21
       DEF ServerInv

(* ... reads the root ...                                                      *)
LEMMA RestartReadsRootStep ==
    ASSUME ServerInv, NEW r \in Request, RestartReadsRoot(r)
    PROVE  ServerInv'
<1> USE DEF RestartReadsRoot, RootNow, RestKeeps, RestartKeeps, locals, pointers,
            instances
<1>1. job[r] = "domain" /\ stage[r] = "root" /\ At(r, "root")
    BY DEF At, ServerInv, TypeOK, StageShape, Opening
<1>2. Advances(r, 8, 9)
  <2>1. "root" \in Stage \ {"done"} /\ "create" \in Stage \ {"pick", "give"}
      BY DEF Stage
  <2>2. "create" \notin Opening /\ "root" \notin Opening /\ Goes(r, "create")
      BY DEF Opening
  <2>3. Advances(r, Number("root", step[r]), Number("create", 1))
      BY <1>1, <2>1, <2>2, GoesAdvances DEF ServerInv
  <2> QED
      BY <2>3 DEF Number
<1>3. /\ job' = job /\ overlap' = overlap /\ left' = left
      /\ pos[r] = 8 /\ pos' = [pos EXCEPT ![r] = 9]
      /\ pos \in [Request -> 0..24] /\ pos' \in [Request -> 0..24]
      /\ stage[r] # "give" /\ stage'[r] # "give"
      /\ \A q \in Request : q # r => stage'[q] = stage[q] /\ step'[q] = step[q]
    BY <1>1, <1>2 DEF Advances
<1>4. StageShape' /\ OverlapShape'
    BY <1>2 DEF Advances
<1>5. Alone => \A q \in Request : q # r => pos[q] \notin 1..22
    BY <1>1, <1>3, OnlyOne DEF ServerInv
<1>s. aim' = aim /\ aim[r] = -1
  <2>1. stage[r] \notin Using /\ stage'[r] \notin Using
      BY <1>1 DEF Goes, Loops, Turns, Begins, Using, ServerInv, TypeOK
  <2>2. \A q \in Request : q # r => slot'[q] = slot[q]
      BY DEF ServerInv, TypeOK
  <2> QED
      BY <1>3, <2>1, <2>2, AimKept
<1>6. TypeOK'
    BY <1>1, <1>3, <1>2, Orders DEF Advances, ServerInv, TypeOK
<1>7. SavedShape'
    BY <1>1, <1>3, InTurn DEF ServerInv, SavedShape, Saves
<1>8. SlotShape'
    BY <1>3, <1>s DEF ServerInv, SlotShape, Under
<1>9. UsedShape'
    BY <1>1, <1>3, InTurn DEF ServerInv, UsedShape
<1>10. FreshShape'
    BY <1>1, <1>3, FreshKept DEF ServerInv
<1>11. LinkShape'
    BY <1>1, <1>3, InTurn DEF ServerInv, LinkShape, Alone, Links, Steers
<1>12. LiveShape'
    BY <1>1, <1>3, InTurn DEF ServerInv, LiveShape, Creates
<1>13. HeardShape'
    BY <1>1, <1>3, <1>s, InTurn DEF ServerInv, HeardShape, Creates, Adds, Listens
<1>14. ListShape'
    BY <1>1, <1>3, <1>5, InTurn DEF ServerInv, ListShape, Alone, Lists
<1>15. SoloShape'
    BY <1>1, <1>3, <1>5, InTurn DEF ServerInv, SoloShape, Alone, Creates, Saves
<1>16. OnceShape'
    BY <1>1, <1>3, <1>5, InTurn
       DEF ServerInv, OnceShape, Alone, Listens, Creates, Hears
<1>17. RootShape'
    BY <1>1, <1>3, InTurn DEF ServerInv, RootShape, Serial, Gives
<1>18. NewRootShape'
  <2>1. \A m \in Managed, q \in Request : Lists(q, m)' => Lists(q, m)
      BY <1>3, InTurn DEF Lists
  <2>2. Serial => \A q \in Request : pos'[q] \in 9..11 => q = r
      BY <1>3, <1>5 DEF Serial, Alone
  <2>3. seen'[r] = root
      BY DEF ServerInv, TypeOK
  <2> QED
      BY <1>3, <2>1, <2>2, <2>3 DEF ServerInv, NewRootShape, Serial
<1>19. GiveShape'
    BY <1>1, <1>3 DEF ServerInv, TypeOK, GiveShape, Serial
<1>20. DomainShape'
    BY <1>1, <1>3, <1>5, InTurn DEF ServerInv, DomainShape, Told, Alone
<1>21. BornShape'
    BY <1>1, <1>3, <1>5, InTurn DEF ServerInv, BornShape, Alone, Reborn
<1> QED
    BY <1>4, <1>6, <1>7, <1>8, <1>9, <1>10, <1>11, <1>12, <1>13, <1>14, <1>15,
       <1>16, <1>17, <1>18, <1>19, <1>20, <1>21
       DEF ServerInv

(* ... creates the new ones ...                                                *)
LEMMA RestartCreatesStep ==
    ASSUME ServerInv, NEW r \in Request, RestartCreates(r)
    PROVE  ServerInv'
<1> USE DEF RestartCreates, RestKeeps, RestartKeeps, locals, pointers, instances
<1>1. /\ step[r] \in 1..3 /\ job[r] = "domain" /\ stage[r] = "create" /\ At(r, "create")
      /\ Under(r) \in Managed /\ Turn(Under(r)) = step[r]
    BY RestartPlace DEF Walked, Opening
<1>2. Advances(r, 8 + step[r], 9 + step[r])
  <2>1. Loops(r, Managers, "create", "controller")
      OBVIOUS
  <2>2. /\ "create" \in Walked \ Opening /\ "create" \in Walked \ Opening
        /\ "controller" \in Stage \ Opening
      BY DEF Walked, Opening, Stage
  <2>3. Advances(r, Number("create", step[r]),
                 IF step[r] = 3 THEN Number("controller", 1) ELSE Number("create", step[r] + 1))
      BY <1>1, <2>1, <2>2, LoopsAdvances DEF ServerInv
  <2>4. /\ Number("create", step[r]) = 8 + step[r] /\ Number("controller", 1) = 12
        /\ Number("create", step[r] + 1) = 8 + (step[r] + 1)
      BY DEF Number
  <2>5. (IF step[r] = 3 THEN Number("controller", 1) ELSE Number("create",
        step[r] + 1)) = (9 + step[r])
      BY <1>1, <2>4
  <2> QED
      BY <2>3, <2>4, <2>5
<1>3. /\ job' = job /\ overlap' = overlap /\ left' = left
      /\ pos[r] = 8 + step[r] /\ pos' = [pos EXCEPT ![r] = 9 + step[r]]
      /\ pos \in [Request -> 0..24] /\ pos' \in [Request -> 0..24]
      /\ stage[r] # "give" /\ stage'[r] # "give"
      /\ \A q \in Request : q # r => stage'[q] = stage[q] /\ step'[q] = step[q]
    BY <1>1, <1>2 DEF Advances
<1>4. StageShape' /\ OverlapShape'
    BY <1>2 DEF Advances
<1>5. Alone => \A q \in Request : q # r => pos[q] \notin 1..22
    BY <1>1, <1>3, OnlyOne DEF ServerInv
<1>0. /\ Fresh(Under(r)) \in Instance /\ life[Under(r)][Fresh(Under(r))] = "none"
      /\ \A h \in Instance : h < Fresh(Under(r)) => life[Under(r)][h] # "none"
      /\ Under(r) \in Component
    BY <1>1, <1>3, FreshInstance, InTurn DEF ServerInv
<1>a. /\ life' \in [Component -> [Instance -> {"none", "up", "shutting", "shut"}]]
      /\ \A n \in Component, h \in Instance :
            life'[n][h] = IF n = Under(r) /\ h = Fresh(Under(r)) THEN "up" ELSE life[n][h]
  <2>1. life \in [Component -> [Instance -> {"none", "up", "shutting", "shut"}]]
      BY DEF ServerInv, TypeOK
  <2> QED
      BY <1>0, <2>1, Updated
<1>b. /\ rootOf' \in [Component -> [Instance -> Root]]
      /\ \A n \in Component, h \in Instance :
            rootOf'[n][h] = IF n = Under(r)
            /\ h = Fresh(Under(r)) THEN seen[r] ELSE rootOf[n][h]
  <2>1. rootOf \in [Component -> [Instance -> Root]] /\ seen[r] \in Root
      BY DEF ServerInv, TypeOK
  <2> QED
      BY <1>0, <2>1, Updated
<1>c. /\ bornIn' \in [Component -> [Instance -> Domain \cup {NoDomain}]]
      /\ \A n \in Component, h \in Instance :
            bornIn'[n][h] = IF n = Under(r) /\ h = Fresh(Under(r)) THEN env ELSE bornIn[n][h]
  <2>1. bornIn \in [Component -> [Instance -> Domain \cup {NoDomain}]]
        /\ env \in Domain \cup {NoDomain}
      BY DEF ServerInv, TypeOK, BornShape
  <2> QED
      BY <1>0, <2>1, Updated
<1>d. /\ current \in [Managed -> Instance] /\ aware \in [Component -> Instance]
      /\ current' \in [Managed -> Instance]
      /\ \A m \in Managed : current'[m] = IF m = Under(r) THEN Fresh(m) ELSE current[m]
      /\ \A m \in Managed, q \in Request : old[q][m] \in Instance \cup {-1}
    BY <1>0, <1>1 DEF ServerInv, TypeOK
<1>e. /\ \A m \in Component : life[m][aware[m]] # "none"
      /\ \A m \in Managed : life[m][current[m]] # "none"
    BY DEF ServerInv, UsedShape
<1>s. aim' = aim /\ aim[r] = -1
  <2>1. stage[r] \notin Using /\ stage'[r] \notin Using
      BY <1>1 DEF Goes, Loops, Turns, Begins, Using, ServerInv, TypeOK
  <2>2. \A q \in Request : q # r => slot'[q] = slot[q]
      BY DEF ServerInv, TypeOK
  <2> QED
      BY <1>3, <2>1, <2>2, AimKept
<1>6. TypeOK'
    BY <1>2, <1>3, <1>a, <1>b, <1>d, Orders DEF Advances, ServerInv, TypeOK
<1>7. SavedShape'
    BY <1>1, <1>3, <1>0, InTurn DEF ServerInv, SavedShape, Saves
<1>8. SlotShape'
  <2>1. \A m \in Managed, g \in Instance : life[m][g] # "none" => life'[m][g] # "none"
      BY <1>a, InTurn
  <2>2. Alone => \A q \in Request : aim[q] = -1
      BY <1>5, <1>s, AimPlace DEF ServerInv
  <2> QED
      BY <1>3, <1>s, <2>1, <2>2 DEF ServerInv, SlotShape, Under, Alone
<1>9. UsedShape'
  <2>1. \A m \in Component, g \in Instance : life[m][g] # "none" => life'[m][g] # "none"
      BY <1>a
  <2>2. \A m \in Managed : life'[m][current'[m]] # "none"
      BY <1>a, <1>d, <1>e, <1>0, InTurn
  <2>3. \A m \in Component : life'[m][aware[m]] # "none"
      BY <1>d, <1>e, <2>1
  <2>4. \A m \in Managed, q \in Request : old[q][m] # -1 => life'[m][old[q][m]] # "none"
      BY <1>d, <2>1, InTurn DEF ServerInv, UsedShape
  <2>5. \A m \in Managed, g \in Instance : life'[m][g] = "none" => listens[m][g] = 0
      BY <1>a, InTurn DEF ServerInv, UsedShape
  <2> QED
      BY <2>2, <2>3, <2>4, <2>5 DEF UsedShape
<1>10. FreshShape'
  <2> SUFFICES ASSUME NEW m \in Managed
               PROVE  \E n \in 0..Cardinality(Creators(m)') :
                          \A g \in Instance : life'[m][g] # "none" <=> g <= n
      BY DEF FreshShape
  <2>1. PICK n \in 0..Cardinality(Creators(m)) :
              \A g \in Instance : life[m][g] # "none" <=> g <= n
      BY DEF ServerInv, FreshShape
  <2>2. /\ IsFiniteSet(Creators(m)) /\ IsFiniteSet(Creators(m)')
        /\ Cardinality(Creators(m)) \in Nat /\ Cardinality(Creators(m)') \in Nat
        /\ m # Under(r) => Cardinality(Creators(m)) <= Cardinality(Creators(m)')
        /\ m = Under(r) => Cardinality(Creators(m)) + 1 <= Cardinality(Creators(m)')
    <3>1. /\ Creators(m)' \subseteq Request /\ Creators(m) \subseteq Creators(m)'
          /\ m = Under(r) => r \notin Creators(m) /\ r \in Creators(m)'
        BY <1>1, <1>3, InTurn DEF Creators
    <3>2. IsFiniteSet(Creators(m)') /\ IsFiniteSet(Creators(m))
        BY <3>1, RequestAssumption, FS_Subset
    <3>3. /\ Cardinality(Creators(m)) \in Nat /\ Cardinality(Creators(m)') \in Nat
          /\ Cardinality(Creators(m)) <= Cardinality(Creators(m)')
          /\ Cardinality(Creators(m)) = Cardinality(Creators(m)') => Creators(m) = Creators(m)'
        BY <3>1, <3>2, FS_Subset, FS_CardinalityType
    <3> QED
        BY <3>1, <3>2, <3>3
  <2>3. CASE m = Under(r)
    <3> DEFINE f == Fresh(m)
    <3>1. n + 1 \in 0..Cardinality(Creators(m)')
        BY <2>1, <2>2, <2>3
    <3>2. f \in Instance /\ n \in Nat /\ Instance \subseteq Int
        BY <1>0, <2>1, <2>2, <2>3 DEF Instance
    <3>3. f = n + 1
      <4>1. f > n
          BY <1>0, <2>1, <2>3, <3>2
      <4>2. ASSUME f > n + 1 PROVE FALSE
        <5>1. n + 1 \in Instance
            BY <3>2, <4>2, RequestAssumption, FS_CardinalityType DEF Instance
        <5> QED
            BY <1>0, <2>1, <2>3, <3>2, <4>2, <5>1
      <4> QED
          BY <3>2, <4>1, <4>2
    <3>4. \A g \in Instance : life'[m][g] # "none" <=> g <= n + 1
        BY <1>0, <1>a, <2>1, <2>3, <3>2, <3>3
    <3> QED
        BY <3>1, <3>4
  <2>4. CASE m # Under(r)
    <3>1. \A g \in Instance : life'[m][g] = life[m][g]
        BY <1>a, <2>4, InTurn
    <3>2. n \in 0..Cardinality(Creators(m)')
        BY <2>1, <2>2, <2>4
    <3> QED
        BY <2>1, <3>1, <3>2
  <2> QED
      BY <2>3, <2>4
<1>11. LinkShape'
  <2>1. \A m \in Managed, q \in Request : Links(q, m) => Links(q, m)'
      BY <1>1, <1>3, InTurn DEF Links
  <2>2. \A m \in Managed : m = Under(r) => Links(r, m)' /\ (m = "build" => Steers(r)')
      BY <1>1, <1>3, InTurn DEF Links, Steers
  <2>3. \A q \in Request : Steers(q) => Steers(q)'
      BY <1>1, <1>3 DEF Steers
  <2> QED
      BY <1>3, <1>d, <2>1, <2>2, <2>3, InTurn DEF ServerInv, LinkShape, Alone
<1>12. LiveShape'
  <2>1. \A m \in Managed, q \in Request : m # Under(r) /\ Creates(q, m) => Creates(q, m)'
      BY <1>1, <1>3, InTurn DEF Creates
  <2>2. \A m \in Managed : m # Under(r) => current'[m] = current[m]
        /\ life'[m][current[m]] = life[m][current[m]]
      BY <1>a, <1>d, InTurn
  <2>3. life'[Under(r)][current'[Under(r)]] = "up"
      BY <1>0, <1>1, <1>a, <1>d
  <2> QED
      BY <2>1, <2>2, <2>3 DEF ServerInv, LiveShape
<1>13. HeardShape'
  <2>1. \A m \in Managed, q \in Request :
            /\ m # Under(r) /\ Creates(q, m) => Creates(q, m)'
            /\ m # Under(r) /\ Adds(q, m) => Adds(q, m)'
      BY <1>1, <1>3, <1>d, <1>s, InTurn DEF Creates, Adds, Listens
  <2>2. \A m \in Managed : m # Under(r) => current'[m] = current[m]
      BY <1>d
  <2>3. \A m \in Managed : m = Under(r) => Adds(r, m)'
      BY <1>1, <1>3, <1>s, AimKept DEF Adds, Listens
  <2> QED
      BY <2>1, <2>2, <2>3 DEF ServerInv, HeardShape
<1>14. ListShape'
  <2> SUFFICES ASSUME Alone, NEW m \in Managed
               PROVE  aware[m] = current'[m] \/ (Lists(r, m)' /\ aware[m] = old[r][m])
      BY <1>3 DEF ListShape, Alone
  <2>1. CASE m = Under(r)
    <3>1. Creates(r, m) /\ Lists(r, m)'
        BY <1>1, <1>3, <2>1 DEF Creates, Lists
    <3> QED
        BY <3>1 DEF ServerInv, SoloShape
  <2>2. CASE m # Under(r)
    <3>1. aware[m] = current[m] \/ (Lists(r, m) /\ aware[m] = old[r][m])
        BY <1>3, <1>5, InTurn DEF ServerInv, ListShape, Lists
    <3>2. Lists(r, m) => Lists(r, m)'
        BY <1>1, <1>3, <2>2, InTurn DEF Lists
    <3> QED
        BY <1>d, <2>2, <3>1, <3>2
  <2> QED
      BY <2>1, <2>2
<1>15. SoloShape'
  <2>1. \A m \in Managed, q \in Request : Creates(q, m)' => Creates(q, m)
        /\ (q = r => m # Under(r))
      BY <1>1, <1>3, InTurn DEF Creates
  <2>2. Alone => \A m \in Managed, q \in Request : Creates(q, m)' => q = r
      BY <1>1, <1>3, <1>5, InTurn DEF Creates
  <2>3. Alone => \A m \in Managed, q \in Request : ~Saves(q, m)'
      BY <1>1, <1>3, <1>5 DEF Saves
  <2> QED
      BY <1>3, <1>d, <2>1, <2>2, <2>3 DEF ServerInv, SoloShape, Alone
<1>16. OnceShape'
  <2> SUFFICES ASSUME Alone, NEW m \in Managed
               PROVE  /\ listens[m][current'[m]] = 0
                      /\ Listens(r, m)' \/ (Creates(r, m)' /\ ~Hears(r, m)')
      BY <1>3 DEF OnceShape, Alone
  <2>1. /\ Listens(r, m) \/ (Creates(r, m) /\ ~Hears(r, m))
        /\ Listens(r, m)' \/ (Creates(r, m)' /\ ~Hears(r, m)')
      BY <1>1, <1>3, InTurn DEF Listens, Creates, Hears
  <2>2. CASE m = Under(r)
      BY <1>0, <1>d, <2>1, <2>2 DEF ServerInv, UsedShape
  <2>3. CASE m # Under(r)
      BY <1>d, <2>1, <2>3 DEF ServerInv, OnceShape
  <2> QED
      BY <2>1, <2>2, <2>3
<1>17. RootShape'
  <2>1. \A m \in Component : rootOf'[m][aware[m]] = rootOf[m][aware[m]]
      BY <1>0, <1>b, <1>d, <1>e
  <2> QED
      BY <1>3, <2>1 DEF ServerInv, RootShape, Serial, Gives
<1>18. NewRootShape'
  <2> SUFFICES ASSUME Serial
               PROVE  \A q \in Request :
                          /\ pos'[q] \in 9..11 => seen[q] = root
                          /\ \A m \in Managed : Lists(q, m)' => rootOf'[m][current'[m]] = root
      BY <1>3 DEF NewRootShape, Serial
  <2>1. seen[r] = root
      BY <1>1, <1>3 DEF ServerInv, NewRootShape
  <2>2. \A q \in Request : pos'[q] \in 9..11 => seen[q] = root
      BY <1>1, <1>3, <2>1 DEF ServerInv, NewRootShape
  <2>3. \A q \in Request, m \in Managed :
            Lists(q, m)' /\ m # Under(r) => rootOf[m][current[m]] = root
    <3>1. \A q \in Request, m \in Managed : Lists(q, m)' /\ m # Under(r) => Lists(q, m)
        BY <1>1, <1>3, InTurn DEF Lists
    <3> QED
        BY <3>1 DEF ServerInv, NewRootShape
  <2>4. \A m \in Managed : rootOf'[m][current'[m]] =
            IF m = Under(r) THEN seen[r] ELSE rootOf[m][current[m]]
      BY <1>0, <1>b, <1>d, InTurn
  <2> QED
      BY <2>1, <2>2, <2>3, <2>4
<1>19. GiveShape'
    BY <1>1, <1>3, <1>0 DEF ServerInv, GiveShape, Serial
<1>20. DomainShape'
    BY <1>1, <1>3, <1>0, <1>5, InTurn DEF ServerInv, DomainShape, Told, Alone
<1>21. BornShape'
  <2>1. \A m \in Managed, q \in Request : m # Under(r) /\ Reborn(q, m) => Reborn(q, m)'
      BY <1>1, <1>3, InTurn DEF Reborn
  <2>2. \A m \in Managed : bornIn'[m][current'[m]] =
            IF m = Under(r) THEN env ELSE bornIn[m][current[m]]
      BY <1>0, <1>c, <1>d, InTurn
  <2> QED
      BY <1>3, <1>c, <1>d, <2>1, <2>2 DEF ServerInv, BornShape, Alone
<1> QED
    BY <1>4, <1>6, <1>7, <1>8, <1>9, <1>10, <1>11, <1>12, <1>13, <1>14, <1>15,
       <1>16, <1>17, <1>18, <1>19, <1>20, <1>21
       DEF ServerInv

(* ... reads the one to give on next ...                                       *)
LEMMA RestartTakesStep ==
    ASSUME ServerInv, NEW r \in Request, RestartTakes(r)
    PROVE  ServerInv'
<1> USE DEF RestKeeps, RestartKeeps, locals, pointers, instances
<1>1. PICK s \in {"controller", "channel", "listen", "aware"} :
          /\ At(r, s)
          /\ slot' = [slot EXCEPT ![r] = current[Under(r)]]
          /\ Turns(r, Taking(s))
          /\ UNCHANGED <<old, seen, pointers, instances>> /\ RestartKeeps
    BY DEF RestartTakes
<1> DEFINE n == Taking(s)
<1>2. /\ n \in Using /\ n \in Stage /\ s \in Stage \ {"done"} /\ s \notin Opening
      /\ n \notin Opening /\ n # "answer" /\ s # "answer"
      /\ n \notin Walked => s \notin Walked
      /\ \A k \in 1..3 : Number(n, k) = Number(s, k)
      /\ s \notin Using
    BY DEF Taking, Using, Stage, Opening, Walked, Number
<1>3. /\ stage[r] = s /\ job[r] = "domain" /\ step[r] \in 1..3
      /\ Under(r) \in Managed /\ Turn(Under(r)) = step[r]
  <2>1. /\ stage[r] = s /\ s \notin {"answer", "done"} /\ step[r] \in 1..5
        /\ job[r] \in {"open", "domain"}
      BY <1>1, Orders DEF At, ServerInv, TypeOK
  <2>2. step[r] <= 3 /\ job[r] # "open"
      BY <1>2, <2>1 DEF ServerInv, StageShape
  <2> QED
      BY <2>1, <2>2, Orders DEF Under
<1>4. Advances(r, Number(s, step[r]), Number(n, step[r]))
  <2>1. /\ step \in [Request -> 1..5] /\ step' = [step EXCEPT ![r] = step[r]]
        /\ stage' = [stage EXCEPT ![r] = n] /\ job' = job /\ overlap' = overlap
      BY <1>1, Orders DEF Turns, ServerInv, TypeOK
  <2>2. n \notin Walked => step[r] = 1
      BY <1>2, <1>3 DEF ServerInv, StageShape
  <2> QED
    <3>1. /\ n \in Stage /\ step[r] \in 1..5 /\ (n \notin Opening => step[r] <= 3)
          /\ (n \in Opening <=> (s \in Opening /\ n # "answer"))
          /\ (s = "answer" => n = "done") /\ s \in Stage \ {"done"}
        BY <1>2, <1>3
    <3>2. TypeOK /\ StageShape /\ OverlapShape /\ At(r, s)
        BY <1>1 DEF ServerInv
    <3> HIDE DEF n
    <3> QED
        BY <2>1, <2>2, <3>1, <3>2, Moves
<1>5. /\ job' = job /\ overlap' = overlap /\ left' = left /\ pos' = pos /\ step' = step
      /\ pos[r] = Number(s, step[r])
      /\ stage[r] # "give" /\ stage'[r] # "give"
      /\ \A q \in Request : q # r => stage'[q] = stage[q]
  <2>1. /\ pos[r] = Number(s, step[r]) /\ pos' = [pos EXCEPT ![r] = Number(n, step[r])]
        /\ pos \in [Request -> 0..24]
      BY <1>3, <1>4 DEF Advances
  <2>2. Number(n, step[r]) = Number(s, step[r])
      BY <1>2, <1>3
  <2> QED
      BY <1>1, <1>3, <1>4, <2>1, <2>2 DEF Advances, Turns
<1>6. StageShape' /\ OverlapShape'
    BY <1>4 DEF Advances
<1>7. current[Under(r)] \in Instance
    BY <1>3 DEF ServerInv, TypeOK
<1>8. aim[r] = -1 /\ aim' = [aim EXCEPT ![r] = current[Under(r)]]
  <2>1. stage[r] \notin Using /\ stage'[r] \in Using
      BY <1>1, <1>2, <1>3 DEF Turns, ServerInv, TypeOK
  <2>2. slot'[r] = current[Under(r)] /\ \A q \in Request : q # r => slot'[q] = slot[q]
      BY <1>1 DEF ServerInv, TypeOK
  <2> QED
      BY <1>5, <2>1, <2>2 DEF aim
<1>9. TypeOK'
  <2>1. slot' \in [Request -> Instance]
      BY <1>1, <1>7 DEF ServerInv, TypeOK
  <2> QED
      BY <1>1, <1>4, <1>5, <2>1, Orders DEF Advances, ServerInv, TypeOK
<1>10. SavedShape' /\ UsedShape' /\ FreshShape'
    BY <1>1, <1>5 DEF ServerInv, SavedShape, Saves, UsedShape, FreshShape, Creators
<1>11. SlotShape'
  <2>1. life[Under(r)][current[Under(r)]] # "none"
      BY <1>3 DEF ServerInv, UsedShape
  <2>2. Under(r)' = Under(r)
      BY <1>5 DEF Under
  <2>3. aim'[r] = current[Under(r)] /\ \A q \in Request : q # r => aim'[q] = aim[q]
      BY <1>8 DEF aim
  <2> QED
      BY <1>1, <1>3, <1>5, <1>7, <2>1, <2>2, <2>3 DEF ServerInv, SlotShape, Under
<1>12. HeardShape'
  <2>1. \A m \in Managed, q \in Request : Creates(q, m)' <=> Creates(q, m)
      BY <1>5 DEF Creates
  <2>2. ASSUME NEW m \in Managed, NEW q \in Request, Adds(q, m) PROVE Adds(q, m)'
    <3>1. Listens(q, m)' /\ pos'[q] = pos[q] /\ current' = current
        BY <1>1, <1>5, <2>2 DEF Adds, Listens
    <3>2. CASE q # r
      <4>1. aim'[q] = aim[q]
          BY <1>8, <3>2 DEF aim
      <4> QED
          BY <2>2, <3>1, <4>1 DEF Adds
    <3>3. CASE q = r
      <4>1. aim'[r] = current[Under(r)]
          BY <1>8 DEF aim
      <4>2. pos[r] = 12 + 2 * Turn(m) => m = Under(r)
        <5>1. Number(s, step[r]) = 12 + 2 * Turn(m) => s = "listen" /\ Turn(m) = step[r]
            BY <1>3, InTurn DEF Number
        <5> QED
            BY <1>3, <1>5, <5>1, InTurn
      <4> QED
          BY <3>1, <3>3, <4>1, <4>2 DEF Adds
    <3> QED
        BY <3>2, <3>3
  <2> QED
      BY <1>1, <2>1, <2>2 DEF ServerInv, HeardShape
<1>13. LinkShape' /\ LiveShape'
    BY <1>1, <1>5 DEF ServerInv, LinkShape, LiveShape, Alone, Links, Steers, Creates
<1>14. ListShape' /\ SoloShape' /\ OnceShape'
    BY <1>1, <1>5 DEF ServerInv, ListShape, SoloShape, OnceShape, Alone, Saves, Lists, Creates,
       Listens, Hears
<1>15. RootShape' /\ NewRootShape'
    BY <1>1, <1>5 DEF ServerInv, RootShape, NewRootShape, Serial, Gives, Lists
<1>16. GiveShape'
    BY <1>1, <1>5 DEF ServerInv, TypeOK, GiveShape, Serial
<1>17. DomainShape' /\ BornShape'
    BY <1>1, <1>5 DEF ServerInv, DomainShape, Told, BornShape, Alone, Reborn
<1> QED
    BY <1>6, <1>9, <1>10, <1>11, <1>12, <1>13, <1>14, <1>15, <1>16, <1>17 DEF ServerInv

(* ... gives the controller its own ...                                        *)
LEMMA RestartControllerStep ==
    ASSUME ServerInv, NEW r \in Request, RestartController(r)
    PROVE  ServerInv'
<1> USE DEF RestartController, RestKeeps, RestartKeeps, locals, pointers, instances
<1>1. job[r] = "domain" /\ stage[r] = "controls" /\ At(r, "controls")
    BY DEF At, ServerInv, TypeOK, StageShape, Opening
<1>2. Advances(r, 12, 13)
  <2>1. "controls" \in Stage \ {"done"} /\ "channel" \in Stage \ {"pick", "give"}
      BY DEF Stage
  <2>2. "channel" \notin Opening /\ "controls" \notin Opening /\ Goes(r, "channel")
      BY DEF Opening
  <2>3. Advances(r, Number("controls", step[r]), Number("channel", 1))
      BY <1>1, <2>1, <2>2, GoesAdvances DEF ServerInv
  <2> QED
      BY <2>3 DEF Number
<1>3. /\ job' = job /\ overlap' = overlap /\ left' = left
      /\ pos[r] = 12 /\ pos' = [pos EXCEPT ![r] = 13]
      /\ pos \in [Request -> 0..24] /\ pos' \in [Request -> 0..24]
      /\ stage[r] # "give" /\ stage'[r] # "give"
      /\ \A q \in Request : q # r => stage'[q] = stage[q] /\ step'[q] = step[q]
    BY <1>1, <1>2 DEF Advances
<1>4. StageShape' /\ OverlapShape'
    BY <1>2 DEF Advances
<1>5. Alone => \A q \in Request : q # r => pos[q] \notin 1..22
    BY <1>1, <1>3, OnlyOne DEF ServerInv
<1>s. /\ aim[r] = slot[r] /\ aim'[r] = -1 /\ slot[r] \in Instance
      /\ \A q \in Request : q # r => aim'[q] = aim[q]
  <2>1. stage[r] \in Using /\ stage'[r] \notin Using
      BY <1>1 DEF Goes, Loops, Turns, Using, ServerInv, TypeOK
  <2> QED
      BY <1>3, <2>1 DEF aim, ServerInv, TypeOK
<1>g. /\ life[Under(r)][slot[r]] # "none" /\ Under(r) \in Managed
      /\ Alone => slot[r] = current[Under(r)]
  <2>1. aim[r] # -1
      BY <1>s DEF Instance
  <2> QED
      BY <1>s, <2>1 DEF ServerInv, SlotShape, Alone
<1>6. TypeOK'
    BY <1>1, <1>3, <1>2, Orders DEF Advances, ServerInv, TypeOK
<1>7. SavedShape'
    BY <1>1, <1>3, InTurn DEF ServerInv, SavedShape, Saves
<1>8. SlotShape'
    BY <1>3, <1>s DEF ServerInv, SlotShape, Under
<1>9. UsedShape'
    BY <1>1, <1>3, InTurn DEF ServerInv, UsedShape
<1>10. FreshShape'
    BY <1>1, <1>3, FreshKept DEF ServerInv
<1>11. LinkShape'
  <2>1. \A m \in Managed, q \in Request : Links(q, m) => Links(q, m)'
      BY <1>3, InTurn DEF Links
  <2>2. Alone => controller' = current["build"]
    <3>1. Under(r) = "build"
      <4>1. step[r] = 1
          BY <1>1 DEF ServerInv, StageShape, Walked
      <4> QED
          BY <4>1 DEF Under, Managers
    <3> QED
        BY <1>g, <3>1
  <2> QED
      BY <1>3, <2>1, <2>2 DEF ServerInv, LinkShape, Alone
<1>12. LiveShape'
    BY <1>1, <1>3, InTurn DEF ServerInv, LiveShape, Creates
<1>13. HeardShape'
    BY <1>1, <1>3, <1>s, InTurn DEF ServerInv, HeardShape, Creates, Adds, Listens
<1>14. ListShape'
    BY <1>1, <1>3, <1>5, InTurn DEF ServerInv, ListShape, Alone, Lists
<1>15. SoloShape'
    BY <1>1, <1>3, <1>5, InTurn DEF ServerInv, SoloShape, Alone, Creates, Saves
<1>16. OnceShape'
    BY <1>1, <1>3, <1>5, InTurn
       DEF ServerInv, OnceShape, Alone, Listens, Creates, Hears
<1>17. RootShape'
    BY <1>1, <1>3, InTurn DEF ServerInv, RootShape, Serial, Gives
<1>18. NewRootShape'
    BY <1>1, <1>3, <1>5, InTurn DEF ServerInv, NewRootShape, Serial, Lists
<1>19. GiveShape'
    BY <1>1, <1>3 DEF ServerInv, GiveShape, Serial
<1>20. DomainShape'
    BY <1>1, <1>3, <1>5, InTurn DEF ServerInv, DomainShape, Told, Alone
<1>21. BornShape'
    BY <1>1, <1>3, <1>5, InTurn DEF ServerInv, BornShape, Alone, Reborn
<1> QED
    BY <1>4, <1>6, <1>7, <1>8, <1>9, <1>10, <1>11, <1>12, <1>13, <1>14, <1>15,
       <1>16, <1>17, <1>18, <1>19, <1>20, <1>21
       DEF ServerInv

(* ... gives the channels theirs ...                                           *)
LEMMA RestartChannelStep ==
    ASSUME ServerInv, NEW r \in Request, RestartChannel(r)
    PROVE  ServerInv'
<1> USE DEF RestartChannel, RestKeeps, RestartKeeps, locals, pointers, instances
<1>1. /\ step[r] \in 1..3 /\ job[r] = "domain" /\ stage[r] = "sets" /\ At(r, "sets")
      /\ Under(r) \in Managed /\ Turn(Under(r)) = step[r]
    BY RestartPlace DEF Walked, Opening
<1>2. Advances(r, 11 + 2 * step[r], 12 + 2 * step[r])
  <2>1. /\ "sets" \in Walked /\ "listen" \in Walked /\ Turns(r, "listen")
        /\ "sets" \notin Opening /\ "listen" \notin Opening
      BY DEF Walked, Opening
  <2>2. Advances(r, Number("sets", step[r]), Number("listen", step[r]))
      BY <1>1, <2>1, TurnsAdvances DEF ServerInv
  <2> QED
      BY <2>2 DEF Number
<1>3. /\ job' = job /\ overlap' = overlap /\ left' = left
      /\ pos[r] = 11 + 2 * step[r] /\ pos' = [pos EXCEPT ![r] = 12 + 2 * step[r]]
      /\ pos \in [Request -> 0..24] /\ pos' \in [Request -> 0..24]
      /\ stage[r] # "give" /\ stage'[r] # "give"
      /\ \A q \in Request : q # r => stage'[q] = stage[q] /\ step'[q] = step[q]
    BY <1>1, <1>2 DEF Advances
<1>4. StageShape' /\ OverlapShape'
    BY <1>2 DEF Advances
<1>5. Alone => \A q \in Request : q # r => pos[q] \notin 1..22
    BY <1>1, <1>3, OnlyOne DEF ServerInv
<1>s. /\ aim[r] = slot[r] /\ aim'[r] = -1 /\ slot[r] \in Instance
      /\ \A q \in Request : q # r => aim'[q] = aim[q]
  <2>1. stage[r] \in Using /\ stage'[r] \notin Using
      BY <1>1 DEF Goes, Loops, Turns, Using, ServerInv, TypeOK
  <2> QED
      BY <1>3, <2>1 DEF aim, ServerInv, TypeOK
<1>g. /\ life[Under(r)][slot[r]] # "none" /\ Under(r) \in Managed
      /\ Alone => slot[r] = current[Under(r)]
  <2>1. aim[r] # -1
      BY <1>s DEF Instance
  <2> QED
      BY <1>s, <2>1 DEF ServerInv, SlotShape, Alone
<1>6. TypeOK'
    BY <1>1, <1>3, <1>2, Orders DEF Advances, ServerInv, TypeOK
<1>7. SavedShape'
    BY <1>1, <1>3, InTurn DEF ServerInv, SavedShape, Saves
<1>8. SlotShape'
    BY <1>3, <1>s DEF ServerInv, SlotShape, Under
<1>9. UsedShape'
    BY <1>1, <1>3, InTurn DEF ServerInv, UsedShape
<1>10. FreshShape'
    BY <1>1, <1>3, FreshKept DEF ServerInv
<1>11. LinkShape'
  <2>1. \A m \in Managed, q \in Request : m # Under(r) /\ Links(q, m) => Links(q, m)'
      BY <1>1, <1>3, InTurn DEF Links
  <2>2. \A q \in Request : Steers(q) => Steers(q)'
      BY <1>1, <1>3 DEF Steers
  <2>3. \A m \in Managed : channel'[m] = IF m = Under(r) THEN slot[r] ELSE channel[m]
      BY <1>1 DEF ServerInv, TypeOK
  <2> QED
      BY <1>3, <1>g, <2>1, <2>2, <2>3 DEF ServerInv, LinkShape, Alone
<1>12. LiveShape'
    BY <1>1, <1>3, InTurn DEF ServerInv, LiveShape, Creates
<1>13. HeardShape'
    BY <1>1, <1>3, <1>s, InTurn DEF ServerInv, HeardShape, Creates, Adds, Listens
<1>14. ListShape'
    BY <1>1, <1>3, <1>5, InTurn DEF ServerInv, ListShape, Alone, Lists
<1>15. SoloShape'
    BY <1>1, <1>3, <1>5, InTurn DEF ServerInv, SoloShape, Alone, Creates, Saves
<1>16. OnceShape'
    BY <1>1, <1>3, <1>5, InTurn
       DEF ServerInv, OnceShape, Alone, Listens, Creates, Hears
<1>17. RootShape'
    BY <1>1, <1>3, InTurn DEF ServerInv, RootShape, Serial, Gives
<1>18. NewRootShape'
    BY <1>1, <1>3, <1>5, InTurn DEF ServerInv, NewRootShape, Serial, Lists
<1>19. GiveShape'
    BY <1>1, <1>3 DEF ServerInv, GiveShape, Serial
<1>20. DomainShape'
    BY <1>1, <1>3, <1>5, InTurn DEF ServerInv, DomainShape, Told, Alone
<1>21. BornShape'
    BY <1>1, <1>3, <1>5, InTurn DEF ServerInv, BornShape, Alone, Reborn
<1> QED
    BY <1>4, <1>6, <1>7, <1>8, <1>9, <1>10, <1>11, <1>12, <1>13, <1>14, <1>15,
       <1>16, <1>17, <1>18, <1>19, <1>20, <1>21
       DEF ServerInv

(* ... which listen to them ...                                                *)
LEMMA RestartListensStep ==
    ASSUME ServerInv, NEW r \in Request, RestartListens(r)
    PROVE  ServerInv'
<1> USE DEF RestartListens, RestKeeps, RestartKeeps, locals, pointers,
            instances
<1>1. /\ step[r] \in 1..3 /\ job[r] = "domain" /\ stage[r] = "adds" /\ At(r, "adds")
      /\ Under(r) \in Managed /\ Turn(Under(r)) = step[r]
    BY RestartPlace DEF Walked, Opening
<1>2. Advances(r, 12 + 2 * step[r], 13 + 2 * step[r])
  <2>1. Loops(r, Managers, "channel", "aware")
      OBVIOUS
  <2>2. /\ "adds" \in Walked \ Opening /\ "channel" \in Walked \ Opening
        /\ "aware" \in Stage \ Opening
      BY DEF Walked, Opening, Stage
  <2>3. Advances(r, Number("adds", step[r]),
                 IF step[r] = 3 THEN Number("aware", 1) ELSE Number("channel", step[r] + 1))
      BY <1>1, <2>1, <2>2, LoopsAdvances DEF ServerInv
  <2>4. /\ Number("adds", step[r]) = 12 + 2 * step[r] /\ Number("aware", 1) = 18 + 1
        /\ Number("channel", step[r] + 1) = 11 + 2 * (step[r] + 1)
      BY DEF Number
  <2>5. (IF step[r] = 3 THEN Number("aware", 1) ELSE Number("channel",
        step[r] + 1)) = (13 + 2 * step[r])
      BY <1>1, <2>4
  <2> QED
      BY <2>3, <2>4, <2>5
<1>3. /\ job' = job /\ overlap' = overlap /\ left' = left
      /\ pos[r] = 12 + 2 * step[r] /\ pos' = [pos EXCEPT ![r] = 13 + 2 * step[r]]
      /\ pos \in [Request -> 0..24] /\ pos' \in [Request -> 0..24]
      /\ stage[r] # "give" /\ stage'[r] # "give"
      /\ \A q \in Request : q # r => stage'[q] = stage[q] /\ step'[q] = step[q]
    BY <1>1, <1>2 DEF Advances
<1>4. StageShape' /\ OverlapShape'
    BY <1>2 DEF Advances
<1>5. Alone => \A q \in Request : q # r => pos[q] \notin 1..22
    BY <1>1, <1>3, OnlyOne DEF ServerInv
<1>s. /\ aim[r] = slot[r] /\ aim'[r] = -1 /\ slot[r] \in Instance
      /\ \A q \in Request : q # r => aim'[q] = aim[q]
  <2>1. stage[r] \in Using /\ stage'[r] \notin Using
      BY <1>1 DEF Goes, Loops, Turns, Using, ServerInv, TypeOK
  <2> QED
      BY <1>3, <2>1 DEF aim, ServerInv, TypeOK
<1>g. /\ life[Under(r)][slot[r]] # "none" /\ Under(r) \in Managed
      /\ Alone => slot[r] = current[Under(r)]
  <2>1. aim[r] # -1
      BY <1>s DEF Instance
  <2> QED
      BY <1>s, <2>1 DEF ServerInv, SlotShape, Alone
<1>0. /\ listens' \in [Component -> [Instance -> Nat]]
      /\ \A n \in Component, h \in Instance :
            listens'[n][h] = IF n = Under(r) /\ h = slot[r]
                             THEN listens[Under(r)][slot[r]] + 1 ELSE listens[n][h]
  <2>1. listens \in [Component -> [Instance -> Nat]] /\ Under(r) \in Component
      BY <1>1, InTurn DEF ServerInv, TypeOK
  <2>2. listens[Under(r)][slot[r]] + 1 \in Nat
      BY <1>s, <2>1
  <2> QED
      BY <1>s, <2>1, <2>2, Updated
<1>6. TypeOK'
    BY <1>1, <1>3, <1>0, <1>2, Orders DEF Advances, ServerInv, TypeOK
<1>7. SavedShape'
    BY <1>1, <1>3, <1>0, InTurn DEF ServerInv, SavedShape, Saves
<1>8. SlotShape'
    BY <1>3, <1>s DEF ServerInv, SlotShape, Under
<1>9. UsedShape'
  <2>1. \A m \in Managed, g \in Instance :
            life[m][g] = "none" => listens'[m][g] = listens[m][g]
      BY <1>0, <1>g, InTurn
  <2> QED
      BY <2>1 DEF ServerInv, UsedShape
<1>10. FreshShape'
    BY <1>1, <1>3, <1>0, FreshKept DEF ServerInv
<1>11. LinkShape'
    BY <1>1, <1>3, <1>0, InTurn DEF ServerInv, LinkShape, Alone, Links, Steers
<1>12. LiveShape'
    BY <1>1, <1>3, <1>0, InTurn DEF ServerInv, LiveShape, Creates
<1>13. HeardShape'
  <2>1. \A m \in Managed, q \in Request :
            /\ Creates(q, m) => Creates(q, m)'
            /\ m # Under(r) \/ q # r => (Adds(q, m) => Adds(q, m)')
      BY <1>1, <1>3, <1>s, InTurn DEF Creates, Adds, Listens
  <2>2. \A m \in Managed : m \in Component /\ current[m] \in Instance
      BY InTurn DEF ServerInv, TypeOK
  <2>3. \A m \in Managed, g \in Instance : listens[m][g] \in Nat
      BY InTurn DEF ServerInv, TypeOK
  <2>4. \A m \in Managed : listens[m][current[m]] >= 1 => listens'[m][current[m]] >= 1
      BY <1>0, <2>2, <2>3
  <2>5. ASSUME NEW m \in Managed, m = Under(r), Adds(r, m)
        PROVE  listens'[m][current[m]] >= 1
    <3>1. slot[r] = current[m]
      <4>1. pos[r] = 12 + 2 * Turn(m) /\ slot[r] # -1
          BY <1>1, <1>3, <1>s, <2>5 DEF Instance
      <4> QED
          BY <1>s, <2>5, <4>1 DEF Adds
    <3> QED
        BY <1>0, <2>2, <2>3, <2>5, <3>1
  <2> QED
      BY <2>1, <2>4, <2>5 DEF ServerInv, HeardShape
<1>14. ListShape'
    BY <1>1, <1>3, <1>0, <1>5, InTurn DEF ServerInv, ListShape, Alone, Lists
<1>15. SoloShape'
    BY <1>1, <1>3, <1>0, <1>5, InTurn DEF ServerInv, SoloShape, Alone, Creates, Saves
<1>16. OnceShape'
  <2> SUFFICES ASSUME Alone, NEW m \in Managed
               PROVE  IF \E q \in Request : Listens(q, m)' \/ (Creates(q, m)' /\ ~Hears(q, m)')
                      THEN listens'[m][current[m]] = 0 ELSE listens'[m][current[m]] = 1
      BY <1>3 DEF OnceShape, Alone
  <2>1. m \in Component /\ current[m] \in Instance
      BY InTurn DEF ServerInv, TypeOK
  <2>2. \A q \in Request : q # r => /\ ~Listens(q, m) /\ ~Listens(q, m)'
                                    /\ ~Creates(q, m) /\ ~Creates(q, m)'
      BY <1>3, <1>5, InTurn DEF Listens, Creates
  <2>3. IF Listens(r, m) \/ (Creates(r, m) /\ ~Hears(r, m))
        THEN listens[m][current[m]] = 0 ELSE listens[m][current[m]] = 1
      BY <2>2 DEF ServerInv, OnceShape
  <2>4. ~Creates(r, m) /\ ~Creates(r, m)'
      BY <1>1, <1>3, InTurn DEF Creates
  <2>5. CASE m = Under(r)
    <3>1. Listens(r, m) /\ ~Listens(r, m)'
        BY <1>1, <1>3, <2>5 DEF Listens
    <3>2. listens'[m][current[m]] = 1
        BY <1>0, <1>g, <2>1, <2>3, <2>5, <3>1
    <3> QED
        BY <2>2, <2>4, <3>1, <3>2
  <2>6. CASE m # Under(r)
    <3>1. Listens(r, m) <=> Listens(r, m)'
        BY <1>1, <1>3, <2>6, InTurn DEF Listens
    <3>2. listens'[m][current[m]] = listens[m][current[m]]
        BY <1>0, <2>1, <2>6
    <3> QED
        BY <2>2, <2>3, <2>4, <3>1, <3>2
  <2> QED
      BY <2>5, <2>6
<1>17. RootShape'
    BY <1>1, <1>3, <1>0, InTurn DEF ServerInv, RootShape, Serial, Gives
<1>18. NewRootShape'
    BY <1>1, <1>3, <1>0, <1>5, InTurn DEF ServerInv, NewRootShape, Serial, Lists
<1>19. GiveShape'
    BY <1>1, <1>3, <1>0 DEF ServerInv, GiveShape, Serial
<1>20. DomainShape'
    BY <1>1, <1>3, <1>0, <1>5, InTurn DEF ServerInv, DomainShape, Told, Alone
<1>21. BornShape'
    BY <1>1, <1>3, <1>0, <1>5, InTurn DEF ServerInv, BornShape, Alone, Reborn
<1> QED
    BY <1>4, <1>6, <1>7, <1>8, <1>9, <1>10, <1>11, <1>12, <1>13, <1>14, <1>15,
       <1>16, <1>17, <1>18, <1>19, <1>20, <1>21
       DEF ServerInv

(* ... and puts them into the list of the workspace.                           *)
LEMMA RestartAwareStep ==
    ASSUME ServerInv, NEW r \in Request, RestartAware(r)
    PROVE  ServerInv'
<1> USE DEF RestartAware, Replaced, RestKeeps, RestartKeeps, locals, pointers, instances
<1>1. /\ step[r] \in 1..3 /\ job[r] = "domain" /\ stage[r] = "replaces" /\ At(r, "replaces")
      /\ Under(r) \in Managed /\ Turn(Under(r)) = step[r]
    BY RestartPlace DEF Walked, Opening
<1>2. Advances(r, 18 + step[r], 19 + step[r])
  <2>1. Loops(r, Managers, "aware", "answer")
      OBVIOUS
  <2>2. /\ "replaces" \in Walked \ Opening /\ "aware" \in Walked \ Opening
        /\ "answer" \in Stage \ Opening
      BY DEF Walked, Opening, Stage
  <2>3. Advances(r, Number("replaces", step[r]),
                 IF step[r] = 3 THEN Number("answer", 1) ELSE Number("aware", step[r] + 1))
      BY <1>1, <2>1, <2>2, LoopsAdvances DEF ServerInv
  <2>4. /\ Number("replaces", step[r]) = 18 + step[r] /\ Number("answer", 1) = 22
        /\ Number("aware", step[r] + 1) = 18 + (step[r] + 1)
      BY DEF Number
  <2>5. (IF step[r] = 3 THEN Number("answer", 1) ELSE Number("aware",
        step[r] + 1)) = (19 + step[r])
      BY <1>1, <2>4
  <2> QED
      BY <2>3, <2>4, <2>5
<1>3. /\ job' = job /\ overlap' = overlap /\ left' = left
      /\ pos[r] = 18 + step[r] /\ pos' = [pos EXCEPT ![r] = 19 + step[r]]
      /\ pos \in [Request -> 0..24] /\ pos' \in [Request -> 0..24]
      /\ stage[r] # "give" /\ stage'[r] # "give"
      /\ \A q \in Request : q # r => stage'[q] = stage[q] /\ step'[q] = step[q]
    BY <1>1, <1>2 DEF Advances
<1>4. StageShape' /\ OverlapShape'
    BY <1>2 DEF Advances
<1>5. Alone => \A q \in Request : q # r => pos[q] \notin 1..22
    BY <1>1, <1>3, OnlyOne DEF ServerInv
<1>s. /\ aim[r] = slot[r] /\ aim'[r] = -1 /\ slot[r] \in Instance
      /\ \A q \in Request : q # r => aim'[q] = aim[q]
  <2>1. stage[r] \in Using /\ stage'[r] \notin Using
      BY <1>1 DEF Goes, Loops, Turns, Using, ServerInv, TypeOK
  <2> QED
      BY <1>3, <2>1 DEF aim, ServerInv, TypeOK
<1>g. /\ life[Under(r)][slot[r]] # "none" /\ Under(r) \in Managed
      /\ Alone => slot[r] = current[Under(r)]
  <2>1. aim[r] # -1
      BY <1>s DEF Instance
  <2> QED
      BY <1>s, <2>1 DEF ServerInv, SlotShape, Alone
<1>0. /\ aware' \in [Component -> Instance]
      /\ \A m \in Component : aware'[m] =
            IF m = Under(r) /\ aware[m] = old[r][m] THEN slot[r] ELSE aware[m]
    BY <1>1, <1>s, InTurn DEF ServerInv, TypeOK
<1>6. TypeOK'
    BY <1>1, <1>3, <1>0, <1>2, Orders DEF Advances, ServerInv, TypeOK
<1>7. SavedShape'
    BY <1>1, <1>3, <1>0, InTurn DEF ServerInv, SavedShape, Saves
<1>8. SlotShape'
    BY <1>3, <1>s DEF ServerInv, SlotShape, Under
<1>9. UsedShape'
    BY <1>0, <1>1, <1>g DEF ServerInv, UsedShape
<1>10. FreshShape'
    BY <1>1, <1>3, <1>0, FreshKept DEF ServerInv
<1>11. LinkShape'
    BY <1>1, <1>3, <1>0, InTurn DEF ServerInv, LinkShape, Alone, Links, Steers
<1>12. LiveShape'
    BY <1>1, <1>3, <1>0, InTurn DEF ServerInv, LiveShape, Creates
<1>13. HeardShape'
    BY <1>1, <1>3, <1>0, <1>s, InTurn DEF ServerInv, HeardShape, Creates, Adds, Listens
<1>14. ListShape'
  <2> SUFFICES ASSUME Alone, NEW m \in Managed
               PROVE  aware'[m] = current[m] \/ (Lists(r, m)' /\ aware'[m] = old[r][m])
      BY <1>3 DEF ListShape, Alone
  <2>1. aware[m] = current[m] \/ (Lists(r, m) /\ aware[m] = old[r][m])
      BY <1>3, <1>5, InTurn DEF ServerInv, ListShape, Lists
  <2>2. m # Under(r) /\ Lists(r, m) => Lists(r, m)'
      BY <1>1, <1>3, InTurn DEF Lists
  <2> QED
      BY <1>0, <1>g, <2>1, <2>2, InTurn
<1>15. SoloShape'
  <2>1. Alone => \A m \in Managed, q \in Request : ~Creates(q, m)' /\ ~Saves(q, m)'
      BY <1>1, <1>3, <1>5, InTurn DEF Creates, Saves
  <2> QED
      BY <1>3, <2>1 DEF SoloShape, Alone
<1>16. OnceShape'
    BY <1>1, <1>3, <1>0, <1>5, InTurn
       DEF ServerInv, OnceShape, Alone, Listens, Creates, Hears
<1>17. RootShape'
  <2> SUFFICES ASSUME Serial, NEW m \in Component PROVE rootOf[m][aware'[m]] = root
      BY <1>3 DEF RootShape, Serial
  <2>1. Lists(r, Under(r))
      BY <1>1, <1>3 DEF Lists
  <2>2. rootOf[Under(r)][current[Under(r)]] = root
      BY <1>1, <2>1 DEF ServerInv, NewRootShape
  <2>3. rootOf[m][aware[m]] = root
      BY <1>1, NobodyGives DEF ServerInv, RootShape
  <2>4. slot[r] = current[Under(r)]
      BY <1>g DEF Serial, Alone
  <2> QED
      BY <1>0, <2>2, <2>3, <2>4
<1>18. NewRootShape'
    BY <1>1, <1>3, <1>0, <1>5, InTurn DEF ServerInv, NewRootShape, Serial, Lists
<1>19. GiveShape'
  <2>1. Serial => \A q \in Request : stage[q] # "give"
      BY <1>1, NobodyGives DEF ServerInv
  <2> QED
      BY <1>3, <2>1 DEF GiveShape, Serial
<1>20. DomainShape'
    BY <1>1, <1>3, <1>0, <1>5, InTurn DEF ServerInv, DomainShape, Told, Alone
<1>21. BornShape'
    BY <1>1, <1>3, <1>0, <1>5, InTurn DEF ServerInv, BornShape, Alone, Reborn
<1> QED
    BY <1>4, <1>6, <1>7, <1>8, <1>9, <1>10, <1>11, <1>12, <1>13, <1>14, <1>15,
       <1>16, <1>17, <1>18, <1>19, <1>20, <1>21
       DEF ServerInv
(* A request comes, and is served together with those there are.               *)
LEMMA BeginsAdvances ==
    ASSUME TypeOK, StageShape, OverlapShape, NEW r \in Request,
           NEW j \in {"domain", "open"}, NEW s \in {"zshrc", "assign"}, Begins(r, j, s),
           j = "domain" <=> s = "zshrc"
    PROVE  /\ job' \in [Request -> {"none", "domain", "open"}]
           /\ stage' \in [Request -> Stage] /\ step' = step
           /\ StageShape' /\ OverlapShape' /\ overlap \subseteq overlap' /\ left' = left
           /\ pos[r] = 0 /\ pos' = [pos EXCEPT ![r] = IF j = "domain" THEN 1 ELSE 24]
           /\ pos \in [Request -> 0..24] /\ pos' \in [Request -> 0..24]
           /\ stage[r] # "give" /\ stage'[r] # "give"
           /\ \A q \in Request : q # r => stage'[q] = stage[q]
<1> USE DEF Begins
<1>1. /\ job \in [Request -> {"none", "domain", "open"}] /\ stage \in [Request -> Stage]
      /\ job[r] = "none" /\ stage[r] = "done" /\ step[r] = 1 /\ s \in Stage
  <2>1. "done" \notin Walked
      BY DEF Walked
  <2> QED
      BY <2>1 DEF TypeOK, StageShape, Stage
<1>2. /\ job' \in [Request -> {"none", "domain", "open"}] /\ stage' \in [Request -> Stage]
      /\ job'[r] = j /\ stage'[r] = s
      /\ \A q \in Request : q # r => job'[q] = job[q] /\ stage'[q] = stage[q]
    BY <1>1
<1>3. StageShape'
  <2>1. ASSUME NEW q \in Request, q # r
        PROVE  stage'[q] = stage[q] /\ step'[q] = step[q] /\ job'[q] = job[q]
      BY <2>1, <1>2
  <2>2. j = "open" => s \in Opening
      BY DEF Opening
  <2>3. j = "domain" => s \notin Opening
      BY DEF Opening
  <2>4. j # "none" /\ 1 <= 3 /\ step'[r] = 1
      BY <1>1
  <2> QED
      BY <1>2, <2>1, <2>2, <2>3, <2>4 DEF StageShape
<1>4. OverlapShape'
  <2> SUFFICES ASSUME NEW p \in Request, NEW q \in Request, p # q, Served(p)', Served(q)'
               PROVE  {job'[p], job'[q]} \in overlap'
      BY DEF OverlapShape
  <2>1. \A x \in Request : x # r => (Served(x)' <=> Served(x))
      BY <1>2 DEF Served
  <2>2. CASE p # r /\ q # r
      BY <1>2, <2>1, <2>2 DEF OverlapShape
  <2>3. CASE p = r
      BY <1>2, <2>1, <2>3
  <2>4. CASE q = r
    <3>1. {job'[p], job'[q]} = {j, job[p]}
        BY <1>2, <2>4
    <3> QED
        BY <2>1, <2>4, <3>1
  <2> QED
      BY <2>2, <2>3, <2>4
<1>5. \A q \in Request : q # r => Where(q)' = Where(q)
    BY <1>2 DEF Where
<1>6. Where(r) = 0 /\ Where(r)' = IF j = "domain" THEN 1 ELSE 24
  <2>1. Number("zshrc", step'[r]) = 1
      BY DEF Number
  <2> QED
      BY <1>1, <1>2, <2>1 DEF Where
<1>7. pos[r] = 0 /\ pos' = [pos EXCEPT ![r] = IF j = "domain" THEN 1 ELSE 24]
    BY <1>5, <1>6 DEF pos
<1>8. pos \in [Request -> 0..24] /\ pos' \in [Request -> 0..24]
  <2>1. pos \in [Request -> 0..24]
      BY PosType
  <2> QED
      BY <1>7, <2>1
<1>9. left' = left
    BY <1>1, <1>2 DEF left
<1>10. s # "give"
    OBVIOUS
<1> QED
    BY <1>1, <1>2, <1>3, <1>4, <1>7, <1>8, <1>9, <1>10

(* The walk of a change of the workspace over the components.                  *)
LEMMA GivesAdvances ==
    ASSUME TypeOK, StageShape, OverlapShape, NEW r \in Request, At(r, "give"),
           Loops(r, Components, "pick", "answer")
    PROVE  /\ job[r] = "open" /\ step[r] \in 1..5
           /\ Advances(r, 23, 23) /\ left' = [left EXCEPT ![r] = step[r] + 1]
<1>1. /\ step[r] \in 1..5 /\ stage[r] = "give" /\ stage \in [Request -> Stage]
      /\ step \in [Request -> 1..5]
    BY Orders DEF TypeOK, At
<1>2. job[r] = "open"
    BY <1>1 DEF TypeOK, StageShape, Opening
<1>3. /\ "give" \in Stage \ {"done"} /\ "pick" \in Stage /\ "answer" \in Stage
      /\ "give" \in Opening /\ "pick" \in Opening /\ "answer" \notin Opening
      /\ "answer" \notin Walked /\ "pick" \in Walked
    BY DEF Stage, Opening, Walked
<1>4. CASE step[r] = 5
  <2>1. Goes(r, "answer")
      BY <1>4, Orders DEF Loops
  <2>2. Advances(r, Number("give", step[r]), Number("answer", 1))
      BY <1>3, <2>1, GoesAdvances
  <2>3. left' = [left EXCEPT ![r] = 6]
      BY <1>1, <2>1 DEF Goes, left
  <2> QED
      BY <1>1, <1>2, <1>4, <2>2, <2>3 DEF Advances
<1>5. CASE step[r] # 5
  <2>1. /\ stage' = [stage EXCEPT ![r] = "pick"] /\ step' = [step EXCEPT ![r] = step[r] + 1]
        /\ job' = job /\ overlap' = overlap
      BY <1>5, Orders DEF Loops
  <2>2. step[r] + 1 \in 1..5
      BY <1>1, <1>5
  <2>3. Advances(r, Number("give", step[r]), Number("pick", step[r] + 1))
      BY <1>3, <2>1, <2>2, Moves
  <2>4. left' = [left EXCEPT ![r] = step[r] + 1]
      BY <1>1, <2>1 DEF left
  <2> QED
      BY <1>1, <1>2, <2>3, <2>4 DEF Advances
<1> QED
    BY <1>4, <1>5

(* Where nothing overlaps, a change of the workspace meets no restart.         *)
LEMMA NobodyRestarts ==
    ASSUME TypeOK, StageShape, OverlapShape, Serial, NEW r \in Request, job[r] = "open",
           stage[r] # "done"
    PROVE  /\ \A q \in Request : q # r => stage[q] \notin {"pick", "give"}
           /\ \A q \in Request : pos[q] \notin 1..22
<1>1. Served(r)
    BY DEF Served
<1>2. ASSUME NEW q \in Request, q # r PROVE stage[q] \notin {"pick", "give"}
  <2>1. ~Served(q)
      BY <1>1, <1>2, OnlyServed
  <2> QED
      BY <2>1 DEF Served, StageShape
<1>3. ASSUME NEW q \in Request PROVE pos[q] \notin 1..22
  <2>1. CASE q = r
      BY <2>1, Numbers
  <2>2. CASE q # r
    <3>1. ~Served(q)
        BY <1>1, <2>2, OnlyServed
    <3> QED
        BY <3>1, Numbers DEF Served
  <2> QED
      BY <2>1, <2>2
<1> QED
    BY <1>2, <1>3

(* A change of the domain comes.                                               *)
LEMMA SetDomainStep ==
    ASSUME ServerInv, NEW r \in Request, NEW d \in Domain \cup {NoDomain}, SetDomain(r, d)
    PROVE  ServerInv'
<1> USE DEF SetDomain, RestKeeps, OpenKeeps, locals, pointers, instances
<1>1. Begins(r, "domain", "zshrc")
    OBVIOUS
<1>2. /\ job' \in [Request -> {"none", "domain", "open"}]
      /\ stage' \in [Request -> Stage] /\ step' = step
      /\ StageShape' /\ OverlapShape' /\ overlap \subseteq overlap' /\ left' = left
      /\ pos[r] = 0 /\ pos' = [pos EXCEPT ![r] = 1]
      /\ pos \in [Request -> 0..24] /\ pos' \in [Request -> 0..24]
      /\ stage[r] # "give" /\ stage'[r] # "give"
      /\ \A q \in Request : q # r => stage'[q] = stage[q]
    BY <1>1, BeginsAdvances DEF ServerInv
<1>3. /\ left' = left /\ step' = step /\ overlap \subseteq overlap'
      /\ pos[r] = 0 /\ pos' = [pos EXCEPT ![r] = 1]
      /\ pos \in [Request -> 0..24] /\ pos' \in [Request -> 0..24]
      /\ stage[r] # "give" /\ stage'[r] # "give"
      /\ \A q \in Request : q # r => stage'[q] = stage[q]
    BY <1>2
<1>4. StageShape' /\ OverlapShape'
    BY <1>2
<1>5. (Alone' => Alone) /\ (Serial' => Serial)
    BY <1>3 DEF Alone, Serial
<1>s. aim' = aim /\ aim[r] = -1
  <2>1. stage[r] \notin Using /\ stage'[r] \notin Using
      BY <1>1 DEF Goes, Loops, Turns, Begins, Using, ServerInv, TypeOK, StageShape
  <2>2. \A q \in Request : q # r => slot'[q] = slot[q]
      BY DEF ServerInv, TypeOK
  <2> QED
      BY <1>3, <2>1, <2>2, AimKept
<1>6. TypeOK'
    BY <1>2 DEF ServerInv, TypeOK
<1>7. SavedShape'
    BY <1>1, <1>3, InTurn DEF ServerInv, SavedShape, Saves
<1>8. SlotShape'
    BY <1>3, <1>5, <1>s DEF ServerInv, SlotShape, Under, Alone
<1>9. UsedShape'
    BY <1>1, <1>3, InTurn DEF ServerInv, UsedShape
<1>10. FreshShape'
    BY <1>1, <1>3, FreshKept DEF ServerInv
<1>11. LinkShape'
    BY <1>1, <1>3, <1>5, InTurn DEF ServerInv, LinkShape, Alone, Links, Steers
<1>12. LiveShape'
    BY <1>1, <1>3, InTurn DEF ServerInv, LiveShape, Creates
<1>13. HeardShape'
    BY <1>1, <1>3, <1>s, InTurn DEF ServerInv, HeardShape, Creates, Adds, Listens
<1>14. ListShape'
    BY <1>1, <1>3, <1>5, InTurn DEF ServerInv, ListShape, Alone, Lists
<1>15. SoloShape'
    BY <1>1, <1>3, <1>5, InTurn DEF ServerInv, SoloShape, Alone, Creates, Saves
<1>16. OnceShape'
    BY <1>1, <1>3, <1>5, InTurn
       DEF ServerInv, OnceShape, Alone, Listens, Creates, Hears
<1>17. RootShape'
    BY <1>1, <1>3, InTurn DEF ServerInv, RootShape, Serial, Gives
<1>18. NewRootShape'
    BY <1>1, <1>3, <1>5, InTurn DEF ServerInv, NewRootShape, Serial, Lists
<1>19. GiveShape'
    BY <1>1, <1>3 DEF ServerInv, GiveShape, Serial
<1>20. DomainShape'
    BY <1>1, <1>3, <1>5, InTurn DEF ServerInv, TypeOK, DomainShape, Told, Alone
<1>21. BornShape'
    BY <1>1, <1>3, <1>5, InTurn DEF ServerInv, BornShape, Alone, Reborn
<1> QED
    BY <1>4, <1>6, <1>7, <1>8, <1>9, <1>10, <1>11, <1>12, <1>13, <1>14, <1>15,
       <1>16, <1>17, <1>18, <1>19, <1>20, <1>21
       DEF ServerInv

(* A change of the workspace comes.                                            *)
LEMMA OpenWorkspaceStep ==
    ASSUME ServerInv, NEW r \in Request, OpenWorkspace(r)
    PROVE  ServerInv'
<1> USE DEF OpenWorkspace, RestKeeps, OpenKeeps, locals, pointers, instances
<1>1. Begins(r, "open", "assign")
    OBVIOUS
<1>2. /\ job' \in [Request -> {"none", "domain", "open"}]
      /\ stage' \in [Request -> Stage] /\ step' = step
      /\ StageShape' /\ OverlapShape' /\ overlap \subseteq overlap' /\ left' = left
      /\ pos[r] = 0 /\ pos' = [pos EXCEPT ![r] = 24]
      /\ pos \in [Request -> 0..24] /\ pos' \in [Request -> 0..24]
      /\ stage[r] # "give" /\ stage'[r] # "give"
      /\ \A q \in Request : q # r => stage'[q] = stage[q]
    BY <1>1, BeginsAdvances DEF ServerInv
<1>3. /\ left' = left /\ step' = step /\ overlap \subseteq overlap'
      /\ pos[r] = 0 /\ pos' = [pos EXCEPT ![r] = 24]
      /\ pos \in [Request -> 0..24] /\ pos' \in [Request -> 0..24]
      /\ stage[r] # "give" /\ stage'[r] # "give"
      /\ \A q \in Request : q # r => stage'[q] = stage[q]
    BY <1>2
<1>4. StageShape' /\ OverlapShape'
    BY <1>2
<1>5. (Alone' => Alone) /\ (Serial' => Serial)
    BY <1>3 DEF Alone, Serial
<1>s. aim' = aim /\ aim[r] = -1
  <2>1. stage[r] \notin Using /\ stage'[r] \notin Using
      BY <1>1 DEF Goes, Loops, Turns, Begins, Using, ServerInv, TypeOK, StageShape
  <2>2. \A q \in Request : q # r => slot'[q] = slot[q]
      BY DEF ServerInv, TypeOK
  <2> QED
      BY <1>3, <2>1, <2>2, AimKept
<1>6. TypeOK'
    BY <1>2 DEF ServerInv, TypeOK
<1>7. SavedShape'
    BY <1>1, <1>3, InTurn DEF ServerInv, SavedShape, Saves
<1>8. SlotShape'
    BY <1>3, <1>5, <1>s DEF ServerInv, SlotShape, Under, Alone
<1>9. UsedShape'
    BY <1>1, <1>3, InTurn DEF ServerInv, UsedShape
<1>10. FreshShape'
    BY <1>1, <1>3, FreshKept DEF ServerInv
<1>11. LinkShape'
    BY <1>1, <1>3, <1>5, InTurn DEF ServerInv, LinkShape, Alone, Links, Steers
<1>12. LiveShape'
    BY <1>1, <1>3, InTurn DEF ServerInv, LiveShape, Creates
<1>13. HeardShape'
    BY <1>1, <1>3, <1>s, InTurn DEF ServerInv, HeardShape, Creates, Adds, Listens
<1>14. ListShape'
    BY <1>1, <1>3, <1>5, InTurn DEF ServerInv, ListShape, Alone, Lists
<1>15. SoloShape'
    BY <1>1, <1>3, <1>5, InTurn DEF ServerInv, SoloShape, Alone, Creates, Saves
<1>16. OnceShape'
    BY <1>1, <1>3, <1>5, InTurn
       DEF ServerInv, OnceShape, Alone, Listens, Creates, Hears
<1>17. RootShape'
    BY <1>1, <1>3, InTurn DEF ServerInv, RootShape, Serial, Gives
<1>18. NewRootShape'
    BY <1>1, <1>3, <1>5, InTurn DEF ServerInv, NewRootShape, Serial, Lists
<1>19. GiveShape'
    BY <1>1, <1>3 DEF ServerInv, GiveShape, Serial
<1>20. DomainShape'
    BY <1>1, <1>3, <1>5, InTurn DEF ServerInv, DomainShape, Told, Alone
<1>21. BornShape'
    BY <1>1, <1>3, <1>5, InTurn DEF ServerInv, BornShape, Alone, Reborn
<1> QED
    BY <1>4, <1>6, <1>7, <1>8, <1>9, <1>10, <1>11, <1>12, <1>13, <1>14, <1>15,
       <1>16, <1>17, <1>18, <1>19, <1>20, <1>21
       DEF ServerInv

(* The validator gets the root ...                                             *)
LEMMA OpenAssignsStep ==
    ASSUME ServerInv, NEW r \in Request, NEW w \in Root, OpenAssigns(r, w)
    PROVE  ServerInv'
<1> USE DEF OpenAssigns, RestKeeps, OpenKeeps, locals, pointers, instances
<1>1. job[r] = "open" /\ stage[r] = "assign" /\ At(r, "assign")
    BY DEF At, ServerInv, TypeOK, StageShape, Opening
<1>2. Advances(r, 23, 23) /\ left' = [left EXCEPT ![r] = 1] /\ stage'[r] = "pick"
  <2>1. /\ "assign" \in Stage \ {"done"} /\ "pick" \in Stage /\ "assign" \in Opening
        /\ "pick" \in Opening /\ "pick" \in Walked /\ 1 \in 1..5
      BY DEF Stage, Opening, Walked
  <2>2. /\ stage' = [stage EXCEPT ![r] = "pick"] /\ step' = [step EXCEPT ![r] = 1]
        /\ job' = job /\ overlap' = overlap
      BY DEF Goes
  <2>3. Advances(r, Number("assign", step[r]), Number("pick", 1))
      BY <1>1, <2>1, <2>2, Moves DEF ServerInv
  <2>4. stage \in [Request -> Stage] /\ step \in [Request -> 1..5]
      BY Orders DEF ServerInv, TypeOK
  <2>5. left' = [left EXCEPT ![r] = 1] /\ stage'[r] = "pick"
      BY <2>2, <2>4 DEF left
  <2> QED
      BY <1>1, <2>3, <2>5 DEF Advances
<1>3. /\ job' = job /\ overlap' = overlap /\ pos' = pos
      /\ stage' \in [Request -> Stage] /\ step' \in [Request -> 1..5]
      /\ \A q \in Request : q # r => stage'[q] = stage[q] /\ step'[q] = step[q]
    BY <1>1, <1>2 DEF Advances
<1>4. StageShape' /\ OverlapShape'
    BY <1>2 DEF Advances
<1>5. Serial => /\ \A q \in Request : q # r => stage[q] \notin {"pick", "give"}
                /\ \A q \in Request : pos[q] \notin 1..22
    BY <1>1, NobodyRestarts DEF ServerInv
<1>s. aim' = aim /\ aim[r] = -1
  <2>1. stage[r] \notin Using /\ stage'[r] \notin Using
      BY <1>1 DEF Goes, Loops, Turns, Begins, Using, ServerInv, TypeOK
  <2>2. \A q \in Request : q # r => slot'[q] = slot[q]
      BY DEF ServerInv, TypeOK
  <2> QED
      BY <1>3, <2>1, <2>2, AimKept
<1>6. left \in [Request -> 1..6]
    BY Orders DEF ServerInv, TypeOK, left
<1>7. TypeOK'
    BY <1>1, <1>3, Orders DEF ServerInv, TypeOK
<1>u. \A q \in Request, m \in Managed : Saves(q, m)' <=> Saves(q, m)
  <2>1. pos[r] = 24
      BY <1>1, Numbers DEF ServerInv
  <2> QED
      BY <1>3, <2>1 DEF Saves
<1>8. SavedShape' /\ UsedShape' /\ FreshShape'
    BY <1>3, <1>u DEF ServerInv, SavedShape, UsedShape, FreshShape, Creators
<1>9. LinkShape' /\ LiveShape' /\ HeardShape'
    BY <1>3, <1>s
       DEF ServerInv, LinkShape, LiveShape, HeardShape, Alone, Links, Steers, Adds, Creates,
           Listens
<1>10. ListShape' /\ SoloShape' /\ OnceShape'
    BY <1>3, <1>u
       DEF ServerInv, ListShape, SoloShape, OnceShape, Alone, Lists, Creates,
           Listens, Hears
<1>11. DomainShape' /\ BornShape'
    BY <1>3 DEF ServerInv, DomainShape, Told, BornShape, Alone, Reborn
<1>12. SlotShape'
    BY <1>3, <1>s DEF ServerInv, SlotShape, Under
<1>13. RootShape'
  <2>1. \A m \in Component : Gives(r, m)'
      BY <1>2, <1>6, Orders DEF Gives
  <2> QED
      BY <2>1 DEF RootShape
<1>14. NewRootShape'
  <2> SUFFICES ASSUME Serial, NEW q \in Request
               PROVE  pos[q] \notin 9..11 /\ \A m \in Managed : ~Lists(q, m)
      BY <1>3 DEF NewRootShape, Serial, Lists
  <2>1. pos[q] \in 0..24 /\ pos[q] \notin 1..22
      BY <1>5, PosType DEF ServerInv
  <2> QED
      BY <2>1, InTurn DEF Lists
<1>15. GiveShape'
    BY <1>2, <1>3, <1>5 DEF GiveShape, Serial
<1> QED
    BY <1>4, <1>7, <1>8, <1>9, <1>10, <1>11, <1>12, <1>13, <1>14, <1>15
       DEF ServerInv

(* ... each component is found ...                                             *)
LEMMA OpenPicksStep ==
    ASSUME ServerInv, NEW r \in Request, OpenPicks(r)
    PROVE  ServerInv'
<1> USE DEF OpenPicks, RestKeeps, OpenKeeps, locals, pointers, instances
<1>1. job[r] = "open" /\ stage[r] = "pick" /\ At(r, "pick")
    BY DEF At, ServerInv, TypeOK, StageShape, Opening
<1>2. /\ Advances(r, 23, 23) /\ left' = left /\ stage'[r] = "give" /\ step'[r] = step[r]
      /\ step[r] \in 1..5
  <2>1. "pick" \in Walked /\ "give" \in Walked /\ "give" \in Opening /\ "pick" \in Opening
      BY DEF Walked, Opening
  <2>2. Advances(r, Number("pick", step[r]), Number("give", step[r]))
      BY <1>1, <2>1, TurnsAdvances DEF ServerInv
  <2>3. stage \in [Request -> Stage] /\ step \in [Request -> 1..5]
      BY Orders DEF ServerInv, TypeOK
  <2>4. left' = left /\ stage'[r] = "give" /\ step'[r] = step[r]
      BY <1>1, <2>3 DEF left, Turns
  <2> QED
      BY <1>1, <2>2, <2>3, <2>4 DEF Advances
<1>3. /\ job' = job /\ overlap' = overlap /\ pos' = pos
      /\ stage' \in [Request -> Stage] /\ step' \in [Request -> 1..5]
      /\ \A q \in Request : q # r => stage'[q] = stage[q] /\ step'[q] = step[q]
    BY <1>1, <1>2 DEF Advances
<1>4. StageShape' /\ OverlapShape'
    BY <1>2 DEF Advances
<1>5. Serial => /\ \A q \in Request : q # r => stage[q] \notin {"pick", "give"}
                /\ \A q \in Request : pos[q] \notin 1..22
    BY <1>1, NobodyRestarts DEF ServerInv
<1>s. aim' = aim /\ aim[r] = -1
  <2>1. stage[r] \notin Using /\ stage'[r] \notin Using
      BY <1>1 DEF Goes, Loops, Turns, Begins, Using, ServerInv, TypeOK
  <2>2. \A q \in Request : q # r => slot'[q] = slot[q]
      BY DEF ServerInv, TypeOK
  <2> QED
      BY <1>3, <2>1, <2>2, AimKept
<1>6. left \in [Request -> 1..6]
    BY Orders DEF ServerInv, TypeOK, left
<1>a. /\ slot' = [slot EXCEPT ![r] = aware[Components[step[r]]]]
/\ seen' = [seen EXCEPT ![r] = root]
      /\ aware[Components[step[r]]] \in Instance
    BY <1>2, Orders DEF ServerInv, TypeOK
<1>7. TypeOK'
  <2>1. /\ slot' \in [Request -> Instance] /\ seen' \in [Request -> Root]
        /\ root \in Root
      BY <1>a DEF ServerInv, TypeOK
  <2> QED
      BY <1>3, <2>1, Orders DEF ServerInv, TypeOK

<1>u. \A q \in Request, m \in Managed : Saves(q, m)' <=> Saves(q, m)
  <2>1. pos[r] = 24
      BY <1>1, Numbers DEF ServerInv
  <2> QED
      BY <1>3, <2>1 DEF Saves
<1>8. SavedShape' /\ UsedShape' /\ FreshShape'
    BY <1>3, <1>u DEF ServerInv, SavedShape, UsedShape, FreshShape, Creators
<1>9. LinkShape' /\ LiveShape' /\ HeardShape'
    BY <1>3, <1>s
       DEF ServerInv, LinkShape, LiveShape, HeardShape, Alone, Links, Steers, Adds, Creates,
           Listens
<1>10. ListShape' /\ SoloShape' /\ OnceShape'
    BY <1>3, <1>u
       DEF ServerInv, ListShape, SoloShape, OnceShape, Alone, Lists, Creates,
           Listens, Hears
<1>11. DomainShape' /\ BornShape'
    BY <1>3 DEF ServerInv, DomainShape, Told, BornShape, Alone, Reborn
<1>12. SlotShape'
    BY <1>3, <1>s DEF ServerInv, SlotShape, Under
<1>13. RootShape'
    BY <1>2, <1>3 DEF ServerInv, RootShape, Serial, Gives
<1>14. NewRootShape'
  <2> SUFFICES ASSUME Serial, NEW q \in Request
               PROVE  pos[q] \notin 9..11 /\ \A m \in Managed : ~Lists(q, m)
      BY <1>3 DEF NewRootShape, Serial, Lists
  <2>1. pos[q] \in 0..24 /\ pos[q] \notin 1..22
      BY <1>5, PosType DEF ServerInv
  <2> QED
      BY <2>1, InTurn DEF Lists
<1>15. GiveShape'
    BY <1>2, <1>3, <1>5, <1>a DEF ServerInv, TypeOK, GiveShape, Serial
<1> QED
    BY <1>4, <1>7, <1>8, <1>9, <1>10, <1>11, <1>12, <1>13, <1>14, <1>15
       DEF ServerInv

(* ... and gets the root.                                                      *)
LEMMA OpenGivesStep ==
    ASSUME ServerInv, NEW r \in Request, OpenGives(r)
    PROVE  ServerInv'
<1> USE DEF OpenGives, RestKeeps, OpenKeeps, locals, pointers, instances
<1>1. job[r] = "open" /\ stage[r] = "give" /\ At(r, "give")
    BY DEF At, ServerInv, TypeOK, StageShape, Opening
<1>2. /\ Advances(r, 23, 23) /\ left' = [left EXCEPT ![r] = step[r] + 1] /\ step[r] \in 1..5
      /\ stage'[r] # "give"
  <2>1. Advances(r, 23, 23) /\ left' = [left EXCEPT ![r] = step[r] + 1] /\ step[r] \in 1..5
      BY <1>1, GivesAdvances DEF ServerInv
  <2>2. stage'[r] # "give"
      BY <1>1 DEF Loops, Goes, ServerInv, TypeOK
  <2> QED
      BY <2>1, <2>2
<1>3. /\ job' = job /\ overlap' = overlap /\ pos' = pos
      /\ stage' \in [Request -> Stage] /\ step' \in [Request -> 1..5]
      /\ \A q \in Request : q # r => stage'[q] = stage[q] /\ step'[q] = step[q]
    BY <1>1, <1>2 DEF Advances
<1>4. StageShape' /\ OverlapShape'
    BY <1>2 DEF Advances
<1>5. Serial => /\ \A q \in Request : q # r => stage[q] \notin {"pick", "give"}
                /\ \A q \in Request : pos[q] \notin 1..22
    BY <1>1, NobodyRestarts DEF ServerInv
<1>s. aim' = aim /\ aim[r] = -1
  <2>1. stage[r] \notin Using /\ stage'[r] \notin Using
      BY <1>1 DEF Goes, Loops, Turns, Begins, Using, ServerInv, TypeOK
  <2>2. \A q \in Request : q # r => slot'[q] = slot[q]
      BY DEF ServerInv, TypeOK
  <2> QED
      BY <1>3, <2>1, <2>2, AimKept
<1>6. left \in [Request -> 1..6]
    BY Orders DEF ServerInv, TypeOK, left
<1>a. /\ rootOf' \in [Component -> [Instance -> Root]]
      /\ \A n \in Component, h \in Instance :
            rootOf'[n][h] = IF n = Components[step[r]]
            /\ h = slot[r] THEN seen[r] ELSE rootOf[n][h]
  <2>1. /\ rootOf \in [Component -> [Instance -> Root]] /\ seen[r] \in Root
        /\ slot[r] \in Instance
      BY DEF ServerInv, TypeOK
  <2>2. Components[step[r]] \in Component
      BY <1>2, Orders
  <2> QED
      BY <2>1, <2>2, Updated
<1>7. TypeOK'
    BY <1>1, <1>3, <1>a, Orders DEF ServerInv, TypeOK
<1>u. \A q \in Request, m \in Managed : Saves(q, m)' <=> Saves(q, m)
  <2>1. pos[r] = 24
      BY <1>1, Numbers DEF ServerInv
  <2> QED
      BY <1>3, <2>1 DEF Saves
<1>8. SavedShape' /\ UsedShape' /\ FreshShape'
    BY <1>3, <1>u DEF ServerInv, SavedShape, UsedShape, FreshShape, Creators
<1>9. LinkShape' /\ LiveShape' /\ HeardShape'
    BY <1>3, <1>s
       DEF ServerInv, LinkShape, LiveShape, HeardShape, Alone, Links, Steers, Adds, Creates,
           Listens
<1>10. ListShape' /\ SoloShape' /\ OnceShape'
    BY <1>3, <1>u
       DEF ServerInv, ListShape, SoloShape, OnceShape, Alone, Lists, Creates,
           Listens, Hears
<1>11. DomainShape' /\ BornShape'
    BY <1>3 DEF ServerInv, DomainShape, Told, BornShape, Alone, Reborn
<1>12. SlotShape'
    BY <1>3, <1>s DEF ServerInv, SlotShape, Under
<1>13. RootShape'
  <2> SUFFICES ASSUME Serial, NEW m \in Component
               PROVE  rootOf'[m][aware[m]] = root \/ Gives(r, m)'
      BY <1>3 DEF RootShape, Serial
  <2>1. seen[r] = root /\ slot[r] = aware[Components[step[r]]]
      BY <1>1 DEF ServerInv, GiveShape
  <2>2. aware[m] \in Instance
      BY DEF ServerInv, TypeOK
  <2>3. CASE m = Components[step[r]]
      BY <1>a, <2>1, <2>2, <2>3
  <2>4. CASE m # Components[step[r]]
    <3>1. rootOf'[m][aware[m]] = rootOf[m][aware[m]]
        BY <1>a, <2>2, <2>4
    <3>2. rootOf[m][aware[m]] = root \/ Gives(r, m)
      <4>1. \A q \in Request : q # r => left[q] = 6
          BY <1>5 DEF left
      <4> QED
          BY <4>1, Orders DEF ServerInv, RootShape, Gives
    <3>3. Gives(r, m) => Gives(r, m)'
      <4>1. left[r] = step[r] /\ left'[r] = step[r] + 1
          BY <1>1, <1>2, <1>6 DEF left
      <4>2. Place(m) \in 1..5 /\ Place(m) # step[r]
          BY <1>2, <2>4, Orders
      <4> QED
          BY <1>2, <4>1, <4>2 DEF Gives
    <3> QED
        BY <3>1, <3>2, <3>3
  <2> QED
      BY <2>3, <2>4
<1>14. NewRootShape'
  <2> SUFFICES ASSUME Serial, NEW q \in Request
               PROVE  pos[q] \notin 9..11 /\ \A m \in Managed : ~Lists(q, m)
      BY <1>3 DEF NewRootShape, Serial, Lists
  <2>1. pos[q] \in 0..24 /\ pos[q] \notin 1..22
      BY <1>5, PosType DEF ServerInv
  <2> QED
      BY <2>1, InTurn DEF Lists
<1>15. GiveShape'
    BY <1>2, <1>3, <1>5 DEF GiveShape, Serial
<1> QED
    BY <1>4, <1>7, <1>8, <1>9, <1>10, <1>11, <1>12, <1>13, <1>14, <1>15
       DEF ServerInv
(* The request ends, and what it has saved goes.                               *)
LEMMA AnswersStep ==
    ASSUME ServerInv, NEW r \in Request, Answers(r)
    PROVE  ServerInv'
<1> USE DEF Answers, RestKeeps, locals, pointers, instances
<1>1. /\ At(r, "answer") /\ stage[r] = "answer" /\ job[r] \in {"domain", "open"}
      /\ stage \in [Request -> Stage] /\ step \in [Request -> 1..5]
    BY Orders DEF At, ServerInv, TypeOK
<1>2. Advances(r, 22, 23)
  <2>1. "answer" \in Stage \ {"done"} /\ "done" \in Stage \ {"pick", "give"}
      BY DEF Stage
  <2>2. "done" \notin Opening /\ "answer" \notin Opening /\ Goes(r, "done")
      BY DEF Opening
  <2>3. Advances(r, Number("answer", step[r]), Number("done", 1))
      BY <1>1, <2>1, <2>2, GoesAdvances DEF ServerInv
  <2> QED
      BY <2>3 DEF Number
<1>3. /\ job' = job /\ overlap' = overlap /\ left' = left
      /\ pos \in [Request -> 0..24] /\ pos' \in [Request -> 0..24]
      /\ pos[r] \in {22, 24} /\ pos'[r] \in {23, 24}
      /\ \A q \in Request : q # r => pos'[q] = pos[q]
      /\ \A q \in Request : pos[q] <= pos'[q]
      /\ stage[r] # "give" /\ stage'[r] # "give"
      /\ \A q \in Request : q # r => stage'[q] = stage[q] /\ step'[q] = step[q]
  <2>1. stage'[r] = "done"
      BY <1>1 DEF Goes
  <2>2. left' = left
      BY <1>1, <2>1 DEF Goes, left
  <2>3. job[r] = "open" => pos[r] = 24
      BY Numbers DEF ServerInv
  <2> QED
      BY <1>1, <1>2, <2>1, <2>2, <2>3 DEF Advances
<1>4. StageShape' /\ OverlapShape'
    BY <1>2 DEF Advances
<1>5. /\ old' \in [Request -> [Managed -> Instance \cup {-1}]]
      /\ \A m \in Managed : old'[r][m] = -1
      /\ \A q \in Request : q # r => old'[q] = old[q] /\ seen'[q] = seen[q]
         /\ slot'[q] = slot[q]
                                      /\ domain'[q] = domain[q]
    BY DEF ServerInv, TypeOK
<1>s. aim' = aim /\ aim[r] = -1
  <2>1. stage[r] \notin Using /\ stage'[r] \notin Using
      BY <1>1 DEF Goes, Loops, Turns, Begins, Using, ServerInv, TypeOK
  <2>2. \A q \in Request : q # r => slot'[q] = slot[q]
      BY DEF ServerInv, TypeOK
  <2> QED
      BY <1>3, <2>1, <2>2, AimKept
<1>6. TypeOK'
  <2>1. /\ stage' \in [Request -> Stage] /\ step' \in [Request -> 1..5]
      BY <1>2 DEF Advances
  <2>2. /\ domain' \in [Request -> Domain \cup {NoDomain}] /\ slot' \in [Request -> Instance]
        /\ seen' \in [Request -> Root] /\ read' \in [Request -> SUBSET Line]
    <3>1. 0 \in Instance /\ (CHOOSE w \in Root : TRUE) \in Root
        BY RootAssumption, RequestAssumption, FS_CardinalityType DEF Instance
    <3> QED
        BY <3>1 DEF ServerInv, TypeOK
  <2> QED
      BY <1>3, <1>5, <2>1, <2>2, Orders DEF ServerInv, TypeOK

<1>7. SavedShape'
    BY <1>3, <1>5 DEF ServerInv, SavedShape, Saves
<1>8. SlotShape'
    BY <1>3, <1>s DEF ServerInv, SlotShape, Under
<1>9. UsedShape'
    BY <1>5 DEF ServerInv, UsedShape
<1>10. FreshShape'
    BY <1>1, <1>3, FreshKept DEF ServerInv
<1>11. LinkShape'
    BY <1>1, <1>3, InTurn DEF ServerInv, LinkShape, Alone, Links, Steers
<1>12. LiveShape'
  <2>1. \A m \in Managed, q \in Request :
            Creates(q, m) => q # r /\ Creates(q, m)' /\ old'[q] = old[q]
      BY <1>3, <1>5, InTurn DEF Creates
  <2> QED
      BY <2>1 DEF ServerInv, LiveShape
<1>13. HeardShape'
  <2>1. \A m \in Managed, q \in Request :
            Creates(q, m) => q # r /\ Creates(q, m)' /\ old'[q] = old[q]
      BY <1>3, <1>5, InTurn DEF Creates
  <2>2. \A m \in Managed, q \in Request : Adds(q, m) => Adds(q, m)'
      BY <1>3, <1>s, InTurn DEF Adds, Listens
  <2> QED
      BY <2>1, <2>2 DEF ServerInv, HeardShape
<1>14. ListShape'
  <2>1. \A m \in Managed, q \in Request :
            Lists(q, m) => q # r /\ Lists(q, m)' /\ old'[q] = old[q]
      BY <1>3, <1>5, InTurn DEF Lists
  <2> QED
      BY <1>3, <2>1 DEF ServerInv, ListShape, Alone
<1>15. SoloShape'
  <2>1. \A m \in Managed, q \in Request :
            Creates(q, m)' \/ Saves(q, m)' =>
                q # r /\ (Creates(q, m) \/ Saves(q, m)) /\ old'[q] = old[q]
      BY <1>3, <1>5, InTurn DEF Creates, Saves
  <2> QED
      BY <1>3, <2>1 DEF ServerInv, SoloShape, Alone
<1>16. OnceShape'
  <2>1. \A m \in Managed, q \in Request :
            /\ Creates(q, m)' <=> Creates(q, m)
            /\ Listens(q, m)' <=> Listens(q, m)
            /\ Creates(q, m) => (Hears(q, m)' <=> Hears(q, m))
      BY <1>3, InTurn DEF Creates, Listens, Hears
  <2> QED
      BY <1>3, <2>1 DEF ServerInv, OnceShape, Alone
<1>17. RootShape'
    BY <1>1, <1>3, InTurn DEF ServerInv, RootShape, Serial, Gives
<1>18. NewRootShape'
  <2>1. \A m \in Managed, q \in Request : Lists(q, m)' => Lists(q, m)
      BY <1>3, InTurn DEF Lists
  <2> QED
      BY <1>3, <1>5, <2>1 DEF ServerInv, NewRootShape, Serial
<1>19. GiveShape'
    BY <1>3, <1>5 DEF ServerInv, GiveShape, Serial
<1>20. DomainShape'
    BY <1>3, <1>5 DEF ServerInv, DomainShape, Told, Alone
<1>21. BornShape'
    BY <1>1, <1>3, <1>5, InTurn DEF ServerInv, BornShape, Alone, Reborn
<1> QED
    BY <1>4, <1>6, <1>7, <1>8, <1>9, <1>10, <1>11, <1>12, <1>13, <1>14, <1>15,
       <1>16, <1>17, <1>18, <1>19, <1>20, <1>21
       DEF ServerInv
(* A fault ends the behaviour and changes nothing else.                        *)
LEMMA FaultStep ==
    ASSUME ServerInv, fault' \in {"none", "use_after_free", "data_race"},
           UNCHANGED <<place, locals, env, lines, root, pointers, instances, overlap, written>>
    PROVE  ServerInv'
<1> USE DEF place, locals, pointers, instances
<1>1. pos' = pos /\ left' = left /\ aim' = aim
    BY DEF pos, Where, left, aim
<1>2. TypeOK'
    BY DEF ServerInv, TypeOK
<1>3. StageShape' /\ OverlapShape' /\ SlotShape'
    BY <1>1 DEF ServerInv, StageShape, OverlapShape, Served, SlotShape, Under
<1>4. SavedShape' /\ UsedShape' /\ FreshShape'
    BY <1>1 DEF ServerInv, SavedShape, Saves, UsedShape, FreshShape, Creators
<1>5. LinkShape' /\ LiveShape' /\ HeardShape'
    BY <1>1 DEF ServerInv, LinkShape, LiveShape, HeardShape, Alone, Links, Steers, Adds, Creates, Listens
<1>6. ListShape' /\ SoloShape' /\ OnceShape'
    BY <1>1 DEF ServerInv, ListShape, SoloShape, OnceShape, Alone, Saves, Lists, Creates, Listens,
       Hears
<1>7. RootShape' /\ NewRootShape' /\ GiveShape'
    BY <1>1 DEF ServerInv, RootShape, NewRootShape, GiveShape, Serial, Gives, Lists
<1>8. DomainShape' /\ BornShape'
    BY <1>1 DEF ServerInv, DomainShape, Told, BornShape, Alone, Reborn
<1> QED
    BY <1>2, <1>3, <1>4, <1>5, <1>6, <1>7, <1>8 DEF ServerInv

(* At first the server has one manager of each kind, and no request.           *)
LEMMA InitServerInv == Init => ServerInv
<1> SUFFICES ASSUME Init PROVE ServerInv
    OBVIOUS
<1>1. 0 \in Instance /\ (CHOOSE w \in Root : TRUE) \in Root /\ Cardinality(Request) \in Nat
    BY RootAssumption, RequestAssumption, FS_CardinalityType DEF Instance
<1>2. /\ pos = [r \in Request |-> 0] /\ left = [r \in Request |-> 6]
      /\ aim = [r \in Request |-> -1]
    BY DEF Init, pos, Where, left, aim, Using
<1>3. TypeOK
  <2>1. Len(Components) = 5 /\ 1 \in 1..5
      BY Orders
  <2>2. /\ job \in [Request -> {"none", "domain", "open"}] /\ stage \in [Request -> Stage]
        /\ step \in [Request -> 1..Len(Components)]
        /\ domain \in [Request -> Domain \cup {NoDomain}]
        /\ old \in [Request -> [Managed -> Instance \cup {-1}]]
      BY <2>1 DEF Init, Stage
  <2>3. /\ slot \in [Request -> Instance] /\ seen \in [Request -> Root]
        /\ env \in Domain \cup {NoDomain} /\ root \in Root
        /\ lines \subseteq Line /\ read \in [Request -> SUBSET Line]
      BY <1>1, ZshrcAssumption DEF Init
  <2>4. /\ current \in [Managed -> Instance] /\ channel \in [Managed -> Instance]
        /\ controller \in Instance /\ aware \in [Component -> Instance]
      BY <1>1 DEF Init
  <2>5. /\ life \in [Component -> [Instance -> {"none", "up", "shutting", "shut"}]]
        /\ rootOf \in [Component -> [Instance -> Root]]
        /\ listens \in [Component -> [Instance -> Nat]]
      BY <1>1 DEF Init
  <2>6. written \in {"never", "whole", "cut", "failed"} /\ fault \in {"none", "use_after_free", "data_race"}
      BY DEF Init
  <2> QED
      BY <2>2, <2>3, <2>4, <2>5, <2>6 DEF TypeOK
<1>4. StageShape /\ OverlapShape /\ SlotShape
    BY <1>2 DEF Init, StageShape, OverlapShape, Served, SlotShape, Walked, Opening
<1>5. SavedShape /\ UsedShape
    BY <1>1, <1>2, InTurn DEF Init, SavedShape, Saves, UsedShape
<1>6. FreshShape
  <2> SUFFICES ASSUME NEW m \in Managed
               PROVE  \E n \in 0..Cardinality(Creators(m)) :
                          \A g \in Instance : life[m][g] # "none" <=> g <= n
      BY DEF FreshShape
  <2>1. Creators(m) \subseteq Request
      BY DEF Creators
  <2>2. Cardinality(Creators(m)) \in Nat
      BY <2>1, RequestAssumption, FS_Subset, FS_CardinalityType
  <2>3. \A g \in Instance : life[m][g] # "none" <=> g <= 0
      BY <1>1, InTurn DEF Init, Instance
  <2> QED
      BY <2>2, <2>3
<1>7. LinkShape /\ LiveShape /\ HeardShape
    BY <1>1, InTurn DEF Init, LinkShape, LiveShape, HeardShape
<1>8. ListShape /\ SoloShape /\ OnceShape
  <2>1. \A r \in Request, m \in Managed : ~Creates(r, m) /\ ~Listens(r, m) /\ ~Saves(r, m)
      BY <1>2, InTurn DEF Creates, Listens, Saves
  <2>2. \A m \in Managed : aware[m] = current[m] /\ listens[m][current[m]] = 1
      BY <1>1, InTurn DEF Init
  <2> QED
      BY <2>1, <2>2 DEF ListShape, SoloShape, OnceShape
<1>9. RootShape /\ NewRootShape /\ GiveShape
    BY <1>1, <1>2, InTurn DEF Init, RootShape, NewRootShape, GiveShape, Lists
<1>10. DomainShape /\ BornShape
    BY <1>1, <1>2, InTurn DEF Init, DomainShape, BornShape
<1> QED
    BY <1>3, <1>4, <1>5, <1>6, <1>7, <1>8, <1>9, <1>10 DEF ServerInv

(* The invariant holds in every reachable state.                               *)
THEOREM ServerInductive == Spec => []ServerInv
<1>1. ServerInv /\ [Next]_vars => ServerInv'
  <2> SUFFICES ASSUME ServerInv, [Next]_vars PROVE ServerInv'
      OBVIOUS
  <2>1. CASE UNCHANGED vars
    <3>1. UNCHANGED <<place, locals, env, lines, root, pointers, instances, overlap, written,
                      fault>>
        BY <2>1 DEF vars
    <3> QED
        BY <3>1, FaultStep DEF ServerInv, TypeOK
  <2>2. ASSUME NEW r \in Request, OpenWorkspace(r) PROVE ServerInv'
      BY <2>2, OpenWorkspaceStep
  <2>3. ASSUME NEW r \in Request, NEW d \in Domain \cup {NoDomain},
               SetDomain(r, d) PROVE ServerInv'
      BY <2>3, SetDomainStep
  <2>4. ASSUME NEW r \in Request, DomainRequest(r) PROVE ServerInv'
    <3>1. CASE RestartDangles(r)
        BY <3>1, FaultStep DEF RestartDangles
    <3> QED
      BY <2>4, <3>1, SetDomainReadsStep, SetDomainWritesStep, SetDomainFailsStep, SetDomainCutStep,
         RestartSavesStep, RestartTakesStep,         RestartShutsStep, RestartHasShutStep, RestartUnlistensStep, RestartReadsRootStep,
         RestartCreatesStep, RestartControllerStep, RestartChannelStep, RestartListensStep,
         RestartAwareStep
      DEF DomainRequest
  <2>5. ASSUME NEW r \in Request, OpenRequest(r) PROVE ServerInv'
    <3>1. CASE OpenDangles(r)
        BY <3>1, FaultStep DEF OpenDangles
    <3> QED
        BY <2>5, <3>1, OpenAssignsStep, OpenPicksStep, OpenGivesStep DEF OpenRequest
  <2>6. ASSUME NEW r \in Request, Answers(r) PROVE ServerInv'
      BY <2>6, AnswersStep
  <2>7. ASSUME NEW r \in Request, NEW q \in Request, DataRace(r, q) PROVE ServerInv'
      BY <2>7, FaultStep DEF DataRace
  <2> QED
      BY <2>1, <2>2, <2>3, <2>4, <2>5, <2>6, <2>7 DEF Next, Ended
<1> QED
    BY <1>1, InitServerInv, PTL DEF Spec

(* No request is at work: nothing is left to be done.                          *)
LEMMA QuietPositions ==
    ASSUME ServerInv, Quiet
    PROVE  /\ \A r \in Request : pos[r] \in 0..24 /\ pos[r] \notin 1..22 /\ left[r] = 6
           /\ \A r \in Request : stage[r] = "done"
           /\ \A r \in Request, m \in Managed : old[r][m] = -1
<1>1. ASSUME NEW r \in Request
      PROVE  pos[r] \in 0..24 /\ pos[r] \notin 1..22 /\ left[r] = 6 /\ stage[r] = "done"
  <2>1. stage[r] = "done"
      BY DEF Quiet, Served, ServerInv, StageShape
  <2> QED
      BY <2>1, Numbers, PosType DEF ServerInv, left
<1> QED
    BY <1>1 DEF ServerInv, SavedShape, Saves

(* restart_ros_subsystems: when no request is being served, however restarts   *)
(* overlapped, the managers the server has are up and have the channels as     *)
(* listeners; and if no two restarts were served together, the channels, the   *)
(* build controller and the list of the workspace have these managers, and     *)
(* nothing is left of those before them: no second listener, none alive.       *)
THEOREM RestartsComplete == Spec => []RestartComplete
<1>1. ServerInv => RestartComplete
  <2> SUFFICES ASSUME ServerInv, Quiet PROVE RestartComplete
      BY DEF RestartComplete
  <2>1. \A r \in Request, m \in Managed :
            /\ ~Links(r, m) /\ ~Steers(r) /\ ~Creates(r, m) /\ ~Adds(r, m) /\ ~Lists(r, m)
            /\ ~Listens(r, m) /\ old[r][m] = -1 /\ stage[r] = "done"
      BY QuietPositions, InTurn DEF Links, Steers, Creates, Adds, Listens, Lists
  <2>2. /\ current \in [Managed -> Instance] /\ channel \in [Managed -> Instance]
      BY DEF ServerInv, TypeOK
  <2>3. Alone => channel = current /\ controller = current["build"]
    <3>1. Alone => (\A m \in Managed : channel[m] = current[m]) /\ controller = current["build"]
        BY <2>1, InTurn DEF ServerInv, LinkShape
    <3> QED
        BY <2>2, <3>1
  <2>4. \A m \in Managed : listens[m][current[m]] >= 1 /\ life[m][current[m]] = "up"
      BY <2>1 DEF ServerInv, HeardShape, LiveShape
  <2>5. Alone => \A m \in Managed : aware[m] = current[m] /\ listens[m][current[m]] = 1
      BY <2>1 DEF ServerInv, ListShape, OnceShape
  <2>6. ASSUME Alone, NEW m \in Managed, NEW g \in Instance, Referenced(m, g)
        PROVE  g = current[m]
    <3>1. g # -1
        BY DEF Instance
    <3> QED
        BY <2>1, <2>3, <2>5, <2>6, <3>1 DEF Referenced
  <2> QED
      BY <2>3, <2>4, <2>5, <2>6 DEF RestartComplete, Alone
<1> QED
    BY <1>1, ServerInductive, PTL

(* handle_open_workspace: when no request is being served, and none that tells *)
(* or makes a component its root was served together with another, each one in *)
(* the list of the workspace has the root the path validator has.              *)
THEOREM RootsReachAll == Spec => []RootsAgree
<1>1. ServerInv => RootsAgree
  <2> SUFFICES ASSUME ServerInv, Quiet, Serial, NEW m \in Component
                      PROVE rootOf[m][aware[m]] = root
      BY DEF RootsAgree, Serial
  <2>1. \A r \in Request : ~Gives(r, m)
      BY QuietPositions, Orders DEF Gives
  <2> QED
      BY <2>1 DEF ServerInv, RootShape
<1> QED
    BY <1>1, ServerInductive, PTL

(* set_domain_id: when no request is being served and no two changes of the    *)
(* domain were served together, the managers were made in the domain of the    *)
(* process unless the last change could not open ~/.zshrc, and that tells it   *)
(* to shells if the last change wrote all of it, whatever it said before.      *)
THEOREM DomainsAgree == Spec => []DomainAgrees
<1>1. ServerInv => DomainAgrees
  <2> SUFFICES ASSUME ServerInv, Quiet, Alone PROVE DomainAgrees
      BY DEF DomainAgrees, Alone
  <2>1. /\ \A r \in Request : pos[r] # 2
        /\ \A r \in Request, m \in Managed : ~Reborn(r, m)
      BY QuietPositions, InTurn DEF Reborn
  <2>2. written = "whole" => Told
      BY <2>1 DEF ServerInv, DomainShape
  <2>3. written # "failed" => \A m \in Managed : bornIn[m][current[m]] = env
      BY <2>1 DEF ServerInv, BornShape
  <2> QED
      BY <2>2, <2>3 DEF DomainAgrees
<1> QED
    BY <1>1, ServerInductive, PTL

(* Every variable has its type, for any requests, workspaces and domains.      *)
THEOREM ServerTypes == Spec => []TypeOK
<1>1. ServerInv => TypeOK
    BY DEF ServerInv
<1> QED
    BY <1>1, ServerInductive, PTL

-----------------------------------------------------------------------------
(* The types the proofs need.                                                  *)
ChannelTypes ==
    /\ subs \in [Chan!Key -> SUBSET Listener]
    /\ link \in [Listener -> {"open", "closing", "removed", "gone"}]
    /\ phase \in [Event -> {"none", "told", "copied"}]
    /\ inbox \in [Event -> Chan!Count] /\ heard \in [Event -> Chan!Count]
    /\ due \in [Event -> SUBSET Listener] /\ touched \subseteq Event \X Listener
    /\ DOMAIN about = Event
    /\ \A e \in Event : phase[e] # "none" => about[e] \in Topic

(* Nobody is sent, or has heard, an event before it is copied.                 *)
NothingEarly ==
    \A e \in Event, c \in Listener :
        /\ phase[e] # "copied" => heard[e][c] = 0 /\ inbox[e][c] = 0
        /\ phase[e] = "none" => due[e] = {}

(* Whoever is owed an event is connected, and listens until it is copied.      *)
DueListens ==
    \A e \in Event : \A c \in due[e] :
        /\ link[c] = "open"
        /\ phase[e] = "told" => Chan!Listening(c, about[e])

(* The copy has each connection once, and each that is owed the event.         *)
Deliveries ==
    \A e \in Event, c \in Listener :
        /\ heard[e][c] + inbox[e][c] <= 1
        /\ phase[e] = "copied" /\ c \in due[e] => heard[e][c] + inbox[e][c] = 1

(* A connection the channel was told to forget is in no set.                   *)
Forgotten == \A c \in Listener, k \in Chan!Key : link[c] \in {"removed", "gone"}
=> c \notin subs[k]

(* Only dead connections are touched, by events that were copied.              *)
TouchedGone ==
    \A e \in Event, c \in Listener : <<e, c>> \in touched => link[c] = "gone"
    /\ phase[e] = "copied"

ChannelInv == ChannelTypes /\ NothingEarly /\ DueListens /\ Deliveries /\ Forgotten
/\ TouchedGone

-----------------------------------------------------------------------------
(* At first nobody has subscribed and no event has happened.                   *)
LEMMA InitChannelInv == Chan!Init => ChannelInv
<1> SUFFICES ASSUME Chan!Init PROVE ChannelInv
    OBVIOUS
<1>1. Chan!None \in Chan!Count /\ \A c \in Listener : Chan!None[c] = 0
    BY DEF Chan!None, Chan!Count
<1>2. ChannelTypes
    BY <1>1 DEF Chan!Init, ChannelTypes
<1>3. NothingEarly /\ Deliveries
    BY <1>1 DEF Chan!Init, NothingEarly, Deliveries
<1>4. DueListens /\ Forgotten /\ TouchedGone
    BY DEF Chan!Init, DueListens, Forgotten, TouchedGone
<1> QED
    BY <1>2, <1>3, <1>4 DEF ChannelInv

(* A new subscription takes nothing from anybody.                              *)
LEMMA SubscribeStep ==
    ASSUME ChannelInv, NEW c \in Listener, NEW k \in Chan!Key, Chan!Subscribe(c, k)
    PROVE  ChannelInv'
<1> USE DEF ChannelInv, ChannelTypes, Chan!Subscribe
<1>1. ChannelTypes'
    BY DEF Chan!Count
<1>2. \A j \in Chan!Key : subs[j] \subseteq subs'[j] /\ subs'[j] \subseteq subs[j] \cup {c}
    OBVIOUS
<1>3. NothingEarly' /\ Deliveries' /\ TouchedGone'
    BY DEF NothingEarly, Deliveries, TouchedGone
<1>4. DueListens'
    BY <1>2 DEF DueListens, Chan!Listening, Chan!Key
<1>5. Forgotten'
    BY <1>2 DEF Forgotten
<1> QED
    BY <1>1, <1>3, <1>4, <1>5

(* Who gives up the subscription an event comes under is owed it no more.      *)
LEMMA UnsubscribeStep ==
    ASSUME ChannelInv, NEW c \in Listener, NEW k \in Chan!Key, Chan!Unsubscribe(c, k)
    PROVE  ChannelInv'
<1> USE DEF ChannelInv, ChannelTypes, Chan!Unsubscribe, Chan!StillDue
<1>1. \A e \in Event : /\ due'[e] \subseteq due[e]
                       /\ c \in due'[e] => k # "all" /\ k # about[e]
    OBVIOUS
<1>2. ChannelTypes'
    OBVIOUS
<1>3. NothingEarly' /\ Deliveries' /\ TouchedGone'
    BY <1>1, <1>2 DEF NothingEarly, Deliveries, TouchedGone
<1>4. DueListens'
  <2> SUFFICES ASSUME NEW e \in Event, NEW d \in due'[e]
               PROVE  link[d] = "open" /\ (phase[e] = "told" => Chan!Listening(d, about[e])')
      BY DEF DueListens
  <2>1. link[d] = "open" /\ (phase[e] = "told" => Chan!Listening(d, about[e]))
      BY <1>1 DEF DueListens
  <2>2. \A j \in Chan!Key : d # c \/ j # k => (d \in subs'[j] <=> d \in subs[j])
      OBVIOUS
  <2>3. ASSUME phase[e] = "told" PROVE about[e] \in Chan!Key /\ "all" \in Chan!Key
      BY <2>3 DEF Chan!Key
  <2> QED
      BY <1>1, <2>1, <2>2, <2>3 DEF Chan!Listening
<1>5. Forgotten'
    BY DEF Forgotten
<1> QED
    BY <1>2, <1>3, <1>4, <1>5

(* A connection that closes is owed nothing.                                   *)
LEMMA CloseBeginsStep ==
    ASSUME ChannelInv, NEW c \in Listener, Chan!CloseBegins(c)
    PROVE  ChannelInv'
<1> USE DEF ChannelInv, ChannelTypes, Chan!CloseBegins
<1>1. ChannelTypes'
    OBVIOUS
<1>2. NothingEarly' /\ Deliveries'
    BY DEF NothingEarly, Deliveries
<1>3. DueListens' /\ Forgotten' /\ TouchedGone'
    BY DEF DueListens, Forgotten, TouchedGone, Chan!Listening
<1> QED
    BY <1>1, <1>2, <1>3

(* The channel takes the connection out of every set.                          *)
LEMMA HandleDisconnectStep ==
    ASSUME ChannelInv, NEW c \in Listener, Chan!HandleDisconnect(c)
    PROVE  ChannelInv'
<1> USE DEF ChannelInv, ChannelTypes, Chan!HandleDisconnect, Chan!Remaining
<1>1. ChannelTypes'
    OBVIOUS
<1>2. NothingEarly' /\ Deliveries' /\ TouchedGone'
    BY DEF NothingEarly, Deliveries, TouchedGone
<1>3. \A k \in Chan!Key, d \in Listener : d # c => (d \in subs'[k] <=> d \in subs[k])
    OBVIOUS
<1>4. DueListens'
    BY <1>3 DEF DueListens, Chan!Listening, Chan!Key
<1>5. Forgotten'
    BY DEF Forgotten
<1> QED
    BY <1>1, <1>2, <1>4, <1>5

(* Its destruction changes nothing the channel knows.                          *)
LEMMA DestroyedStep ==
    ASSUME ChannelInv, NEW c \in Listener, Chan!Destroyed(c)
    PROVE  ChannelInv'
<1> USE DEF ChannelInv, ChannelTypes, Chan!Destroyed
<1>1. ChannelTypes'
    OBVIOUS
<1>2. NothingEarly' /\ Deliveries'
    BY DEF NothingEarly, Deliveries
<1>3. DueListens' /\ Forgotten' /\ TouchedGone'
    BY DEF DueListens, Forgotten, TouchedGone, Chan!Listening
<1> QED
    BY <1>1, <1>2, <1>3

(* An event is owed to those who listen when the channel is told of it.        *)
LEMMA TellStep ==
    ASSUME ChannelInv, NEW e \in Event, NEW t \in Topic, Chan!Tell(e, t)
    PROVE  ChannelInv'
<1> USE DEF ChannelInv, ChannelTypes, Chan!Tell
<1>1. ChannelTypes'
    OBVIOUS
<1>2. NothingEarly' /\ Deliveries'
    BY DEF NothingEarly, Deliveries
<1>3. DueListens'
    BY DEF DueListens, Chan!Listening
<1>4. Forgotten' /\ TouchedGone'
    BY DEF Forgotten, TouchedGone
<1> QED
    BY <1>1, <1>2, <1>3, <1>4

(* The copy is made of those who listen now, who include all it is owed to.    *)
LEMMA CopyStep ==
    ASSUME ChannelInv, NEW e \in Event, Chan!Copy(e)
    PROVE  ChannelInv'
<1> USE DEF ChannelInv, ChannelTypes, Chan!Copy
<1>1. /\ inbox'[e] \in Chan!Count
      /\ \A c \in Listener : inbox'[e][c] = Chan!Entries(c, about[e]) /\ heard[e][c] = 0
    BY DEF NothingEarly, Chan!Entries, Chan!Count
<1>2. \A d \in Event : d # e => inbox'[d] = inbox[d] /\ phase'[d] = phase[d]
    OBVIOUS
<1>3. ChannelTypes'
    BY <1>1, <1>2
<1>4. NothingEarly'
    BY <1>2, <1>3 DEF NothingEarly
<1>5. Deliveries'
  <2> SUFFICES ASSUME NEW d \in Event, NEW c \in Listener
               PROVE  /\ heard[d][c] + inbox'[d][c] <= 1
                      /\ phase'[d] = "copied" /\ c \in due[d]
                            => heard[d][c] + inbox'[d][c] = 1
      BY DEF Deliveries
  <2>1. CASE d = e
      BY <2>1, <1>1 DEF DueListens, Chan!Entries
  <2>2. CASE d # e
      BY <2>2, <1>2 DEF Deliveries
  <2> QED
      BY <2>1, <2>2
<1>6. DueListens' /\ Forgotten' /\ TouchedGone'
    BY DEF DueListens, Forgotten, TouchedGone, Chan!Listening
<1> QED
    BY <1>3, <1>4, <1>5, <1>6

(* A message that is sent is heard, or touches a connection that is gone.      *)
LEMMA SendStep ==
    ASSUME ChannelInv, NEW e \in Event, NEW c \in Listener, Chan!Send(e, c)
    PROVE  ChannelInv'
<1> USE DEF ChannelInv, ChannelTypes, Chan!Send
<1>1. /\ inbox[e] \in [Listener -> Nat] /\ heard[e] \in [Listener -> Nat]
      /\ inbox[e][c] \in Nat /\ heard[e][c] \in Nat
    BY DEF Chan!Count
<1>2. inbox[e][c] = 1 /\ heard[e][c] = 0 /\ phase[e] = "copied"
  <2>1. inbox[e][c] > 0 /\ heard[e][c] + inbox[e][c] <= 1
      BY DEF Deliveries
  <2>2. phase[e] = "copied"
      BY <1>1, <2>1 DEF NothingEarly
  <2> QED
      BY <1>1, <2>1, <2>2
<1>3. /\ inbox' \in [Event -> Chan!Count] /\ inbox'[e][c] = 0
      /\ \A d \in Event, b \in Listener : d # e \/ b # c => inbox'[d][b] = inbox[d][b]
    BY <1>1, <1>2 DEF Chan!Count
<1>4. CASE link[c] = "gone"
  <2>1. ChannelTypes'
      BY <1>3, <1>4
  <2>2. c \notin due[e]
      BY <1>4 DEF DueListens
  <2>3. NothingEarly' /\ Deliveries'
      BY <1>2, <1>3, <1>4, <2>2 DEF NothingEarly, Deliveries
  <2>4. DueListens' /\ Forgotten' /\ TouchedGone'
      BY <1>2, <1>4 DEF DueListens, Forgotten, TouchedGone, Chan!Listening
  <2> QED
      BY <2>1, <2>3, <2>4
<1>5. CASE link[c] # "gone"
  <2>1. /\ heard' \in [Event -> Chan!Count] /\ heard'[e][c] = 1
        /\ \A d \in Event, b \in Listener : d # e \/ b # c => heard'[d][b] = heard[d][b]
    <3>1. heard' = [heard EXCEPT ![e] = [heard[e] EXCEPT ![c] = heard[e][c] + 1]]
        BY <1>5
    <3>2. [heard[e] EXCEPT ![c] = heard[e][c] + 1] \in Chan!Count
        BY <1>1 DEF Chan!Count
    <3> QED
        BY <1>1, <1>2, <3>1, <3>2 DEF Chan!Count
  <2>2. ChannelTypes'
      BY <1>3, <1>5, <2>1
  <2>3. NothingEarly' /\ Deliveries'
      BY <1>2, <1>3, <1>5, <2>1 DEF NothingEarly, Deliveries
  <2>4. DueListens' /\ Forgotten' /\ TouchedGone'
      BY <1>5 DEF DueListens, Forgotten, TouchedGone, Chan!Listening
  <2> QED
      BY <2>2, <2>3, <2>4
<1> QED
    BY <1>4, <1>5

-----------------------------------------------------------------------------
(* The invariant holds in every reachable state.                               *)
THEOREM ChannelInductive == Chan!Spec => []ChannelInv
<1>1. ChannelInv /\ [Chan!Next]_Chan!vars => ChannelInv'
  <2> SUFFICES ASSUME ChannelInv, [Chan!Next]_Chan!vars PROVE ChannelInv'
      OBVIOUS
  <2>1. CASE UNCHANGED Chan!vars
      BY <2>1 DEF Chan!vars, ChannelInv, ChannelTypes, NothingEarly, DueListens, Deliveries,
         Forgotten,
                  TouchedGone, Chan!Listening
  <2>2. ASSUME NEW c \in Listener, Chan!Client(c) PROVE ChannelInv'
      BY <2>2, SubscribeStep, UnsubscribeStep, CloseBeginsStep, HandleDisconnectStep,
         DestroyedStep DEF Chan!Client
  <2>3. ASSUME NEW e \in Event, Chan!Sender(e) PROVE ChannelInv'
      BY <2>3, TellStep, CopyStep, SendStep DEF Chan!Sender
  <2> QED
      BY <2>1, <2>2, <2>3 DEF Chan!Next, Chan!Ended
<1> QED
    BY <1>1, InitChannelInv, PTL DEF Chan!Spec

(* An event is about a topic from the start.                                   *)
AboutTopics == about \in [Event -> Topic]

(* Every variable has its type, for any connections, events and topics.        *)
THEOREM ChannelTypesCorrect == Chan!Spec => []Chan!TypeOK
<1>1. Chan!Init => AboutTopics
    BY TopicAssumption DEF Chan!Init, AboutTopics
<1>2. AboutTopics /\ [Chan!Next]_Chan!vars => AboutTopics'
    BY DEF AboutTopics, Chan!Next, Chan!Client, Chan!Subscribe, Chan!Unsubscribe,
       Chan!CloseBegins, Chan!HandleDisconnect,
           Chan!Destroyed, Chan!Sender, Chan!Tell, Chan!Copy, Chan!Send, Chan!Ended, Chan!vars
<1>3. ChannelInv /\ AboutTopics => Chan!TypeOK
    BY DEF ChannelInv, ChannelTypes, Chan!TypeOK, AboutTopics
<1> QED
    BY <1>1, <1>2, <1>3, ChannelInductive, PTL DEF Chan!Spec

(* broadcast: an event reaches no client twice, and each that was subscribed   *)
(* from its beginning to its copy.                                             *)
THEOREM EachHearsOnce == Chan!Spec => []HeardOnce
<1>1. ChannelInv => HeardOnce
    BY DEF ChannelInv, Deliveries, HeardOnce, Chan!HeardOnce
<1> QED
    BY <1>1, ChannelInductive, PTL

(* handle_disconnect and broadcast: a dead connection is in no set, and only   *)
(* an event copied before its end touches it.                                  *)
THEOREM NoneStale == Chan!Spec => []NoStaleSubscriber
<1>1. ChannelInv => NoStaleSubscriber
    BY DEF ChannelInv, Forgotten, TouchedGone, DueListens, NoStaleSubscriber,
       Chan!NoStaleSubscriber
<1> QED
    BY <1>1, ChannelInductive, PTL

-----------------------------------------------------------------------------
(* File watches.                                                               *)

(* The finer types of the records, and what belongs to a step.                 *)
Report == [wd : Watch!Wd, sub : Dir \cup {NoDir}, due : SUBSET (Conn \X Id)]
Note == [id : Id \cup {NoId}, to : SUBSET Conn, due : SUBSET (Conn \X Id)]
WatchCall == [id : Id \cup {NoId}, dir : Dir \cup {NoDir}, rec : BOOLEAN]
WatchTypes ==
    /\ exists \subseteq Dir /\ inotify \subseteq exists
    /\ gen \in [Dir -> Nat]
    /\ queue \in Seq(Report) /\ note \in Note
    /\ watches \subseteq Id /\ recursive \subseteq watches
    /\ wds \in [Id -> SUBSET Watch!Wd] /\ wdMap \in [Watch!Wd -> Id \cup {NoId}]
    /\ tpc \in {"wait", "notify", "send", "crashed", "done"}
    /\ running \in BOOLEAN /\ spc \in {"idle", "join", "done"}
    /\ listed \in [Id -> SUBSET Conn]
    /\ conn \in [Conn -> {"open", "closing", "gone"}]
    /\ hpc \in [Conn -> Watch!HandlerPC] /\ todo \in [Conn -> SUBSET Id]
    /\ req \in [Conn -> WatchCall]
    /\ ops \in 0..MaxOps /\ changes \in 0..MaxChanges
    /\ cover \in [Id -> SUBSET Dir] /\ users \in [Id -> SUBSET Conn]
    /\ scope \in [Id -> SUBSET Dir]
    /\ shared \subseteq Id /\ missed \subseteq Id

(* What a handler works on, and that the thread passes nothing on as it waits. *)
Working ==
    /\ \A c \in Conn :
          /\ hpc[c] \in {"watch", "register", "unwatch", "unlist"} => req[c].id \in Id
          /\ hpc[c] = "watch" => req[c].dir \in Dir
    /\ tpc \in {"notify", "send"} => note.id \in Id
    /\ tpc \in {"wait", "done"} => note = Watch!NoNote

(* Descriptors of a directory are used up by requests and by new directories,  *)
(* so that their numbers stay below the bound.                                 *)
Taken(d) == gen[d] + (IF d \in inotify THEN 1 ELSE 0)
Asking == {c \in Conn : hpc[c] = "watch"}
Counted ==
    /\ IsFiniteSet(Asking)
    /\ \A d \in Dir :
          Taken(d) + Cardinality(Asking) + Len(queue) <= ops + changes

(* A watch has descriptors that are lost, or the one of a directory it lays    *)
(* claim to; and none without its entry.                                       *)
Handed ==
    \A i \in Id : \A w \in wds[i] :
        \/ w[2] < gen[w[1]]
        \/ w[2] = gen[w[1]] /\ w[1] \in inotify /\ w[1] \in scope[i]
Kept == \A i \in Id : i \notin watches => wds[i] = {}

(* The map leads from a descriptor to a watch that has it, and claims the      *)
(* directory; and from one the kernel knows to a watch.                        *)
Mapped ==
    \A w \in Watch!Wd : wdMap[w] # NoId => w \in wds[wdMap[w]] /\ w[1] \in scope[wdMap[w]]
Owned == \A d \in inotify : wdMap[Watch!WdOf(d, gen)] \in watches

(* A recursive watch claims all there is below a directory it claims.          *)
Closed == \A i \in recursive : \A p \in scope[i] : Inside[p] \subseteq scope[i]

(* Whoever claims the same directory is known to share it, so that one who     *)
(* shares nothing has its descriptors and its connection to itself.            *)
Apart ==
    \A i, j \in Id : i # j /\ scope[i] \cap scope[j] # {} => i \in shared /\ j \in shared
Single ==
    \A i, j \in Id : i \notin shared /\ wds[i] \cap wds[j] # {} => i = j
OneUser == \A i \in Id \ shared : \A c, b \in users[i] : c = b

(* Where a connection stands with the ids it uses.                             *)
Sessions ==
    /\ \A i \in Id, c \in Conn : c \in listed[i] => conn[c] = "open" /\ c \in users[i]
    /\ \A c \in Conn : \A i \in todo[c] : hpc[c] = "cleanup" /\ c \in users[i]
    /\ \A c \in Conn : hpc[c] = "cleanup" => conn[c] = "closing"
    /\ \A c \in Conn : hpc[c] \notin {"idle", "cleanup"} => conn[c] = "open"
    /\ \A c \in Conn : hpc[c] \in {"register", "unlist"} => c \in users[req[c].id]

(* Below, of the ids that are not shared.  A directory such a watch has taken  *)
(* charge of is watched for it, as long as its client is there ...             *)
Covered ==
    \A i \in Id \ shared :
        (\E c \in users[i] : conn[c] = "open") =>
            \A d \in cover[i] : d \in inotify /\ wdMap[Watch!WdOf(d, gen)] = i

(* ... so a report that is due to the client leads to its id, where the client *)
(* is listed, until it has been passed on.                                     *)
Promised ==
    /\ \A k \in DOMAIN queue : \A c \in Conn, i \in Id \ shared :
          <<c, i>> \in queue[k].due /\ conn[c] = "open" =>
              wdMap[queue[k].wd] = i /\ c \in listed[i]
    /\ tpc = "notify" =>
          \A c \in Conn, i \in Id \ shared :
              <<c, i>> \in note.due /\ conn[c] = "open" => c \in listed[i]

(* Nothing more is due to an id that is being unlisted.                        *)
Unlisting ==
    \A c \in Conn : hpc[c] = "unlist" /\ req[c].id \notin shared =>
        LET i == req[c].id
        IN  /\ i \notin watches /\ cover[i] = {}
            /\ \A k \in DOMAIN queue, b \in Conn : <<b, i>> \notin queue[k].due
            /\ tpc = "notify" => \A b \in Conn : <<b, i>> \notin note.due

(* A watch belongs to a client that is listed, about to be, or leaving.        *)
Attended ==
    \A i \in watches \ shared : \A c \in users[i] :
        \/ c \in listed[i]
        \/ hpc[c] = "register" /\ req[c].id = i
        \/ i \in todo[c]

(* The directory of a report is below the one its descriptor is of.            *)
Reported == \A k \in DOMAIN queue : queue[k].sub \in Inside[queue[k].wd[1]] \cup {NoDir}

WatchInv ==
    /\ WatchTypes /\ Working /\ Counted
    /\ Handed /\ Kept /\ Mapped /\ Owned /\ Closed
    /\ Apart /\ Single /\ OneUser
    /\ Sessions /\ Covered /\ Promised /\ Unlisting /\ Attended /\ Reported
    /\ missed \subseteq shared

-----------------------------------------------------------------------------
(* The shapes that only speak of the manager and the kernel.                   *)
MapInv == Handed /\ Kept /\ Mapped /\ Owned /\ Closed /\ Apart /\ Single

(* A watch request finds a descriptor left for each directory.                 *)
Fits ==
    \A d \in Dir : Taken(d) <= MaxOps + MaxChanges

(* What is done to the watch i leaves those who share nothing alone.           *)
Spares(i) ==
    \A j \in (Id \ {i}) \ shared' :
        /\ wds'[j] = wds[j] /\ cover'[j] = cover[j] /\ (j \in watches' <=> j \in watches)
        /\ \A w \in Watch!Wd : wdMap[w] = j => wdMap'[w] = j
        /\ \A d \in inotify :
              Watch!WdOf(d, gen) \in wds[j] => d \in inotify' /\ gen'[d] = gen[d]

(* A directory that the kernel drops gets its next descriptor.                 *)
LEMMA NextGen ==
    ASSUME gen \in [Dir -> Nat], NEW D \in SUBSET Dir
    PROVE  /\ Watch!GenAfter(D) \in [Dir -> Nat]
           /\ \A d \in D : Watch!GenAfter(D)[d] = gen[d] + 1
           /\ \A d \in Dir \ D : Watch!GenAfter(D)[d] = gen[d]
BY DEF Watch!GenAfter

(* A descriptor names its directory and the number of its watch there.         *)
LEMMA WdOfType ==
    ASSUME gen \in [Dir -> Nat], Fits, NEW d \in Dir
    PROVE  Watch!WdOf(d, gen) \in Watch!Wd /\ Watch!WdOf(d, gen)[1] = d
           /\ Watch!WdOf(d, gen)[2] = gen[d]
BY BoundsAssumption DEF Watch!WdOf, Watch!Wd, Fits, Taken

(* A watch gives up its descriptors.                                           *)
LEMMA UnwatchedMap ==
    ASSUME WatchTypes, MapInv, Fits, NEW i \in Id, Watch!Unwatched(i), shared \subseteq shared',
           cover' = cover \/ cover' = [cover EXCEPT ![i] = {}]
    PROVE  /\ MapInv' /\ Spares(i)
           /\ gen' \in [Dir -> Nat] /\ inotify' \subseteq inotify
           /\ watches' = watches \ {i} /\ recursive' \subseteq watches'
           /\ wds' \in [Id -> SUBSET Watch!Wd] /\ wdMap' \in [Watch!Wd -> Id \cup {NoId}]
           /\ scope' \in [Id -> SUBSET Dir]
           /\ \A d \in Dir : Taken(d)' <= Taken(d)
           /\ \A w \in Watch!Wd : wdMap'[w] \in {wdMap[w], NoId} \ {i}
<1> DEFINE D == Watch!Dropped(i)
<1>1. D \subseteq inotify /\ D \subseteq Dir /\ inotify \subseteq Dir
    BY DEF Watch!Dropped, WatchTypes
<1>2. /\ gen' \in [Dir -> Nat] /\ \A d \in D : gen'[d] = gen[d] + 1
      /\ \A d \in Dir \ D : gen'[d] = gen[d]
    BY <1>1, NextGen DEF Watch!Unwatched, WatchTypes
<1> HIDE DEF D
<1>3. \A d \in inotify : d \in D <=> Watch!WdOf(d, gen) \in wds[i]
    BY DEF D, Watch!Dropped
<1>4. /\ inotify' = inotify \ D /\ watches' = watches \ {i} /\ recursive' = recursive \ {i}
      /\ wds' = [wds EXCEPT ![i] = {}] /\ scope' = [scope EXCEPT ![i] = {}]
      /\ wdMap' = [w \in Watch!Wd |-> IF w \in wds[i] THEN NoId ELSE wdMap[w]]
    BY DEF Watch!Unwatched, Watch!ErasedFromMap, D
<1>5. /\ wds \in [Id -> SUBSET Watch!Wd] /\ wdMap \in [Watch!Wd -> Id \cup {NoId}]
      /\ NoId \notin Id
      /\ scope \in [Id -> SUBSET Dir] /\ recursive \subseteq watches /\ gen \in [Dir -> Nat]
      /\ watches \subseteq Id
    BY NoneAssumption DEF WatchTypes
<1>6. /\ wds' \in [Id -> SUBSET Watch!Wd] /\ wdMap' \in [Watch!Wd -> Id \cup {NoId}]
      /\ scope' \in [Id -> SUBSET Dir] /\ recursive' \subseteq watches'
      /\ wds'[i] = {} /\ scope'[i] = {}
      /\ \A j \in Id : j # i => wds'[j] = wds[j] /\ scope'[j] = scope[j]
      /\ \A w \in Watch!Wd : wdMap'[w] = IF w \in wds[i] THEN NoId ELSE wdMap[w]
    BY <1>4, <1>5
<1>7. \A w \in Watch!Wd : wdMap'[w] \in {wdMap[w], NoId} \ {i}
    BY <1>5, <1>6 DEF MapInv, Mapped
<1>8. Handed'
  <2> SUFFICES ASSUME NEW j \in Id, NEW w \in wds'[j]
               PROVE  w[2] < gen'[w[1]] \/ (w[2] = gen'[w[1]] /\ w[1] \in inotify'
                      /\ w[1] \in scope'[j])
      BY DEF Handed
  <2>1. j # i /\ w \in wds[j] /\ w \in Watch!Wd /\ w[1] \in Dir /\ w[2] \in Nat /\ w = <<w[1],
          w[2]>>
      BY <1>5, <1>6, BoundsAssumption DEF Watch!Wd
  <2>2. w[2] < gen[w[1]] \/ (w[2] = gen[w[1]] /\ w[1] \in inotify /\ w[1] \in scope[j])
      BY <2>1 DEF MapInv, Handed
  <2>3. gen[w[1]] \in Nat /\ gen'[w[1]] \in Nat
        /\ gen'[w[1]] = IF w[1] \in D THEN gen[w[1]] + 1 ELSE gen[w[1]]
      BY <1>2, <1>5, <2>1
  <2> QED
      BY <1>4, <1>6, <2>1, <2>2, <2>3
<1>9. Kept' /\ Closed'
    BY <1>4, <1>5, <1>6 DEF MapInv, Kept, Closed
<1>10. Mapped'
    BY <1>5, <1>6 DEF MapInv, Mapped
<1>11. Owned'
  <2> SUFFICES ASSUME NEW d \in inotify' PROVE wdMap'[Watch!WdOf(d, gen')] \in watches'
      BY DEF Owned
  <2>1. /\ d \in inotify /\ d \notin D /\ Watch!WdOf(d, gen') = Watch!WdOf(d, gen)
      BY <1>1, <1>2, <1>4 DEF Watch!WdOf
  <2>2. Watch!WdOf(d, gen) \notin wds[i] /\ wdMap[Watch!WdOf(d, gen)] \in watches
      BY <1>3, <2>1 DEF MapInv, Owned
  <2>3. Watch!WdOf(d, gen) \in Watch!Wd
      BY <2>1, WdOfType DEF WatchTypes
  <2>4. wdMap'[Watch!WdOf(d, gen)] = wdMap[Watch!WdOf(d, gen)] /\ wdMap'[Watch!WdOf(d, gen)] # i
      BY <1>6, <1>7, <2>2, <2>3
  <2> QED
      BY <1>4, <2>1, <2>2, <2>4
<1>12. Apart' /\ Single'
    BY <1>5, <1>6 DEF MapInv, Apart, Single
<1>13. Spares(i)
  <2> SUFFICES ASSUME NEW j \in (Id \ {i}) \ shared'
               PROVE  /\ wds'[j] = wds[j] /\ cover'[j] = cover[j]
                      /\ (j \in watches' <=> j \in watches)
                      /\ \A w \in Watch!Wd : wdMap[w] = j => wdMap'[w] = j
                      /\ \A d \in inotify :
                            Watch!WdOf(d, gen) \in wds[j] => d \in inotify' /\ gen'[d] = gen[d]
      BY DEF Spares
  <2>1. wds[j] \cap wds[i] = {}
      BY DEF MapInv, Single
  <2>2. \A w \in Watch!Wd : wdMap[w] = j => wdMap'[w] = j
      BY <1>5, <1>6, <2>1 DEF MapInv, Mapped
  <2>3. \A d \in inotify : Watch!WdOf(d, gen) \in wds[j] => d \in inotify' /\ gen'[d] = gen[d]
      BY <1>1, <1>2, <1>3, <1>4, <2>1
  <2>4. cover'[j] = cover[j]
      BY DEF WatchTypes
  <2> QED
      BY <1>4, <1>6, <2>2, <2>3, <2>4
<1>14. \A d \in Dir : Taken(d)' <= Taken(d)
    BY <1>1, <1>2, <1>4, <1>5 DEF Taken
<1> QED
    BY <1>2, <1>4, <1>6, <1>7, <1>8, <1>9, <1>10, <1>11, <1>12, <1>13, <1>14 DEF MapInv

(* A watch of a directory lets go of what it had and takes what there is.      *)
LEMMA WatchedMap ==
    ASSUME WatchTypes, MapInv, Fits, NEW i \in Id, NEW d \in Dir, NEW rec \in BOOLEAN,
           Watch!Watched(i, d, rec), shared \subseteq shared',
           LET others == Watch!Overlapping(i, Watch!Claim(i, d, rec))
           IN  others # {} => {i} \cup others \subseteq shared'
    PROVE  /\ MapInv' /\ Spares(i)
           /\ gen' \in [Dir -> Nat] /\ inotify' \subseteq exists
           /\ watches' = watches \cup {i} /\ recursive' \subseteq watches'
           /\ wds' \in [Id -> SUBSET Watch!Wd] /\ wdMap' \in [Watch!Wd -> Id \cup {NoId}]
           /\ scope' \in [Id -> SUBSET Dir] /\ cover' \in [Id -> SUBSET Dir]
           /\ \A x \in Dir : Taken(x)' <= Taken(x) + 1
           /\ \A x \in cover'[i] : x \in inotify' /\ wdMap'[Watch!WdOf(x, gen')] = i
<1> DEFINE D == Watch!Dropped(i)
           new == Watch!Tree(d, rec) \cap exists
           newWds == {Watch!WdOf(x, gen') : x \in new}
           C == Watch!Claim(i, d, rec)
<1>1. D \subseteq inotify /\ D \subseteq Dir /\ inotify \subseteq Dir
      /\ inotify \subseteq exists
    BY DEF Watch!Dropped, WatchTypes
<1>2. /\ gen' \in [Dir -> Nat] /\ gen' = Watch!GenAfter(D)
      /\ \A x \in Dir : gen'[x] = IF x \in D THEN gen[x] + 1 ELSE gen[x]
    BY <1>1, NextGen DEF Watch!Watched, WatchTypes
<1>3. /\ new \subseteq Dir /\ new \subseteq exists /\ new \subseteq C /\ C \in SUBSET Dir
      /\ \A p \in C : i \in recursive \/ rec => Inside[p] \subseteq C
    BY TreeAssumption DEF Watch!Tree, Watch!Claim, WatchTypes
<1>4. /\ wds \in [Id -> SUBSET Watch!Wd] /\ wdMap \in [Watch!Wd -> Id \cup {NoId}]
      /\ NoId \notin Id
      /\ scope \in [Id -> SUBSET Dir] /\ recursive \subseteq watches /\ gen \in [Dir -> Nat]
      /\ watches \subseteq Id /\ cover \in [Id -> SUBSET Dir]
    BY NoneAssumption DEF WatchTypes
<1>5. \A x \in inotify : x \in D <=> Watch!WdOf(x, gen) \in wds[i]
    BY DEF Watch!Dropped
<1>6. /\ \A x \in Dir : Watch!WdOf(x, gen') \in Watch!Wd /\ Watch!WdOf(x, gen')[1] = x
         /\ Watch!WdOf(x, gen')[2] = gen'[x]
      /\ \A w \in Watch!Wd : w[1] \in Dir /\ w[2] \in Nat /\ w = <<w[1], w[2]>>
  <2>1. \A x \in Dir : gen'[x] \in 0..(MaxOps + MaxChanges)
      BY <1>1, <1>2, <1>4, BoundsAssumption DEF Fits, Taken
  <2> QED
      BY <2>1, BoundsAssumption DEF Watch!WdOf, Watch!Wd
<1>7. /\ newWds \subseteq Watch!Wd
      /\ \A w \in newWds : w[1] \in new /\ w[2] = gen'[w[1]]
      /\ \A x \in new : Watch!WdOf(x, gen') \in newWds
    BY <1>3, <1>6
<1>8. /\ inotify' = (inotify \ D) \cup new /\ watches' = watches \cup {i}
      /\ recursive' = IF rec /\ i \notin watches THEN recursive \cup {i} ELSE recursive
      /\ wds' = [wds EXCEPT ![i] = (IF i \in watches THEN wds[i] ELSE {}) \cup newWds]
      /\ scope' = [scope EXCEPT ![i] = C] /\ cover' = [cover EXCEPT ![i] = new]
      /\ wdMap' = [w \in Watch!Wd |-> IF w \in newWds THEN i
                                ELSE IF w \in wds[i] THEN NoId ELSE wdMap[w]]
    BY <1>2 DEF Watch!Watched, Watch!ErasedFromMap
<1> HIDE DEF D, new, newWds, C
<1>9. /\ wds' \in [Id -> SUBSET Watch!Wd] /\ wdMap' \in [Watch!Wd -> Id \cup {NoId}]
      /\ scope' \in [Id -> SUBSET Dir] /\ cover' \in [Id -> SUBSET Dir]
      /\ recursive' \subseteq watches' /\ watches' \subseteq Id
      /\ wds'[i] \subseteq wds[i] \cup newWds /\ newWds \subseteq wds'[i]
      /\ scope'[i] = C /\ cover'[i] = new
      /\ \A j \in Id : j # i => wds'[j] = wds[j] /\ scope'[j] = scope[j] /\ cover'[j] = cover[j]
      /\ \A w \in Watch!Wd : wdMap'[w] = IF w \in newWds THEN i
                                   ELSE IF w \in wds[i] THEN NoId ELSE wdMap[w]
    BY <1>3, <1>4, <1>7, <1>8
<1>10. ASSUME NEW j \in Id, j # i, scope[j] \cap C # {} PROVE {i, j} \subseteq shared'
  <2>1. j \in Watch!Overlapping(i, C)
      BY <1>10 DEF Watch!Overlapping
  <2> QED
      BY <2>1 DEF C
<1>11. ASSUME NEW j \in Id, j # i, newWds \cap wds[j] # {} PROVE {i, j} \subseteq shared'
  <2>1. PICK w \in newWds : w \in wds[j]
      BY <1>11
  <2>2. w[2] < gen[w[1]] \/ (w[2] = gen[w[1]] /\ w[1] \in inotify /\ w[1] \in scope[j])
      BY <2>1 DEF MapInv, Handed
  <2>3. w[1] \in new /\ w[1] \in Dir /\ w[2] = gen'[w[1]]
      BY <1>3, <1>7, <2>1
  <2>4. w[1] \in scope[j]
      BY <1>2, <1>4, <2>2, <2>3
  <2> QED
      BY <1>3, <1>10, <1>11, <2>3, <2>4
<1>12. Handed'
  <2> SUFFICES ASSUME NEW j \in Id, NEW w \in wds'[j]
               PROVE  w[2] < gen'[w[1]] \/ (w[2] = gen'[w[1]] /\ w[1] \in inotify'
                      /\ w[1] \in scope'[j])
      BY DEF Handed
  <2>2. CASE j = i /\ w \in newWds
      BY <1>3, <1>7, <1>8, <1>9, <2>2
  <2>3. CASE w \in wds[j]
    <3>1. w[2] < gen[w[1]] \/ (w[2] = gen[w[1]] /\ w[1] \in inotify /\ w[1] \in scope[j])
        BY <2>3 DEF MapInv, Handed
    <3>2. w[1] \in Dir /\ w[2] \in Nat /\ w = <<w[1], w[2]>>
        BY <1>6, <1>9
    <3>3. gen[w[1]] \in Nat /\ gen'[w[1]] \in Nat
          /\ gen'[w[1]] = IF w[1] \in D THEN gen[w[1]] + 1 ELSE gen[w[1]]
        BY <1>2, <1>4, <3>2
    <3>4. CASE w[2] < gen[w[1]]
        BY <3>2, <3>3, <3>4
    <3>5. CASE w[2] = gen[w[1]] /\ w[1] \in inotify /\ w[1] \in scope[j]
      <4>1. w = Watch!WdOf(w[1], gen)
          BY <3>2, <3>5 DEF Watch!WdOf
      <4>2. CASE w[1] \in D
          BY <3>2, <3>3, <3>5, <4>2
      <4>3. CASE w[1] \notin D
        <5>1. j # i
            BY <1>5, <2>3, <3>5, <4>1, <4>3
        <5> QED
            BY <1>8, <1>9, <3>3, <3>5, <4>3, <5>1
      <4> QED
          BY <4>2, <4>3
    <3> QED
        BY <3>1, <3>4, <3>5
  <2> QED
      BY <1>9, <2>2, <2>3
<1>13. Kept'
    BY <1>4, <1>8, <1>9 DEF MapInv, Kept
<1>14. Mapped'
    BY <1>3, <1>4, <1>7, <1>9 DEF MapInv, Mapped
<1>15. Owned'
  <2> SUFFICES ASSUME NEW x \in inotify' PROVE wdMap'[Watch!WdOf(x, gen')] \in watches'
      BY DEF Owned
  <2>1. CASE x \in new
      BY <1>7, <1>8, <1>9, <2>1
  <2>2. CASE x \notin new
    <3>1. x \in inotify /\ x \in Dir /\ x \notin D
        BY <1>1, <1>8, <2>2
    <3>2. Watch!WdOf(x, gen') = Watch!WdOf(x, gen) /\ Watch!WdOf(x, gen') \in Watch!Wd
          /\ Watch!WdOf(x, gen') \notin newWds
        BY <1>2, <1>6, <1>7, <2>2, <3>1 DEF Watch!WdOf
    <3>3. Watch!WdOf(x, gen) \notin wds[i] /\ wdMap[Watch!WdOf(x, gen)] \in watches
        BY <1>5, <3>1 DEF MapInv, Owned
    <3> QED
        BY <1>8, <1>9, <3>2, <3>3
  <2> QED
      BY <2>1, <2>2
<1>16. Closed'
  <2> SUFFICES ASSUME NEW j \in recursive', NEW p \in scope'[j]
                      PROVE Inside[p] \subseteq scope'[j]
      BY DEF Closed
  <2>1. CASE j = i
      BY <1>3, <1>8, <1>9, <2>1
  <2>2. CASE j # i
      BY <1>4, <1>8, <1>9, <2>2 DEF MapInv, Closed
  <2> QED
      BY <2>1, <2>2
<1>17. Apart'
    BY <1>9, <1>10 DEF MapInv, Apart
<1>18. Single'
  <2> SUFFICES ASSUME NEW j \in Id, NEW k \in Id, j \notin shared', wds'[j] \cap wds'[k] # {},
                      j # k
               PROVE  FALSE
      BY DEF Single
  <2>1. wds[j] \cap wds[k] = {}
      BY DEF MapInv, Single
  <2>2. CASE j = i
      BY <1>9, <1>11, <2>1, <2>2
  <2>3. CASE k = i
      BY <1>9, <1>11, <2>1, <2>3
  <2>4. CASE j # i /\ k # i
      BY <1>9, <2>1, <2>4
  <2> QED
      BY <2>2, <2>3, <2>4
<1>19. Spares(i)
  <2> SUFFICES ASSUME NEW j \in (Id \ {i}) \ shared'
               PROVE  /\ wds'[j] = wds[j] /\ cover'[j] = cover[j]
                      /\ (j \in watches' <=> j \in watches)
                      /\ \A w \in Watch!Wd : wdMap[w] = j => wdMap'[w] = j
                      /\ \A x \in inotify :
                            Watch!WdOf(x, gen) \in wds[j] => x \in inotify' /\ gen'[x] = gen[x]
      BY DEF Spares
  <2>1. wds[j] \cap wds[i] = {} /\ wds[j] \cap newWds = {}
      BY <1>11 DEF MapInv, Single
  <2>2. \A w \in Watch!Wd : wdMap[w] = j => wdMap'[w] = j
      BY <1>4, <1>9, <2>1 DEF MapInv, Mapped
  <2>3. \A x \in inotify : Watch!WdOf(x, gen) \in wds[j] => x \in inotify' /\ gen'[x] = gen[x]
      BY <1>1, <1>2, <1>5, <1>8, <2>1
  <2> QED
      BY <1>8, <1>9, <2>2, <2>3
<1>20. \A x \in Dir : Taken(x)' <= Taken(x) + 1
    BY <1>1, <1>2, <1>4, <1>8 DEF Taken
<1>21. \A x \in cover'[i] : x \in inotify' /\ wdMap'[Watch!WdOf(x, gen')] = i
    BY <1>7, <1>8, <1>9
<1>22. inotify' \subseteq exists
    BY <1>1, <1>3, <1>8
<1>23. MapInv'
    BY <1>12, <1>13, <1>14, <1>15, <1>16, <1>17, <1>18 DEF MapInv
<1> QED
    BY <1>2, <1>8, <1>9, <1>19, <1>20, <1>21, <1>22, <1>23

(* A recursive watch takes a new directory it lays claim to.                   *)
LEMMA AddedMap ==
    ASSUME WatchTypes, MapInv, Fits, NEW i \in recursive, NEW d \in exists, d \in scope[i],
           inotify' = inotify \cup {d},
           wds' = [wds EXCEPT ![i] = @ \cup {Watch!WdOf(d, gen)}],
           wdMap' = [wdMap EXCEPT ![Watch!WdOf(d, gen)] = i],
           cover' = [cover EXCEPT ![i] = @ \cup {d}],
           UNCHANGED <<gen, watches, recursive, scope, shared>>
    PROVE  /\ MapInv' /\ Spares(i)
           /\ wds' \in [Id -> SUBSET Watch!Wd] /\ wdMap' \in [Watch!Wd -> Id \cup {NoId}]
           /\ cover' \in [Id -> SUBSET Dir]
           /\ \A w \in Watch!Wd : wdMap[w] = i => wdMap'[w] = i
           /\ d \in inotify' /\ wdMap'[Watch!WdOf(d, gen)] = i /\ cover'[i] = cover[i] \cup {d}
<1> DEFINE v == Watch!WdOf(d, gen)
<1>1. /\ wds \in [Id -> SUBSET Watch!Wd] /\ wdMap \in [Watch!Wd -> Id \cup {NoId}]
      /\ NoId \notin Id
      /\ scope \in [Id -> SUBSET Dir] /\ recursive \subseteq watches /\ gen \in [Dir -> Nat]
      /\ watches \subseteq Id /\ cover \in [Id -> SUBSET Dir] /\ i \in Id /\ i \in watches
      /\ d \in Dir /\ inotify \subseteq Dir
    BY NoneAssumption DEF WatchTypes
<1>2. v \in Watch!Wd /\ v[1] = d /\ v[2] = gen[d]
    BY <1>1, WdOfType
<1> HIDE DEF v
<1>3. /\ wds' \in [Id -> SUBSET Watch!Wd] /\ wdMap' \in [Watch!Wd -> Id \cup {NoId}]
      /\ cover' \in [Id -> SUBSET Dir] /\ cover'[i] = cover[i] \cup {d}
      /\ wds'[i] = wds[i] \cup {v}
      /\ \A j \in Id : j # i => wds'[j] = wds[j] /\ cover'[j] = cover[j]
      /\ \A w \in Watch!Wd : wdMap'[w] = IF w = v THEN i ELSE wdMap[w]
    BY <1>1, <1>2 DEF v
<1>4. ASSUME NEW j \in Id, j # i, v \in wds[j] PROVE {i, j} \subseteq shared
  <2>1. d \in scope[j]
      BY <1>1, <1>2, <1>4 DEF MapInv, Handed
  <2> QED
      BY <1>1, <1>4, <2>1 DEF MapInv, Apart
<1>5. Handed'
  <2> SUFFICES ASSUME NEW j \in Id, NEW w \in wds'[j]
               PROVE  w[2] < gen[w[1]] \/ (w[2] = gen[w[1]] /\ w[1] \in inotify'
                      /\ w[1] \in scope[j])
      BY DEF Handed
  <2>1. CASE w \in wds[j]
      BY <2>1 DEF MapInv, Handed
  <2>2. CASE j = i /\ w = v
      BY <1>2, <2>2
  <2> QED
      BY <1>3, <2>1, <2>2
<1>6. Kept' /\ Closed' /\ Apart'
    BY <1>1, <1>3 DEF MapInv, Kept, Closed, Apart
<1>7. Mapped'
    BY <1>1, <1>2, <1>3 DEF MapInv, Mapped
<1>8. Owned'
  <2> SUFFICES ASSUME NEW x \in inotify' PROVE wdMap'[Watch!WdOf(x, gen)] \in watches
      BY DEF Owned
  <2>1. Watch!WdOf(x, gen) \in Watch!Wd /\ Watch!WdOf(x, gen)[1] = x
      BY <1>1, WdOfType
  <2>2. CASE Watch!WdOf(x, gen) = v
      BY <1>1, <1>3, <2>1, <2>2
  <2>3. CASE Watch!WdOf(x, gen) # v
      BY <1>3, <2>1, <2>3 DEF MapInv, Owned, v
  <2> QED
      BY <2>2, <2>3
<1>9. Single'
  <2> SUFFICES ASSUME NEW j \in Id, NEW k \in Id, j \notin shared, wds'[j] \cap wds'[k] # {},
                      j # k
               PROVE  FALSE
      BY DEF Single
  <2>1. wds[j] \cap wds[k] = {}
      BY DEF MapInv, Single
  <2>2. CASE j = i
      BY <1>3, <1>4, <2>1, <2>2
  <2>3. CASE k = i
      BY <1>3, <1>4, <2>1, <2>3
  <2>4. CASE j # i /\ k # i
      BY <1>3, <2>1, <2>4
  <2> QED
      BY <2>2, <2>3, <2>4
<1>10. Spares(i)
  <2> SUFFICES ASSUME NEW j \in (Id \ {i}) \ shared, NEW w \in Watch!Wd, wdMap[w] = j
               PROVE  wdMap'[w] = j
      BY <1>3 DEF Spares
  <2>1. w \in wds[j] /\ v \notin wds[j]
      BY <1>1, <1>4 DEF MapInv, Mapped
  <2> QED
      BY <1>3, <2>1
<1>11. MapInv'
    BY <1>5, <1>6, <1>7, <1>8, <1>9 DEF MapInv
<1> QED
    BY <1>2, <1>3, <1>10, <1>11 DEF v

(* The kernel drops the watch of a directory that is removed.                  *)
LEMMA RemovedMap ==
    ASSUME WatchTypes, MapInv, Fits, NEW d \in Dir,
           inotify' = inotify \ {d}, gen' = Watch!GenAfter(inotify \cap {d}),
           UNCHANGED <<watches, recursive, wds, wdMap, scope, shared>>
    PROVE  /\ MapInv' /\ gen' \in [Dir -> Nat]
           /\ \A x \in Dir : Taken(x)' <= Taken(x)
           /\ \A x \in Dir \ {d} : gen'[x] = gen[x]
<1>1. /\ wds \in [Id -> SUBSET Watch!Wd] /\ gen \in [Dir -> Nat] /\ inotify \subseteq Dir
    BY DEF WatchTypes
<1>2. /\ gen' \in [Dir -> Nat]
      /\ \A x \in Dir : gen'[x] = IF x = d /\ d \in inotify THEN gen[x] + 1 ELSE gen[x]
    BY <1>1, NextGen
<1>3. Handed'
  <2> SUFFICES ASSUME NEW j \in Id, NEW w \in wds[j]
               PROVE  w[2] < gen'[w[1]] \/ (w[2] = gen'[w[1]] /\ w[1] \in inotify'
                      /\ w[1] \in scope[j])
      BY DEF Handed
  <2>1. w[1] \in Dir /\ w[2] \in Nat
      BY <1>1, BoundsAssumption DEF Watch!Wd
  <2>2. w[2] < gen[w[1]] \/ (w[2] = gen[w[1]] /\ w[1] \in inotify /\ w[1] \in scope[j])
      BY DEF MapInv, Handed
  <2>3. gen[w[1]] \in Nat /\ gen'[w[1]] \in Nat
      BY <1>1, <1>2, <2>1
  <2>4. CASE w[1] = d /\ d \in inotify
    <3>1. gen'[w[1]] = gen[w[1]] + 1
        BY <1>2, <2>1, <2>4
    <3>2. w[2] <= gen[w[1]]
        BY <2>1, <2>2, <2>3
    <3> QED
        BY <2>1, <2>3, <3>1, <3>2
  <2>5. CASE ~(w[1] = d /\ d \in inotify)
    <3>1. gen'[w[1]] = gen[w[1]] /\ (w[1] \in inotify' <=> w[1] \in inotify)
        BY <1>2, <2>1, <2>5
    <3> QED
        BY <2>2, <3>1
  <2> QED
      BY <2>4, <2>5
<1>4. Kept' /\ Closed' /\ Apart' /\ Single' /\ Mapped'
    BY DEF MapInv, Kept, Closed, Apart, Single, Mapped
<1>5. Owned'
    BY <1>1, <1>2 DEF MapInv, Owned, Watch!WdOf
<1>6. \A x \in Dir : Taken(x)' <= Taken(x)
  <2> SUFFICES ASSUME NEW x \in Dir
               PROVE  Taken(x)' <= Taken(x)
      OBVIOUS
  <2>1. gen[x] \in Nat /\ gen'[x] \in Nat
      BY <1>1, <1>2
  <2>2. CASE x = d /\ d \in inotify
      BY <1>2, <2>1, <2>2 DEF Taken
  <2>3. CASE ~(x = d /\ d \in inotify)
    <3>1. gen'[x] = gen[x] /\ (x \in inotify' <=> x \in inotify)
        BY <1>2, <2>3
    <3> QED
        BY <2>1, <3>1 DEF Taken
  <2> QED
      BY <2>2, <2>3
<1> QED
    BY <1>2, <1>3, <1>4, <1>5, <1>6 DEF MapInv

-----------------------------------------------------------------------------
(* Queued reports of what is no longer due to an id.                           *)
LEMMA ForgivenQueue ==
    ASSUME queue \in Seq(Report), NEW i, Watch!Forgive(i)
    PROVE  /\ queue' \in Seq(Report) /\ Len(queue') = Len(queue) /\ DOMAIN queue' = DOMAIN queue
           /\ \A k \in DOMAIN queue :
                 /\ queue'[k].wd = queue[k].wd /\ queue'[k].sub = queue[k].sub
                 /\ queue'[k].due = {p \in queue[k].due : p[2] # i}
<1>1. DOMAIN queue = 1..Len(queue) /\ Len(queue) \in Nat
    OBVIOUS
<1>2. \A k \in 1..Len(queue) : queue[k] \in Report
    OBVIOUS
<1>3. queue' = [k \in 1..Len(queue) |-> [queue[k] EXCEPT !.due = {p \in queue[k].due : p[2] # i}]]
    BY <1>1 DEF Watch!Forgive
<1>4. \A k \in 1..Len(queue) :
          [queue[k] EXCEPT !.due = {p \in queue[k].due : p[2] # i}] \in Report
    BY <1>2 DEF Report
<1>5. queue' \in Seq(Report) /\ Len(queue') = Len(queue) /\ DOMAIN queue' = 1..Len(queue)
    BY <1>1, <1>3, <1>4
<1>6. \A k \in 1..Len(queue) :
          /\ queue'[k].wd = queue[k].wd /\ queue'[k].sub = queue[k].sub
          /\ queue'[k].due = {p \in queue[k].due : p[2] # i}
    BY <1>2, <1>3 DEF Report
<1> QED
    BY <1>1, <1>5, <1>6

(* The handlers that ask for a watch.                                          *)
LEMMA AskingAdds ==
    ASSUME IsFiniteSet(Asking), hpc \in [Conn -> Watch!HandlerPC], NEW c \in Conn,
           hpc[c] # "watch",
           hpc' = [hpc EXCEPT ![c] = "watch"]
    PROVE  IsFiniteSet(Asking') /\ Cardinality(Asking') = Cardinality(Asking) + 1
<1>1. Asking' = Asking \cup {c} /\ c \notin Asking
    BY DEF Asking
<1> QED
    BY <1>1, FS_AddElement

(* A handler that leaves its call is no longer asking for descriptors.         *)
LEMMA AskingDrops ==
    ASSUME IsFiniteSet(Asking), hpc \in [Conn -> Watch!HandlerPC], NEW c \in Conn,
           hpc[c] = "watch",
           NEW s \in Watch!HandlerPC \ {"watch"}, hpc' = [hpc EXCEPT ![c] = s]
    PROVE  IsFiniteSet(Asking') /\ Cardinality(Asking') = Cardinality(Asking) - 1
<1>1. Asking' = Asking \ {c} /\ c \in Asking
    BY DEF Asking
<1> QED
    BY <1>1, FS_RemoveElement

(* The numbers of descriptors stay below the bound.                            *)
LEMMA CountedFits ==
    ASSUME WatchTypes, Counted
    PROVE  /\ Fits /\ Cardinality(Asking) \in Nat /\ Len(queue) \in Nat
           /\ gen \in [Dir -> 0..(MaxOps + MaxChanges)] /\ \A d \in Dir : Taken(d) \in Nat
<1>1. Cardinality(Asking) \in Nat /\ Len(queue) \in Nat
    BY FS_CardinalityType DEF Counted, WatchTypes
<1>2. gen \in [Dir -> Nat] /\ ops \in 0..MaxOps /\ changes \in 0..MaxChanges
    BY DEF WatchTypes
<1>3. ASSUME NEW d \in Dir
      PROVE  /\ Taken(d) <= MaxOps + MaxChanges
             /\ gen[d] \in 0..(MaxOps + MaxChanges) /\ Taken(d) \in Nat
  <2>1. Taken(d) + Cardinality(Asking) + Len(queue) <= ops + changes
      BY DEF Counted
  <2>2. gen[d] \in Nat /\ ops <= MaxOps /\ changes <= MaxChanges /\ ops \in Nat
        /\ changes \in Nat
      BY <1>2, BoundsAssumption
  <2>3. Taken(d) \in Nat /\ gen[d] <= Taken(d)
      BY <2>2 DEF Taken
  <2> QED
      BY <1>1, <2>1, <2>2, <2>3, BoundsAssumption
<1> QED
    BY <1>1, <1>2, <1>3 DEF Fits

(* A request has been served by the manager: what the channel and the reports  *)
(* rest on.                                                                    *)
LEMMA RequestServed ==
    ASSUME WatchInv, NEW c \in Conn, NEW i \in Id, i = req[c].id,
           hpc[c] \in {"watch", "unwatch"},
           Watch!Unlocked, NEW s \in {"register", "idle", "unlist"},
           hpc' = [hpc EXCEPT ![c] = s],
           req' = IF s = "idle" THEN [req EXCEPT ![c] = Watch!NoReq] ELSE req,
           users' = [users EXCEPT ![i] = @ \cup {c}],
           shared \subseteq shared', users[i] \subseteq {c} \/ i \in shared',
           watches' \subseteq Id, Spares(i), Watch!Forgive(i),
           i \notin watches' \/ s = "register",
           s = "unlist" => cover'[i] = {},
           \A d \in cover'[i] : d \in inotify' /\ wdMap'[Watch!WdOf(d, gen')] = i,
           UNCHANGED <<Watch!thread, listed, conn, todo>>
    PROVE  /\ Working' /\ OneUser' /\ Sessions' /\ Covered' /\ Promised' /\ Unlisting'
           /\ Attended' /\ Reported'
           /\ queue' \in Seq(Report) /\ Len(queue') = Len(queue)
           /\ users' \in [Id -> SUBSET Conn] /\ hpc' \in [Conn -> Watch!HandlerPC]
           /\ req' \in [Conn -> WatchCall]
<1> USE DEF Watch!thread
<1>1. /\ queue \in Seq(Report) /\ users \in [Id -> SUBSET Conn]
      /\ hpc \in [Conn -> Watch!HandlerPC]
      /\ req \in [Conn -> WatchCall] /\ gen \in [Dir -> Nat]
      /\ wdMap \in [Watch!Wd -> Id \cup {NoId}]
      /\ cover \in [Id -> SUBSET Dir] /\ todo \in [Conn -> SUBSET Id]
      /\ listed \in [Id -> SUBSET Conn] /\ inotify \subseteq Dir
    BY DEF WatchInv, WatchTypes
<1>2. /\ queue' \in Seq(Report) /\ Len(queue') = Len(queue) /\ DOMAIN queue' = DOMAIN queue
      /\ \A k \in DOMAIN queue :
            /\ queue'[k].wd = queue[k].wd /\ queue'[k].sub = queue[k].sub
            /\ queue'[k].due = {p \in queue[k].due : p[2] # i}
    BY <1>1, ForgivenQueue
<1>3. /\ hpc' \in [Conn -> Watch!HandlerPC] /\ hpc'[c] = s
      /\ \A b \in Conn : b # c => hpc'[b] = hpc[b] /\ req'[b] = req[b]
      /\ req' \in [Conn -> WatchCall] /\ (s # "idle" => req'[c] = req[c])
    BY <1>1 DEF Watch!HandlerPC, Watch!NoReq, WatchCall
<1>4. /\ users' \in [Id -> SUBSET Conn] /\ users'[i] = users[i] \cup {c}
      /\ \A j \in Id : j # i => users'[j] = users[j]
    BY <1>1
<1>5. tpc \in {"wait", "done"}
    BY DEF Watch!Unlocked
<1>6. Working'
    BY <1>3 DEF WatchInv, Working
<1>7. OneUser'
    BY <1>4 DEF WatchInv, OneUser
<1>8. Sessions'
    BY <1>3, <1>4 DEF WatchInv, Sessions
<1>9. Covered'
  <2> SUFFICES ASSUME NEW j \in Id \ shared', NEW b \in users'[j], conn[b] = "open",
                      NEW d \in cover'[j]
               PROVE  d \in inotify' /\ wdMap'[Watch!WdOf(d, gen')] = j
      BY DEF Covered
  <2>1. CASE j = i
      BY <2>1
  <2>2. CASE j # i
    <3>1. j \in (Id \ {i}) \ shared' /\ j \in Id \ shared /\ b \in users[j]
        BY <1>4, <2>2
    <3>2. d \in cover[j]
        BY <3>1 DEF Spares
    <3>3. d \in inotify /\ wdMap[Watch!WdOf(d, gen)] = j
        BY <3>1, <3>2 DEF WatchInv, Covered
    <3>4. d \in Dir /\ Watch!WdOf(d, gen) \in Watch!Wd
        BY <1>1, <3>3, WdOfType, CountedFits DEF WatchInv
    <3>5. Watch!WdOf(d, gen) \in wds[j]
        BY <3>1, <3>3, <3>4, NoneAssumption DEF WatchInv, Mapped
    <3>6. d \in inotify' /\ gen'[d] = gen[d] /\ wdMap'[Watch!WdOf(d, gen)] = j
        BY <3>1, <3>3, <3>4, <3>5 DEF Spares
    <3> QED
        BY <3>6 DEF Watch!WdOf
  <2> QED
      BY <2>1, <2>2
<1>10. Promised'
  <2> SUFFICES ASSUME NEW k \in DOMAIN queue, NEW b \in Conn, NEW j \in Id \ shared',
                      <<b, j>> \in queue'[k].due, conn[b] = "open"
               PROVE  wdMap'[queue'[k].wd] = j /\ b \in listed[j]
      BY <1>2, <1>5 DEF Promised
  <2>1. <<b, j>> \in queue[k].due /\ j # i
      BY <1>2
  <2>2. wdMap[queue[k].wd] = j /\ b \in listed[j]
      BY <2>1 DEF WatchInv, Promised
  <2>3. queue[k] \in Report
      BY <1>1
  <2> QED
      BY <1>2, <2>1, <2>2, <2>3 DEF Spares, Report
<1>11. Unlisting'
  <2> SUFFICES ASSUME NEW b \in Conn, hpc'[b] = "unlist", req'[b].id \notin shared'
               PROVE  /\ req'[b].id \notin watches' /\ cover'[req'[b].id] = {}
                      /\ \A k \in DOMAIN queue, a \in Conn :
                            <<a, req'[b].id>> \notin queue'[k].due
      BY <1>2, <1>5 DEF Unlisting
  <2>1. CASE b = c
      BY <1>2, <1>3, <2>1
  <2>2. CASE b # c
    <3>1. hpc[b] = "unlist" /\ req'[b].id = req[b].id /\ req[b].id \in Id
          /\ b \in users[req[b].id]
        BY <1>3, <2>2 DEF WatchInv, Working, Sessions
    <3>2. req[b].id # i
        BY <2>2, <3>1
    <3>3. /\ req[b].id \notin watches /\ cover[req[b].id] = {}
          /\ \A k \in DOMAIN queue, a \in Conn : <<a, req[b].id>> \notin queue[k].due
        BY <3>1 DEF WatchInv, Unlisting
    <3>4. req[b].id \in (Id \ {i}) \ shared'
        BY <3>1, <3>2
    <3>5. req[b].id \notin watches' /\ cover'[req[b].id] = {}
        BY <3>3, <3>4 DEF Spares
    <3> QED
        BY <1>2, <3>1, <3>3, <3>5
  <2> QED
      BY <2>1, <2>2
<1>12. Attended'
  <2> SUFFICES ASSUME NEW j \in watches' \ shared', NEW b \in users'[j], j \in Id
               PROVE  b \in listed[j] \/ (hpc'[b] = "register" /\ req'[b].id = j)
                      \/ j \in todo[b]
      BY DEF Attended
  <2>1. CASE j = i
      BY <1>3, <1>4, <2>1
  <2>2. CASE j # i
      BY <1>3, <1>4, <2>2 DEF WatchInv, Attended, Spares
  <2> QED
      BY <2>1, <2>2
<1>13. Reported'
    BY <1>2 DEF WatchInv, Reported
<1> QED
    BY <1>2, <1>3, <1>4, <1>6, <1>7, <1>8, <1>9, <1>10, <1>11, <1>12, <1>13

-----------------------------------------------------------------------------
(* What a step on the maps and one request less, or no more, does to the count. *)
LEMMA CountedServed ==
    ASSUME WatchTypes, Counted, NEW c \in Conn, NEW s \in Watch!HandlerPC \ {"watch"},
           hpc' = [hpc EXCEPT ![c] = s], gen' \in [Dir -> Nat], Len(queue') = Len(queue),
           UNCHANGED <<ops, changes>>,
           \A d \in Dir : Taken(d)' <= Taken(d) + (IF hpc[c] = "watch" THEN 1 ELSE 0)
    PROVE  Counted'
<1>1. /\ hpc \in [Conn -> Watch!HandlerPC] /\ ops \in Nat /\ changes \in Nat
      /\ gen \in [Dir -> Nat]
      /\ Cardinality(Asking) \in Nat /\ Len(queue) \in Nat
    BY CountedFits, BoundsAssumption DEF WatchTypes
<1>2. /\ IsFiniteSet(Asking')
      /\ Cardinality(Asking') = Cardinality(Asking) - (IF hpc[c] = "watch" THEN 1 ELSE 0)
  <2>1. CASE hpc[c] = "watch"
      BY <1>1, <2>1, AskingDrops DEF Counted
  <2>2. CASE hpc[c] # "watch"
    <3>1. Asking' = Asking
        BY <1>1, <2>2 DEF Asking
    <3> QED
        BY <1>1, <2>2, <3>1 DEF Counted
  <2> QED
      BY <2>1, <2>2
<1>3. ASSUME NEW d \in Dir
      PROVE  Taken(d)' + Cardinality(Asking') + Len(queue') <= ops' + changes'
  <2>1. Taken(d) + Cardinality(Asking) + Len(queue) <= ops + changes
      BY DEF Counted
  <2>2. Taken(d) \in Nat /\ Taken(d)' \in Nat
      BY <1>1 DEF Taken
  <2>3. CASE hpc[c] = "watch"
      BY <1>1, <1>2, <2>1, <2>2, <2>3
  <2>4. CASE hpc[c] # "watch"
      BY <1>1, <1>2, <2>1, <2>2, <2>4
  <2> QED
      BY <2>3, <2>4
<1> QED
    BY <1>2, <1>3 DEF Counted

(* The manager accepts a watch ...                                             *)
LEMMA ManagerWatchesStep ==
    ASSUME WatchInv, NEW c \in Conn, Watch!ManagerWatches(c)
    PROVE  WatchInv'
<1> DEFINE i == req[c].id
           d == req[c].dir
           rec == req[c].rec
<1>1. /\ hpc[c] = "watch" /\ i \in Id /\ d \in Dir /\ rec \in BOOLEAN
      /\ req \in [Conn -> WatchCall]
      /\ hpc \in [Conn -> Watch!HandlerPC] /\ users \in [Id -> SUBSET Conn]
    BY DEF Watch!ManagerWatches, Watch!Goto, WatchInv, Working, WatchTypes, WatchCall
<1>2. /\ Watch!Unlocked /\ Watch!Watched(i, d, rec) /\ Watch!Forgive(i)
      /\ hpc' = [hpc EXCEPT ![c] = "register"]
      /\ users' = [users EXCEPT ![i] = @ \cup {c}]
      /\ shared' = Watch!SharedBy(c, i, Watch!Overlapping(i, Watch!Claim(i, d, rec)))
      /\ UNCHANGED <<exists, changes, Watch!thread, Watch!closing, listed, conn, req, todo,
                     ops, missed>>
    BY DEF Watch!ManagerWatches, Watch!Goto
<1> HIDE DEF i, d, rec
<1>3. /\ shared \subseteq shared' /\ (users[i] \subseteq {c} \/ i \in shared')
      /\ LET others == Watch!Overlapping(i, Watch!Claim(i, d, rec))
         IN  others # {} => {i} \cup others \subseteq shared'
    BY <1>2 DEF Watch!SharedBy
<1>4. shared' \subseteq Id
    BY <1>1, <1>2 DEF Watch!SharedBy, Watch!Overlapping, WatchInv, WatchTypes
<1>5. Fits /\ MapInv
    BY CountedFits DEF WatchInv, MapInv
<1>6. /\ MapInv' /\ Spares(i)
      /\ gen' \in [Dir -> Nat] /\ inotify' \subseteq exists
      /\ watches' = watches \cup {i} /\ recursive' \subseteq watches'
      /\ wds' \in [Id -> SUBSET Watch!Wd] /\ wdMap' \in [Watch!Wd -> Id \cup {NoId}]
      /\ scope' \in [Id -> SUBSET Dir] /\ cover' \in [Id -> SUBSET Dir]
      /\ \A x \in Dir : Taken(x)' <= Taken(x) + 1
      /\ \A x \in cover'[i] : x \in inotify' /\ wdMap'[Watch!WdOf(x, gen')] = i
    BY <1>1, <1>2, <1>3, <1>5, WatchedMap DEF WatchInv
<1>7. /\ Working' /\ OneUser' /\ Sessions' /\ Covered' /\ Promised' /\ Unlisting'
      /\ Attended' /\ Reported'
      /\ queue' \in Seq(Report) /\ Len(queue') = Len(queue)
      /\ users' \in [Id -> SUBSET Conn] /\ hpc' \in [Conn -> Watch!HandlerPC]
      /\ req' \in [Conn -> WatchCall]
  <2>1. watches' \subseteq Id
      BY <1>1, <1>6 DEF WatchInv, WatchTypes
  <2> QED
      BY <1>1, <1>2, <1>3, <1>6, <2>1, RequestServed DEF i
<1>8. Counted'
    BY <1>1, <1>2, <1>6, <1>7, CountedServed DEF WatchInv, Watch!HandlerPC
<1>9. WatchTypes' /\ missed' \subseteq shared'
    BY <1>1, <1>2, <1>3, <1>4, <1>6, <1>7 DEF WatchInv, WatchTypes, Watch!thread, Watch!closing
<1> QED
    BY <1>6, <1>7, <1>8, <1>9 DEF WatchInv, MapInv

(* ... or refuses it, and the watch there was goes ...                         *)
LEMMA UnwatchedServed ==
    ASSUME WatchInv, NEW c \in Conn, NEW i \in Id, i = req[c].id,
           hpc[c] \in {"watch", "unwatch"},
           Watch!Unlocked, Watch!Unwatched(i), Watch!Forgive(i),
           cover' = [cover EXCEPT ![i] = {}],
           NEW s \in {"idle", "unlist"}, hpc' = [hpc EXCEPT ![c] = s],
           req' = IF s = "idle" THEN [req EXCEPT ![c] = Watch!NoReq] ELSE req,
           users' = [users EXCEPT ![i] = @ \cup {c}], shared' = Watch!SharedBy(c, i, {}),
           UNCHANGED <<exists, changes, Watch!thread, Watch!closing, listed, conn, todo, ops,
                       missed>>
    PROVE  WatchInv'
<1>1. /\ shared \subseteq shared' /\ (users[i] \subseteq {c} \/ i \in shared')
      /\ shared' \subseteq Id
    BY DEF Watch!SharedBy, WatchInv, WatchTypes
<1>2. Fits /\ MapInv
    BY CountedFits DEF WatchInv, MapInv
<1>3. /\ MapInv' /\ Spares(i)
      /\ gen' \in [Dir -> Nat] /\ inotify' \subseteq inotify
      /\ watches' = watches \ {i} /\ recursive' \subseteq watches'
      /\ wds' \in [Id -> SUBSET Watch!Wd] /\ wdMap' \in [Watch!Wd -> Id \cup {NoId}]
      /\ scope' \in [Id -> SUBSET Dir]
      /\ \A x \in Dir : Taken(x)' <= Taken(x)
    BY <1>1, <1>2, UnwatchedMap DEF WatchInv
<1>4. cover' \in [Id -> SUBSET Dir] /\ cover'[i] = {} /\ watches' \subseteq Id
    BY <1>3 DEF WatchInv, WatchTypes
<1>5. /\ Working' /\ OneUser' /\ Sessions' /\ Covered' /\ Promised' /\ Unlisting'
      /\ Attended' /\ Reported'
      /\ queue' \in Seq(Report) /\ Len(queue') = Len(queue)
      /\ users' \in [Id -> SUBSET Conn] /\ hpc' \in [Conn -> Watch!HandlerPC]
      /\ req' \in [Conn -> WatchCall]
    BY <1>1, <1>3, <1>4, RequestServed
<1>6. Counted'
  <2>1. s \in Watch!HandlerPC \ {"watch"}
      BY DEF Watch!HandlerPC
  <2>2. \A x \in Dir : Taken(x)' <= Taken(x) + (IF hpc[c] = "watch" THEN 1 ELSE 0)
    <3>1. \A x \in Dir : Taken(x) \in Nat /\ Taken(x)' \in Nat
        BY <1>3 DEF WatchInv, WatchTypes, Taken
    <3> QED
        BY <1>3, <3>1
  <2> QED
      BY <1>3, <1>5, <2>1, <2>2, CountedServed DEF WatchInv
<1>7. WatchTypes' /\ missed' \subseteq shared'
    BY <1>1, <1>3, <1>4, <1>5 DEF WatchInv, WatchTypes, Watch!thread, Watch!closing
<1> QED
    BY <1>3, <1>5, <1>6, <1>7 DEF WatchInv, MapInv

(* A refused watch_path gives up the descriptors its id had before.            *)
LEMMA ManagerRefusesStep ==
    ASSUME WatchInv, NEW c \in Conn, Watch!ManagerRefuses(c)
    PROVE  WatchInv'
<1>1. hpc[c] = "watch" /\ req[c].id \in Id
    BY DEF Watch!ManagerRefuses, Watch!Goto, WatchInv, Working
<1> QED
    BY <1>1, UnwatchedServed DEF Watch!ManagerRefuses, Watch!Goto

(* unwatch of an id gives up its descriptors, or finds no such watch.         *)
LEMMA ManagerUnwatchesStep ==
    ASSUME WatchInv, NEW c \in Conn, Watch!ManagerUnwatches(c)
    PROVE  WatchInv'
<1>1. hpc[c] = "unwatch" /\ req[c].id \in Id
    BY DEF Watch!ManagerUnwatches, WatchInv, Working
<1>2. CASE req[c].id \in watches
  <2>1. req' = req
      BY <1>2 DEF Watch!ManagerUnwatches, WatchInv, WatchTypes
  <2> QED
      BY <1>1, <1>2, <2>1, UnwatchedServed DEF Watch!ManagerUnwatches
<1>3. CASE req[c].id \notin watches
    BY <1>1, <1>3, UnwatchedServed DEF Watch!ManagerUnwatches
<1> QED
    BY <1>2, <1>3

(* As long as the maps, the kernel and the claims stay as they are.            *)
LEMMA MapStays ==
    ASSUME WatchInv,
           UNCHANGED <<gen, inotify, watches, recursive, wds, wdMap, scope, shared>>
    PROVE  MapInv'
BY DEF WatchInv, MapInv, Handed, Kept, Mapped, Owned, Closed, Apart, Single, Watch!WdOf

(* A client asks for a watch or an unwatch.                                    *)
LEMMA RequestStep ==
    ASSUME WatchInv, NEW c \in Conn, hpc[c] = "idle", conn[c] = "open", ops < MaxOps,
           NEW s \in {"watch", "unwatch"}, hpc' = [hpc EXCEPT ![c] = s],
           NEW a \in WatchCall, a.id \in Id, s = "watch" => a.dir \in Dir,
           req' = [req EXCEPT ![c] = a], ops' = ops + 1,
           UNCHANGED <<Watch!disk, Watch!manager, Watch!thread, Watch!closing, listed, conn,
                       todo, Watch!history>>
    PROVE  WatchInv'
<1> USE DEF Watch!disk, Watch!manager, Watch!thread, Watch!closing, Watch!history
<1>1. /\ hpc \in [Conn -> Watch!HandlerPC] /\ req \in [Conn -> WatchCall] /\ ops \in Nat
      /\ hpc' \in [Conn -> Watch!HandlerPC] /\ req' \in [Conn -> WatchCall]
      /\ ops' \in 0..MaxOps
      /\ hpc'[c] = s /\ req'[c] = a
      /\ \A b \in Conn : b # c => hpc'[b] = hpc[b] /\ req'[b] = req[b]
  <2>1. s \in Watch!HandlerPC
      BY DEF Watch!HandlerPC
  <2> QED
      BY <2>1, BoundsAssumption DEF WatchInv, WatchTypes
<1>2. WatchTypes'
    BY <1>1 DEF WatchInv, WatchTypes
<1>3. Working' /\ Sessions'
    BY <1>1 DEF WatchInv, Working, Sessions
<1>4. Counted'
  <2>1. IsFiniteSet(Asking') /\ Cardinality(Asking') <= Cardinality(Asking) + 1
        /\ Cardinality(Asking') \in Nat
    <3>1. CASE s = "watch"
      <4>1. IsFiniteSet(Asking) /\ Cardinality(Asking) \in Nat
          BY CountedFits DEF WatchInv, Counted
      <4>2. IsFiniteSet(Asking') /\ Cardinality(Asking') = Cardinality(Asking) + 1
          BY <1>1, <3>1, <4>1, AskingAdds
      <4> QED
          BY <4>1, <4>2
    <3>2. CASE s = "unwatch"
      <4>1. Asking' = Asking
          BY <1>1, <3>2 DEF Asking
      <4> QED
          BY <4>1, CountedFits DEF WatchInv, Counted
    <3> QED
        BY <3>1, <3>2
  <2>2. /\ Cardinality(Asking) \in Nat /\ Len(queue) \in Nat /\ gen \in [Dir -> Nat]
        /\ ops \in Nat
        /\ changes \in Nat
      BY CountedFits, BoundsAssumption DEF WatchInv, WatchTypes
  <2>3. ASSUME NEW d \in Dir
        PROVE  Taken(d) + Cardinality(Asking') + Len(queue) <= ops + 1 + changes
    <3>1. Taken(d) + Cardinality(Asking) + Len(queue) <= ops + changes
        BY DEF WatchInv, Counted
    <3>2. Taken(d) \in Nat
        BY CountedFits DEF WatchInv
    <3> QED
        BY <2>1, <2>2, <3>1, <3>2
  <2>4. gen' = gen /\ inotify' = inotify
      OBVIOUS
  <2>5. \A d \in Dir : Taken(d)' = Taken(d)
      BY <2>4 DEF Taken
  <2> QED
      BY <2>1, <2>3, <2>5 DEF Counted
<1>5. MapInv' /\ OneUser' /\ Covered' /\ Promised' /\ Reported'
    BY MapStays DEF WatchInv, OneUser, Covered, Promised, Reported, Watch!WdOf
<1>6. Unlisting' /\ Attended'
    BY <1>1 DEF WatchInv, Unlisting, Attended
<1> QED
    BY <1>2, <1>3, <1>4, <1>5, <1>6 DEF WatchInv, MapInv

(* Nothing that is counted changes.                                            *)
LEMMA CountedStays ==
    ASSUME WatchInv, UNCHANGED <<gen, inotify, queue, ops, changes>>,
           \A c \in Conn : hpc'[c] = "watch" <=> hpc[c] = "watch"
    PROVE  Counted'
<1>1. Asking' = Asking
    BY DEF Asking
<1>2. gen' = gen /\ inotify' = inotify
    OBVIOUS
<1>3. \A d \in Dir : Taken(d)' = Taken(d)
    BY <1>2 DEF Taken
<1> QED
    BY <1>1, <1>3 DEF WatchInv, Counted

(* A watch is answered, and its connection listed.                             *)
LEMMA RegisterStep ==
    ASSUME WatchInv, NEW c \in Conn, Watch!Register(c)
    PROVE  WatchInv'
<1> USE DEF Watch!disk, Watch!manager, Watch!thread, Watch!closing, Watch!history
<1> DEFINE i == req[c].id
<1>1. /\ hpc[c] = "register" /\ i \in Id /\ c \in users[i] /\ conn[c] = "open"
      /\ hpc \in [Conn -> Watch!HandlerPC] /\ req \in [Conn -> WatchCall]
      /\ listed \in [Id -> SUBSET Conn]
    BY DEF Watch!Register, Watch!Goto, WatchInv, Working, Sessions, WatchTypes
<1>2. /\ hpc' = [hpc EXCEPT ![c] = "idle"] /\ req' = [req EXCEPT ![c] = Watch!NoReq]
      /\ listed' = [listed EXCEPT ![i] = @ \cup {c}]
      /\ UNCHANGED <<Watch!disk, Watch!manager, Watch!thread, Watch!closing, conn, todo, ops,
                     Watch!history>>
    BY DEF Watch!Register, Watch!Goto
<1> HIDE DEF i
<1>3. /\ hpc' \in [Conn -> Watch!HandlerPC] /\ req' \in [Conn -> WatchCall]
      /\ listed' \in [Id -> SUBSET Conn] /\ hpc'[c] = "idle"
      /\ \A b \in Conn : b # c => hpc'[b] = hpc[b] /\ req'[b] = req[b]
      /\ listed'[i] = listed[i] \cup {c}
      /\ \A j \in Id : j # i => listed'[j] = listed[j]
    BY <1>1, <1>2 DEF Watch!HandlerPC, Watch!NoReq, WatchCall
<1>4. \A j \in Id : listed[j] \subseteq listed'[j]
    BY <1>3
<1>5. WatchTypes'
    BY <1>2, <1>3 DEF WatchInv, WatchTypes
<1>6. Working' /\ Sessions'
    BY <1>1, <1>2, <1>3 DEF WatchInv, Working, Sessions
<1>7. Counted'
    BY <1>1, <1>2, <1>3, CountedStays
<1>8. MapInv' /\ OneUser' /\ Covered' /\ Reported'
    BY <1>2, MapStays DEF WatchInv, OneUser, Covered, Reported, Watch!WdOf
<1>9. Promised'
    BY <1>2, <1>4 DEF WatchInv, Promised
<1>10. Unlisting'
    BY <1>2, <1>3 DEF WatchInv, Unlisting
<1>11. Attended'
  <2> SUFFICES ASSUME NEW j \in watches \ shared, NEW b \in users[j], j \in Id, b \in Conn
               PROVE  b \in listed'[j] \/ (hpc'[b] = "register" /\ req'[b].id = j)
                      \/ j \in todo[b]
      BY <1>2 DEF Attended, WatchInv, WatchTypes
  <2>1. b \in listed[j] \/ (hpc[b] = "register" /\ req[b].id = j) \/ j \in todo[b]
      BY DEF WatchInv, Attended
  <2> QED
      BY <1>3, <1>4, <2>1 DEF i
<1> QED
    BY <1>2, <1>5, <1>6, <1>7, <1>8, <1>9, <1>10, <1>11 DEF WatchInv, MapInv

(* The list of an id goes, to which nothing is due any more.                   *)
LEMMA UnlistStep ==
    ASSUME WatchInv, NEW c \in Conn, Watch!Unlist(c)
    PROVE  WatchInv'
<1> USE DEF Watch!disk, Watch!manager, Watch!thread, Watch!closing, Watch!history
<1> DEFINE i == req[c].id
<1>1. /\ hpc[c] = "unlist" /\ i \in Id /\ conn[c] = "open"
      /\ hpc \in [Conn -> Watch!HandlerPC] /\ req \in [Conn -> WatchCall]
      /\ listed \in [Id -> SUBSET Conn]
      /\ i \notin shared =>
            /\ i \notin watches
            /\ \A k \in DOMAIN queue, b \in Conn : <<b, i>> \notin queue[k].due
            /\ tpc = "notify" => \A b \in Conn : <<b, i>> \notin note.due
    BY DEF Watch!Unlist, Watch!Goto, WatchInv, Working, Sessions, WatchTypes, Unlisting
<1>2. /\ hpc' = [hpc EXCEPT ![c] = "idle"] /\ req' = [req EXCEPT ![c] = Watch!NoReq]
      /\ listed' = [listed EXCEPT ![i] = {}]
      /\ UNCHANGED <<Watch!disk, Watch!manager, Watch!thread, Watch!closing, conn, todo, ops,
                     Watch!history>>
    BY DEF Watch!Unlist, Watch!Goto
<1> HIDE DEF i
<1>3. /\ hpc' \in [Conn -> Watch!HandlerPC] /\ req' \in [Conn -> WatchCall]
      /\ listed' \in [Id -> SUBSET Conn] /\ hpc'[c] = "idle"
      /\ \A b \in Conn : b # c => hpc'[b] = hpc[b] /\ req'[b] = req[b]
      /\ listed'[i] = {} /\ \A j \in Id : j # i => listed'[j] = listed[j]
    BY <1>1, <1>2 DEF Watch!HandlerPC, Watch!NoReq, WatchCall
<1>4. WatchTypes'
    BY <1>2, <1>3 DEF WatchInv, WatchTypes
<1>5. Working' /\ Sessions'
    BY <1>1, <1>2, <1>3 DEF WatchInv, Working, Sessions
<1>6. Counted'
    BY <1>1, <1>2, <1>3, CountedStays
<1>7. MapInv' /\ OneUser' /\ Covered' /\ Reported'
    BY <1>2, MapStays DEF WatchInv, OneUser, Covered, Reported, Watch!WdOf
<1>8. Promised'
    BY <1>1, <1>2, <1>3 DEF WatchInv, Promised
<1>9. Unlisting'
    BY <1>2, <1>3 DEF WatchInv, Unlisting
<1>10. Attended'
  <2> SUFFICES ASSUME NEW j \in watches \ shared, NEW b \in users[j], j \in Id, b \in Conn
               PROVE  b \in listed'[j] \/ (hpc'[b] = "register" /\ req'[b].id = j)
                      \/ j \in todo[b]
      BY <1>2 DEF Attended, WatchInv, WatchTypes
  <2>1. b \in listed[j] \/ (hpc[b] = "register" /\ req[b].id = j) \/ j \in todo[b]
      BY DEF WatchInv, Attended
  <2> QED
      BY <1>1, <1>3, <2>1
<1> QED
    BY <1>2, <1>4, <1>5, <1>6, <1>7, <1>8, <1>9, <1>10 DEF WatchInv, MapInv

(* A connection leaves every list; it cleans up the ids that were its own.     *)
LEMMA DisconnectStep ==
    ASSUME WatchInv, NEW c \in Conn, Watch!Disconnect(c)
    PROVE  WatchInv'
<1> USE DEF Watch!disk, Watch!manager, Watch!thread, Watch!closing, Watch!history
<1>1. /\ hpc[c] = "idle" /\ conn[c] = "open" /\ conn \in [Conn -> {"open", "closing", "gone"}]
      /\ hpc \in [Conn -> Watch!HandlerPC] /\ todo \in [Conn -> SUBSET Id]
      /\ listed \in [Id -> SUBSET Conn] /\ users \in [Id -> SUBSET Conn]
    BY DEF Watch!Disconnect, Watch!Ready, WatchInv, WatchTypes
<1>2. /\ hpc' = [hpc EXCEPT ![c] = "cleanup"] /\ conn' = [conn EXCEPT ![c] = "closing"]
      /\ listed' = [i \in Id |-> listed[i] \ {c}]
      /\ todo' = [todo EXCEPT ![c] = Watch!OnlyOn(c)]
      /\ UNCHANGED <<Watch!disk, Watch!manager, Watch!thread, Watch!closing, req, ops,
                     Watch!history>>
    BY DEF Watch!Disconnect, Watch!Goto
<1>3. /\ hpc' \in [Conn -> Watch!HandlerPC] /\ conn' \in [Conn -> {"open", "closing", "gone"}]
      /\ listed' \in [Id -> SUBSET Conn] /\ todo' \in [Conn -> SUBSET Id]
      /\ hpc'[c] = "cleanup" /\ conn'[c] = "closing" /\ todo'[c] = Watch!OnlyOn(c)
      /\ \A b \in Conn : b # c => hpc'[b] = hpc[b] /\ conn'[b] = conn[b] /\ todo'[b] = todo[b]
      /\ \A j \in Id : listed'[j] = listed[j] \ {c}
    BY <1>1, <1>2 DEF Watch!HandlerPC, Watch!OnlyOn
<1>4. WatchTypes'
    BY <1>2, <1>3 DEF WatchInv, WatchTypes
<1>5. Working' /\ Sessions'
    BY <1>1, <1>2, <1>3 DEF WatchInv, Working, Sessions, Watch!OnlyOn
<1>6. Counted'
    BY <1>1, <1>2, <1>3, CountedStays
<1>7. MapInv' /\ OneUser' /\ Reported'
    BY <1>2, MapStays DEF WatchInv, OneUser, Reported
<1>8. \A b \in Conn : conn'[b] = "open" => b # c /\ conn[b] = "open"
    BY <1>3
<1>9. Covered'
  <2>1. \A i \in Id : users[i] \subseteq Conn
      BY <1>1
  <2> QED
      BY <1>2, <1>8, <2>1 DEF WatchInv, Covered, Watch!WdOf
<1>10. Promised'
    BY <1>2, <1>3, <1>8 DEF WatchInv, Promised
<1>11. Unlisting'
    BY <1>2, <1>3 DEF WatchInv, Unlisting
<1>12. Attended'
  <2> SUFFICES ASSUME NEW j \in watches \ shared, NEW b \in users[j], j \in Id, b \in Conn
               PROVE  b \in listed'[j] \/ (hpc'[b] = "register" /\ req[b].id = j)
                      \/ j \in todo'[b]
      BY <1>2 DEF Attended, WatchInv, WatchTypes
  <2>1. b \in listed[j] \/ (hpc[b] = "register" /\ req[b].id = j) \/ j \in todo[b]
      BY DEF WatchInv, Attended
  <2>2. CASE b # c
      BY <1>3, <2>1, <2>2
  <2>3. CASE b = c
    <3>1. c \in listed[j]
        BY <1>1, <2>1, <2>3 DEF WatchInv, Sessions
    <3>2. listed[j] \subseteq users[j]
        BY <1>1 DEF WatchInv, Sessions
    <3>3. listed[j] = {c}
        BY <2>3, <3>1, <3>2 DEF WatchInv, OneUser
    <3> QED
        BY <1>3, <2>3, <3>3 DEF Watch!OnlyOn
  <2> QED
      BY <2>2, <2>3
<1> QED
    BY <1>2, <1>4, <1>5, <1>6, <1>7, <1>9, <1>10, <1>11, <1>12 DEF WatchInv, MapInv

(* It has the manager end one of the watches of an id ...                      *)
LEMMA CleanUpStep ==
    ASSUME WatchInv, NEW c \in Conn, NEW i \in Id, Watch!CleanUp(c, i)
    PROVE  WatchInv'
<1> USE DEF Watch!thread, Watch!closing
<1>1. /\ hpc[c] = "cleanup" /\ i \in todo[c] /\ c \in users[i] /\ conn[c] = "closing"
      /\ todo \in [Conn -> SUBSET Id] /\ users \in [Id -> SUBSET Conn] /\ inotify \subseteq Dir
      /\ gen \in [Dir -> Nat] /\ wdMap \in [Watch!Wd -> Id \cup {NoId}] /\ queue \in Seq(Report)
      /\ cover \in [Id -> SUBSET Dir]
    BY DEF Watch!CleanUp, WatchInv, Sessions, WatchTypes
<1>2. /\ Watch!Unlocked /\ Watch!Unwatched(i) /\ todo' = [todo EXCEPT ![c] = @ \ {i}]
      /\ UNCHANGED <<exists, queue, changes, Watch!thread, Watch!closing, listed, conn, hpc,
                     req,
                     ops, cover, shared, users, missed>>
    BY DEF Watch!CleanUp
<1>3. Fits /\ MapInv
    BY CountedFits DEF WatchInv, MapInv
<1>4. /\ MapInv' /\ Spares(i)
      /\ gen' \in [Dir -> Nat] /\ inotify' \subseteq inotify
      /\ watches' = watches \ {i} /\ recursive' \subseteq watches'
      /\ wds' \in [Id -> SUBSET Watch!Wd] /\ wdMap' \in [Watch!Wd -> Id \cup {NoId}]
      /\ scope' \in [Id -> SUBSET Dir]
      /\ \A x \in Dir : Taken(x)' <= Taken(x)
    BY <1>2, <1>3, UnwatchedMap DEF WatchInv
<1>5. /\ todo' \in [Conn -> SUBSET Id] /\ todo'[c] = todo[c] \ {i}
      /\ \A b \in Conn : b # c => todo'[b] = todo[b]
    BY <1>1, <1>2
<1>6. WatchTypes'
    BY <1>2, <1>4, <1>5 DEF WatchInv, WatchTypes
<1>7. Working' /\ Sessions' /\ OneUser' /\ Reported'
    BY <1>2, <1>5 DEF WatchInv, Working, Sessions, OneUser, Reported
<1>8. Counted'
  <2>1. Asking' = Asking
      BY <1>2 DEF Asking
  <2>2. ASSUME NEW d \in Dir
        PROVE  Taken(d)' + Cardinality(Asking) + Len(queue) <= ops + changes
    <3>1. Taken(d) + Cardinality(Asking) + Len(queue) <= ops + changes
        BY DEF WatchInv, Counted
    <3>2. /\ Taken(d) \in Nat /\ Taken(d)' \in Nat /\ Cardinality(Asking) \in Nat
          /\ Len(queue) \in Nat /\ ops \in Nat /\ changes \in Nat
        BY <1>4, CountedFits, BoundsAssumption DEF WatchInv, WatchTypes, Taken
    <3>3. Taken(d)' <= Taken(d)
        BY <1>4
    <3> QED
        BY <3>1, <3>2, <3>3
  <2> QED
      BY <1>2, <2>1, <2>2 DEF WatchInv, Counted
<1>9. i \notin shared => users[i] = {c}
    BY <1>1 DEF WatchInv, OneUser
<1>10. Covered'
  <2> SUFFICES ASSUME NEW j \in Id \ shared, NEW b \in users[j], conn[b] = "open",
                      NEW d \in cover[j]
               PROVE  d \in inotify' /\ wdMap'[Watch!WdOf(d, gen')] = j
      BY <1>2 DEF Covered
  <2>1. j # i
      BY <1>1, <1>9
  <2>2. d \in Dir /\ d \in inotify /\ wdMap[Watch!WdOf(d, gen)] = j
      BY <1>1 DEF WatchInv, Covered
  <2>3. Watch!WdOf(d, gen) \in Watch!Wd
      BY <1>1, <1>3, <2>2, WdOfType
  <2>4. Watch!WdOf(d, gen) \in wds[j]
      BY <2>2, <2>3, NoneAssumption DEF WatchInv, Mapped
  <2>5. Spares(i) /\ j \in (Id \ {i}) \ shared'
      BY <1>2, <1>4, <2>1
  <2>6. d \in inotify' /\ gen'[d] = gen[d] /\ wdMap'[Watch!WdOf(d, gen)] = j
      BY <2>2, <2>3, <2>4, <2>5 DEF Spares
  <2> QED
      BY <2>6 DEF Watch!WdOf
<1>11. Promised'
  <2> SUFFICES ASSUME NEW k \in DOMAIN queue, NEW b \in Conn, NEW j \in Id \ shared,
                      <<b, j>> \in queue[k].due, conn[b] = "open"
               PROVE  wdMap'[queue[k].wd] = j /\ b \in listed[j]
      BY <1>2 DEF Promised, Watch!Unlocked
  <2>1. wdMap[queue[k].wd] = j /\ b \in listed[j] /\ queue[k] \in Report
      BY <1>1 DEF WatchInv, Promised
  <2>2. b \in users[j]
      BY <2>1 DEF WatchInv, Sessions
  <2>3. j # i
      BY <1>1, <1>9, <2>2
  <2>4. Spares(i) /\ j \in (Id \ {i}) \ shared'
      BY <1>2, <1>4, <2>3
  <2> QED
      BY <2>1, <2>4 DEF Spares, Report
<1>12. Unlisting'
    BY <1>2, <1>4 DEF WatchInv, Unlisting
<1>13. Attended'
    BY <1>2, <1>4, <1>5 DEF WatchInv, Attended, WatchTypes
<1> QED
    BY <1>2, <1>4, <1>6, <1>7, <1>8, <1>10, <1>11, <1>12, <1>13 DEF WatchInv, MapInv

(* ... and goes, with none left.                                               *)
LEMMA LeaveStep ==
    ASSUME WatchInv, NEW c \in Conn, Watch!Leave(c)
    PROVE  WatchInv'
<1> USE DEF Watch!disk, Watch!manager, Watch!thread, Watch!closing, Watch!history
<1>1. /\ hpc[c] = "cleanup" /\ conn[c] = "closing" /\ todo[c] = {}
      /\ conn \in [Conn -> {"open", "closing", "gone"}]
      /\ hpc \in [Conn -> Watch!HandlerPC] /\ todo \in [Conn -> SUBSET Id]
    BY DEF Watch!Leave, Watch!Goto, Watch!Cleaned, WatchInv, Sessions, WatchTypes
<1>2. /\ hpc' = [hpc EXCEPT ![c] = "idle"] /\ conn' = [conn EXCEPT ![c] = "gone"]
      /\ todo' = todo
      /\ UNCHANGED <<Watch!disk, Watch!manager, Watch!thread, Watch!closing, listed, req, ops,
                     Watch!history>>
    BY <1>1 DEF Watch!Leave, Watch!Goto
<1>3. /\ hpc' \in [Conn -> Watch!HandlerPC] /\ conn' \in [Conn -> {"open", "closing", "gone"}]
      /\ hpc'[c] = "idle" /\ conn'[c] = "gone"
      /\ \A b \in Conn : b # c => hpc'[b] = hpc[b] /\ conn'[b] = conn[b]
    BY <1>1, <1>2 DEF Watch!HandlerPC
<1>4. WatchTypes'
    BY <1>2, <1>3 DEF WatchInv, WatchTypes
<1>5. Working' /\ Sessions'
    BY <1>1, <1>2, <1>3 DEF WatchInv, Working, Sessions
<1>6. Counted'
    BY <1>1, <1>2, <1>3, CountedStays
<1>7. MapInv' /\ OneUser' /\ Reported'
    BY <1>2, MapStays DEF WatchInv, OneUser, Reported
<1>8. \A b \in Conn : conn'[b] = "open" => conn[b] = "open"
    BY <1>3
<1>9. Covered'
  <2>1. \A i \in Id : users[i] \subseteq Conn
      BY DEF WatchInv, WatchTypes
  <2> QED
      BY <1>2, <1>8, <2>1 DEF WatchInv, Covered, Watch!WdOf
<1>10. Promised'
    BY <1>2, <1>8 DEF WatchInv, Promised
<1>11. Unlisting'
    BY <1>2, <1>3 DEF WatchInv, Unlisting
<1>12. Attended'
  <2> SUFFICES ASSUME NEW j \in watches \ shared, NEW b \in users[j], j \in Id, b \in Conn
               PROVE  b \in listed[j] \/ (hpc'[b] = "register" /\ req[b].id = j)
                      \/ j \in todo[b]
      BY <1>2 DEF Attended, WatchInv, WatchTypes
  <2>1. b \in listed[j] \/ (hpc[b] = "register" /\ req[b].id = j) \/ j \in todo[b]
      BY DEF WatchInv, Attended
  <2> QED
      BY <1>1, <1>3, <2>1
<1> QED
    BY <1>2, <1>4, <1>5, <1>6, <1>7, <1>9, <1>10, <1>11, <1>12 DEF WatchInv, MapInv

-----------------------------------------------------------------------------
(* The event thread takes a report: what is due to others than the watch the   *)
(* map leads to is due to those who share.                                     *)
LEMMA ThreadLooksUpStep ==
    ASSUME WatchInv, Watch!ThreadLooksUp
    PROVE  WatchInv'
<1> USE DEF Watch!channel
<1> DEFINE e == Head(queue)
           i == wdMap[e.wd]
           v == Watch!WdOf(e.sub, gen)
<1>1. /\ queue \in Seq(Report) /\ queue # <<>> /\ gen \in [Dir -> Nat] /\ inotify \subseteq Dir
      /\ exists \subseteq Dir /\ inotify \subseteq exists
      /\ wdMap \in [Watch!Wd -> Id \cup {NoId}] /\ NoId \notin Id
      /\ cover \in [Id -> SUBSET Dir]
      /\ watches \subseteq Id /\ recursive \subseteq watches /\ wds \in [Id -> SUBSET Watch!Wd]
      /\ users \in [Id -> SUBSET Conn] /\ missed \subseteq shared /\ note \in Note
    BY NoneAssumption DEF WatchInv, WatchTypes, Watch!ThreadLooksUp
<1>2. /\ tpc = "wait" /\ queue' = Tail(queue)
      /\ missed' = missed \cup ({p[2] : p \in Watch!Waiting(e.due)} \ {i})
      /\ tpc' = IF i = NoId THEN "wait" ELSE "notify"
      /\ note' = IF i = NoId THEN note
                 ELSE [id |-> i, to |-> {}, due |-> {p \in e.due : p[2] = i}]
      /\ IF i # NoId /\ Watch!Adds(i, e.sub)
         THEN /\ inotify' = inotify \cup {e.sub}
              /\ wds' = [wds EXCEPT ![i] = @ \cup {v}]
              /\ wdMap' = [wdMap EXCEPT ![v] = i]
              /\ cover' = [cover EXCEPT ![i] = @ \cup {e.sub}]
         ELSE UNCHANGED <<inotify, wds, wdMap, cover>>
      /\ UNCHANGED <<exists, gen, changes, watches, recursive, Watch!closing, Watch!channel,
                     shared, users, scope>>
    BY DEF Watch!ThreadLooksUp
<1>3. /\ e = queue[1] /\ e \in Report /\ 1 \in DOMAIN queue
      /\ queue' \in Seq(Report) /\ Len(queue') = Len(queue) - 1
      /\ \A k \in DOMAIN queue' : k + 1 \in DOMAIN queue /\ queue'[k] = queue[k + 1]
  <2>1. /\ Tail(queue) \in Seq(Report) /\ Len(Tail(queue)) = Len(queue) - 1
        /\ \A k \in 1..Len(Tail(queue)) : Tail(queue)[k] = queue[k + 1]
      BY <1>1, HeadTailProperties
  <2>2. Len(queue) \in Nat \ {0} /\ DOMAIN queue = 1..Len(queue) /\ e = queue[1]
      BY <1>1
  <2>3. queue[1] \in Report
      BY <1>1, <2>2
  <2>4. DOMAIN Tail(queue) = 1..Len(Tail(queue))
      BY <2>1
  <2> QED
      BY <1>2, <2>1, <2>2, <2>3, <2>4
<1>4. /\ e.wd \in Watch!Wd /\ e.sub \in Dir \cup {NoDir} /\ e.due \subseteq Conn \X Id
      /\ i \in Id \cup {NoId}
    BY <1>1, <1>3 DEF Report
<1>5. \A b \in Conn, j \in Id \ shared :
          <<b, j>> \in e.due /\ conn[b] = "open" => i = j /\ b \in listed[j]
    BY <1>3 DEF WatchInv, Promised
<1>6. e.sub \in Inside[e.wd[1]] \cup {NoDir}
    BY <1>3 DEF WatchInv, Reported
<1>7. Fits /\ MapInv /\ WatchTypes
    BY CountedFits DEF WatchInv, MapInv
<1>8. i \in Id => e.wd \in wds[i] /\ e.wd[1] \in scope[i] /\ i \in watches
    BY <1>1, <1>4 DEF WatchInv, Mapped, Kept
<1> HIDE DEF e, i, v
<1>9. ASSUME i # NoId, Watch!Adds(i, e.sub)
      PROVE  /\ MapInv' /\ Spares(i)
             /\ wds' \in [Id -> SUBSET Watch!Wd] /\ wdMap' \in [Watch!Wd -> Id \cup {NoId}]
             /\ cover' \in [Id -> SUBSET Dir]
             /\ \A w \in Watch!Wd : wdMap[w] = i => wdMap'[w] = i
             /\ e.sub \in inotify' /\ wdMap'[v] = i /\ cover'[i] = cover[i] \cup {e.sub}
  <2>1. i \in recursive /\ e.sub \in exists /\ e.sub # NoDir
      BY <1>9 DEF Watch!Adds
  <2>2. e.sub \in scope[i]
      BY <1>4, <1>6, <1>8, <1>9, <2>1 DEF WatchInv, Closed
  <2> QED
      BY <1>2, <1>7, <1>9, <2>1, <2>2, AddedMap DEF v
<1>10. /\ MapInv' /\ wds' \in [Id -> SUBSET Watch!Wd] /\ wdMap' \in [Watch!Wd -> Id \cup {NoId}]
       /\ cover' \in [Id -> SUBSET Dir] /\ inotify \subseteq inotify'
       /\ inotify' \subseteq exists
       /\ inotify' \subseteq inotify \cup {e.sub}
       /\ \A j \in Id \ shared, w \in Watch!Wd : wdMap[w] = j => wdMap'[w] = j
       /\ \A j \in Id \ shared : j # i => cover'[j] = cover[j]
       /\ i \in Id => \A d \in cover'[i] :
             d \in cover[i] \/ (d \in inotify' /\ wdMap'[Watch!WdOf(d, gen)] = i)
  <2>1. CASE i # NoId /\ Watch!Adds(i, e.sub)
    <3>1. e.sub \in exists
        BY <2>1 DEF Watch!Adds
    <3>2. \A j \in Id \ shared : j # i => cover'[j] = cover[j]
        BY <1>2, <1>9, <2>1 DEF Spares
    <3>3. \A j \in Id \ shared, w \in Watch!Wd : wdMap[w] = j => wdMap'[w] = j
        BY <1>2, <1>9, <2>1 DEF Spares
    <3> QED
        BY <1>1, <1>2, <1>9, <2>1, <3>1, <3>2, <3>3 DEF v
  <2>2. CASE ~(i # NoId /\ Watch!Adds(i, e.sub))
    <3>1. UNCHANGED <<gen, inotify, watches, recursive, wds, wdMap, scope, shared, cover>>
        BY <1>2, <2>2
    <3>2. MapInv'
        BY <3>1, MapStays
    <3> QED
        BY <1>1, <3>1, <3>2
  <2> QED
      BY <2>1, <2>2
<1>11. /\ note' \in Note /\ note' = IF i = NoId THEN Watch!NoNote ELSE note'
       /\ tpc' \in {"wait", "notify"} /\ (tpc' = "notify" <=> i \in Id)
          /\ (i \in Id => note'.id = i)
       /\ i \in Id => \A p \in note'.due : p \in e.due /\ p[2] = i
  <2>1. CASE i = NoId
      BY <1>1, <1>2, <2>1 DEF WatchInv, Working
  <2>2. CASE i # NoId
      BY <1>1, <1>2, <1>4, <2>2 DEF Note
  <2> QED
      BY <2>1, <2>2
<1>12. missed' \subseteq shared
  <2> SUFFICES ASSUME NEW p \in Watch!Waiting(e.due), p[2] # i, p[2] \notin shared PROVE FALSE
      BY <1>1, <1>2
  <2>1. p \in e.due /\ conn[p[1]] = "open" /\ p[1] \in Conn /\ p[2] \in Id /\ p = <<p[1], p[2]>>
      BY <1>4 DEF Watch!Waiting
  <2> QED
      BY <1>5, <2>1
<1>13. WatchTypes'
    BY <1>2, <1>3, <1>7, <1>10, <1>11, <1>12 DEF WatchTypes, Watch!closing
<1>14. Working' /\ Sessions' /\ OneUser'
    BY <1>2, <1>11 DEF WatchInv, Working, Sessions, OneUser
<1>15. Counted'
  <2>1. Asking' = Asking
      BY <1>2 DEF Asking
  <2>2. ASSUME NEW d \in Dir
        PROVE  Taken(d)' + Cardinality(Asking) + (Len(queue) - 1) <= ops + changes
    <3>1. Taken(d) + Cardinality(Asking) + Len(queue) <= ops + changes
        BY DEF WatchInv, Counted
    <3>2. /\ Taken(d) \in Nat /\ Cardinality(Asking) \in Nat
          /\ Len(queue) \in Nat /\ ops \in Nat /\ changes \in Nat
        BY <1>7, CountedFits, BoundsAssumption DEF WatchInv, WatchTypes
    <3>3. Taken(d)' \in Nat /\ Taken(d)' <= Taken(d) + 1
        BY <1>1, <1>2 DEF Taken
    <3> QED
        BY <3>1, <3>2, <3>3
  <2> QED
      BY <1>2, <1>3, <2>1, <2>2 DEF WatchInv, Counted
<1>16. Covered'
  <2> SUFFICES ASSUME NEW j \in Id \ shared, NEW b \in users[j], conn[b] = "open",
                      NEW d \in cover'[j]
               PROVE  d \in inotify' /\ wdMap'[Watch!WdOf(d, gen)] = j
      BY <1>2 DEF Covered, Watch!WdOf
  <2>1. CASE d \in cover[j]
    <3>1. d \in Dir /\ d \in inotify /\ wdMap[Watch!WdOf(d, gen)] = j
        BY <1>1, <2>1 DEF WatchInv, Covered
    <3>2. Watch!WdOf(d, gen) \in Watch!Wd
        BY <1>1, <1>7, <3>1, WdOfType
    <3> QED
        BY <1>10, <3>1, <3>2
  <2>2. CASE d \notin cover[j]
      BY <1>10, <2>2
  <2> QED
      BY <2>1, <2>2
<1>17. Promised'
  <2>1. ASSUME NEW k \in DOMAIN queue', NEW b \in Conn, NEW j \in Id \ shared,
               <<b, j>> \in queue'[k].due, conn[b] = "open"
        PROVE  wdMap'[queue'[k].wd] = j /\ b \in listed[j]
    <3>1. k + 1 \in DOMAIN queue /\ queue'[k] = queue[k + 1] /\ queue'[k] \in Report
        BY <1>3
    <3>2. wdMap[queue'[k].wd] = j /\ b \in listed[j]
        BY <2>1, <3>1 DEF WatchInv, Promised
    <3> QED
        BY <1>10, <3>1, <3>2 DEF Report
  <2>2. ASSUME tpc' = "notify", NEW b \in Conn, NEW j \in Id \ shared,
               <<b, j>> \in note'.due, conn[b] = "open"
        PROVE  b \in listed[j]
      BY <1>5, <1>11, <2>2
  <2> QED
      BY <1>2, <2>1, <2>2 DEF Promised
<1>18. Unlisting'
  <2> SUFFICES ASSUME NEW b \in Conn, hpc[b] = "unlist", req[b].id \notin shared
               PROVE  LET j == req[b].id
                      IN  /\ j \notin watches /\ cover'[j] = {}
                          /\ \A k \in DOMAIN queue', a \in Conn : <<a, j>> \notin queue'[k].due
                          /\ tpc' = "notify" => \A a \in Conn : <<a, j>> \notin note'.due
      BY <1>2 DEF Unlisting
  <2>1. /\ req[b].id \notin watches /\ cover[req[b].id] = {} /\ req[b].id \in Id
        /\ \A k \in DOMAIN queue, a \in Conn : <<a, req[b].id>> \notin queue[k].due
      BY DEF WatchInv, Unlisting, Working
  <2>2. req[b].id # i
      BY <1>8, <2>1
  <2>3. \A k \in DOMAIN queue', a \in Conn : <<a, req[b].id>> \notin queue'[k].due
      BY <1>3, <2>1
  <2>4. tpc' = "notify" => \A a \in Conn : <<a, req[b].id>> \notin note'.due
      BY <1>11, <2>2
  <2> QED
      BY <1>10, <2>1, <2>2, <2>3, <2>4
<1>19. Attended'
    BY <1>2 DEF WatchInv, Attended
<1>20. Reported'
    BY <1>3 DEF WatchInv, Reported
<1> QED
    BY <1>2, <1>10, <1>12, <1>13, <1>14, <1>15, <1>16, <1>17, <1>18, <1>19, <1>20
    DEF WatchInv, MapInv

(* It finds listed whoever the report is due to and shares nothing.            *)
LEMMA ThreadNotifiesStep ==
    ASSUME WatchInv, Watch!ThreadNotifies
    PROVE  WatchInv'
<1> USE DEF Watch!disk, Watch!manager, Watch!closing, Watch!channel
<1>1. /\ tpc = "notify" /\ tpc' = "send" /\ note.id \in Id /\ note \in Note
      /\ listed \in [Id -> SUBSET Conn]
      /\ note' = [note EXCEPT !.to = listed[note.id]]
      /\ missed' = missed \cup {p[2] : p \in {q \in Watch!Waiting(note.due) : q[1] \notin listed[q[2]]}}
      /\ UNCHANGED <<Watch!disk, Watch!manager, Watch!closing, Watch!channel, cover, shared,
                     users, scope>>
    BY DEF Watch!ThreadNotifies, WatchInv, Working, WatchTypes
<1>2. note' \in Note /\ note'.id \in Id
    BY <1>1 DEF Note
<1>3. missed' \subseteq shared
  <2> SUFFICES ASSUME NEW p \in Watch!Waiting(note.due), p[1] \notin listed[p[2]],
                      p[2] \notin shared
               PROVE  FALSE
      BY <1>1 DEF WatchInv
  <2>1. p \in note.due /\ conn[p[1]] = "open" /\ p[1] \in Conn /\ p[2] \in Id /\ p = <<p[1],
          p[2]>>
      BY <1>1 DEF Watch!Waiting, Note
  <2> QED
      BY <1>1, <2>1 DEF WatchInv, Promised
<1>4. WatchTypes'
    BY <1>1, <1>2, <1>3 DEF WatchInv, WatchTypes
<1>5. MapInv' /\ Counted'
    BY <1>1, MapStays, CountedStays
<1>6. Working' /\ Sessions' /\ OneUser' /\ Covered' /\ Attended' /\ Reported'
    BY <1>1, <1>2 DEF WatchInv, Working, Sessions, OneUser, Covered, Attended, Reported,
       Watch!WdOf
<1>7. Promised' /\ Unlisting'
    BY <1>1 DEF WatchInv, Promised, Unlisting
<1> QED
    BY <1>1, <1>3, <1>4, <1>5, <1>6, <1>7 DEF WatchInv, MapInv

(* The other steps of the thread pass nothing on.                              *)
LEMMA ThreadMovesStep ==
    ASSUME WatchInv, tpc' \in {"wait", "crashed", "done"}, note' \in {note, Watch!NoNote},
           tpc' = "wait" => note' = Watch!NoNote, tpc' = "done" => tpc = "wait" /\ note' = note,
           UNCHANGED <<Watch!disk, Watch!manager, Watch!closing, Watch!channel, Watch!history>>
    PROVE  WatchInv'
<1> USE DEF Watch!disk, Watch!manager, Watch!closing, Watch!channel, Watch!history
<1>1. note' \in Note
    BY DEF WatchInv, WatchTypes, Note, Watch!NoNote
<1>2. WatchTypes'
    BY <1>1 DEF WatchInv, WatchTypes
<1>3. MapInv' /\ Counted'
    BY MapStays, CountedStays
<1>4. Working' /\ Sessions' /\ OneUser' /\ Covered' /\ Attended' /\ Reported'
    BY DEF WatchInv, Working, Sessions, OneUser, Covered, Attended, Reported, Watch!WdOf
<1>5. Promised' /\ Unlisting'
    BY DEF WatchInv, Promised, Unlisting
<1> QED
    BY <1>2, <1>3, <1>4, <1>5 DEF WatchInv, MapInv

(* Every step of the event thread preserves the invariant.                     *)
LEMMA ThreadStep ==
    ASSUME WatchInv, Watch!Thread
    PROVE  WatchInv'
<1>1. CASE Watch!ThreadSends
    BY <1>1, ThreadMovesStep DEF Watch!ThreadSends
<1>2. CASE Watch!SendDangles
    BY <1>2, ThreadMovesStep DEF Watch!SendDangles
<1>3. CASE Watch!ThreadEnds
    BY <1>3, ThreadMovesStep DEF Watch!ThreadEnds
<1> QED
    BY <1>1, <1>2, <1>3, ThreadLooksUpStep, ThreadNotifiesStep DEF Watch!Thread

(* shutdown ...                                                                *)
LEMMA ShutdownBeginsStep ==
    ASSUME WatchInv, Watch!ShutdownBegins
    PROVE  WatchInv'
<1> USE DEF Watch!disk, Watch!manager, Watch!thread, Watch!channel, Watch!history,
            Watch!ShutdownBegins
<1>1. WatchTypes'
    BY DEF WatchInv, WatchTypes
<1>2. MapInv' /\ Counted'
    BY MapStays, CountedStays
<1>3. Working' /\ Sessions' /\ OneUser' /\ Covered' /\ Attended' /\ Reported'
    BY DEF WatchInv, Working, Sessions, OneUser, Covered, Attended, Reported, Watch!WdOf
<1>4. Promised' /\ Unlisting'
    BY DEF WatchInv, Promised, Unlisting
<1> QED
    BY <1>1, <1>2, <1>3, <1>4 DEF WatchInv, MapInv

(* ... and the end of every watch.                                             *)
LEMMA ShutdownClearsStep ==
    ASSUME WatchInv, Watch!ShutdownClears
    PROVE  WatchInv'
<1> USE DEF Watch!thread, Watch!channel
<1>1. /\ tpc = "done" /\ spc' = "done" /\ watches' = {} /\ recursive' = {}
      /\ wds' = [i \in Id |-> {}] /\ wdMap' = [w \in Watch!Wd |-> NoId]
      /\ inotify' = {} /\ queue' = <<>>
      /\ cover' = [i \in Id |-> {}] /\ scope' = [i \in Id |-> {}]
      /\ UNCHANGED <<exists, gen, changes, Watch!thread, running, Watch!channel, shared, users,
                     missed>>
    BY DEF Watch!ShutdownClears
<1>2. /\ queue' \in Seq(Report) /\ Len(queue') = 0 /\ DOMAIN queue' = {}
    BY <1>1
<1>3. WatchTypes'
    BY <1>1, <1>2 DEF WatchInv, WatchTypes
<1>4. Counted'
  <2>1. Asking' = Asking
      BY <1>1 DEF Asking
  <2>2. ASSUME NEW d \in Dir PROVE Taken(d)' + Cardinality(Asking) + 0 <= ops + changes
    <3>1. Taken(d) + Cardinality(Asking) + Len(queue) <= ops + changes
        BY DEF WatchInv, Counted
    <3>2. /\ Taken(d) \in Nat /\ Cardinality(Asking) \in Nat
          /\ Len(queue) \in Nat /\ ops \in Nat /\ changes \in Nat
        BY CountedFits, BoundsAssumption DEF WatchInv, WatchTypes
    <3>3. Taken(d)' \in Nat /\ Taken(d)' <= Taken(d)
        BY <1>1 DEF Taken, WatchInv, WatchTypes
    <3> QED
        BY <3>1, <3>2, <3>3
  <2> QED
      BY <1>1, <1>2, <2>1, <2>2 DEF WatchInv, Counted
<1>5. MapInv'
    BY <1>1 DEF MapInv, Handed, Kept, Mapped, Owned, Closed, Apart, Single
<1>6. Working' /\ Sessions' /\ OneUser' /\ Covered' /\ Attended' /\ Reported'
    BY <1>1, <1>2 DEF WatchInv, Working, Sessions, OneUser, Covered, Attended, Reported
<1>7. Promised' /\ Unlisting'
    BY <1>1, <1>2 DEF WatchInv, Promised, Unlisting, Working
<1> QED
    BY <1>1, <1>3, <1>4, <1>5, <1>6, <1>7 DEF WatchInv, MapInv

-----------------------------------------------------------------------------
(* A change is reported by the kernel to whom it is due, if the watch of one   *)
(* who shares nothing has taken charge of the directory.                       *)
LEMMA ChangedStep ==
    ASSUME WatchInv, NEW p \in Dir, NEW sub \in Inside[p] \cup {NoDir},
           Watch!Changed(p, sub, inotify),
           MapInv', gen' \in [Dir -> Nat], inotify' \subseteq exists', exists' \subseteq Dir,
           cover' \in [Id -> SUBSET Dir],
           \A d \in Dir : Taken(d)' <= Taken(d),
           \A i \in Id : \A d \in cover'[i] :
               d \in cover[i] /\ (d \in inotify => d \in inotify' /\ gen'[d] = gen[d]),
           UNCHANGED <<Watch!manager, Watch!thread, Watch!closing, Watch!channel, shared,
                       users, scope>>
    PROVE  WatchInv'
<1> USE DEF Watch!manager, Watch!thread, Watch!closing, Watch!channel
<1> DEFINE e == [wd |-> Watch!WdOf(p, gen), sub |-> sub, due |-> Watch!Due(p)]
<1>1. /\ changes < MaxChanges /\ changes' = changes + 1
      /\ queue' = IF p \in inotify THEN Append(queue, e) ELSE queue
      /\ missed' = IF p \in inotify THEN missed ELSE missed \cup {q[2] : q \in Watch!Due(p)}
    BY DEF Watch!Changed
<1>2. /\ queue \in Seq(Report) /\ gen \in [Dir -> Nat] /\ changes \in 0..MaxChanges
      /\ ops \in Nat
      /\ missed \subseteq shared /\ wdMap \in [Watch!Wd -> Id \cup {NoId}]
      /\ cover \in [Id -> SUBSET Dir]
    BY BoundsAssumption DEF WatchInv, WatchTypes
<1>3. Fits /\ Watch!WdOf(p, gen) \in Watch!Wd /\ Watch!WdOf(p, gen)[1] = p
    BY <1>2, CountedFits, WdOfType DEF WatchInv
<1>4. e \in Report
  <2>1. Watch!Due(p) \in SUBSET (Conn \X Id)
      BY DEF Watch!Due
  <2>2. sub \in Dir \cup {NoDir}
      BY TreeAssumption
  <2> QED
      BY <1>3, <2>1, <2>2 DEF Report
<1>5. /\ e.wd = Watch!WdOf(p, gen) /\ e.sub = sub /\ e.due = Watch!Due(p)
    OBVIOUS
<1>6. \A b \in Conn, j \in Id : <<b, j>> \in Watch!Due(p) => b \in listed[j] /\ p \in cover[j]
    BY DEF Watch!Due
<1>7. \A b \in Conn, j \in Id \ shared :
          <<b, j>> \in Watch!Due(p) => p \in inotify /\ wdMap[Watch!WdOf(p, gen)] = j
    BY <1>6 DEF WatchInv, Sessions, Covered
<1> HIDE DEF e
<1>8. /\ queue' \in Seq(Report) /\ Len(queue') \in Nat /\ Len(queue') <= Len(queue) + 1
      /\ \A k \in DOMAIN queue' :
            \/ k \in DOMAIN queue /\ queue'[k] = queue[k]
            \/ queue'[k] = e
  <2>1. CASE p \in inotify
    <3>1. /\ queue' \in Seq(Report) /\ Len(queue') = Len(queue) + 1
          /\ \A k \in 1..Len(queue) : queue'[k] = queue[k]
          /\ queue'[Len(queue) + 1] = e
        BY <1>1, <1>2, <1>4, <2>1, AppendProperties
    <3>2. DOMAIN queue' = 1..Len(queue') /\ DOMAIN queue = 1..Len(queue) /\ Len(queue) \in Nat
        BY <1>2, <3>1
    <3> QED
        BY <3>1, <3>2
  <2>2. CASE p \notin inotify
      BY <1>1, <1>2, <2>2
  <2> QED
      BY <2>1, <2>2
<1>9. missed' \subseteq shared
  <2> SUFFICES ASSUME p \notin inotify, NEW q \in Watch!Due(p) PROVE q[2] \in shared
      BY <1>1, <1>2
  <2>1. q[1] \in Conn /\ q[2] \in Id /\ q = <<q[1], q[2]>>
      BY DEF Watch!Due
  <2> QED
      BY <1>7, <2>1
<1>10. WatchTypes'
    BY <1>1, <1>2, <1>8, <1>9, BoundsAssumption DEF WatchInv, WatchTypes
<1>11. Counted'
  <2>1. Asking' = Asking
      BY DEF Asking
  <2>2. ASSUME NEW d \in Dir
        PROVE  Taken(d)' + Cardinality(Asking) + Len(queue') <= ops + (changes + 1)
    <3>1. Taken(d) + Cardinality(Asking) + Len(queue) <= ops + changes
        BY DEF WatchInv, Counted
    <3>2. /\ Taken(d) \in Nat /\ Taken(d)' \in Nat /\ Cardinality(Asking) \in Nat
          /\ Len(queue) \in Nat /\ ops \in Nat /\ changes \in Nat
        BY <1>2, CountedFits, BoundsAssumption DEF WatchInv, Taken
    <3>3. Taken(d)' <= Taken(d)
        OBVIOUS
    <3>4. Len(queue') \in Nat /\ Len(queue') <= Len(queue) + 1
        BY <1>8, <3>2
    <3> QED
        BY <3>1, <3>2, <3>3, <3>4
  <2> QED
      BY <1>1, <2>1, <2>2 DEF WatchInv, Counted
<1>12. Working' /\ Sessions' /\ OneUser' /\ Attended'
    BY DEF WatchInv, Working, Sessions, OneUser, Attended
<1>13. Covered'
  <2> SUFFICES ASSUME NEW j \in Id \ shared, NEW b \in users[j], conn[b] = "open",
                      NEW d \in cover'[j]
               PROVE  d \in inotify' /\ wdMap[Watch!WdOf(d, gen')] = j
      BY DEF Covered
  <2>1. d \in cover[j] /\ (d \in inotify => d \in inotify' /\ gen'[d] = gen[d])
      OBVIOUS
  <2>2. d \in inotify /\ wdMap[Watch!WdOf(d, gen)] = j
      BY <2>1 DEF WatchInv, Covered
  <2> QED
      BY <2>1, <2>2 DEF Watch!WdOf
<1>14. Promised'
  <2> SUFFICES ASSUME NEW k \in DOMAIN queue', NEW b \in Conn, NEW j \in Id \ shared,
                      <<b, j>> \in queue'[k].due, conn[b] = "open"
               PROVE  wdMap[queue'[k].wd] = j /\ b \in listed[j]
      BY DEF WatchInv, Promised
  <2>1. CASE queue'[k] = e
      BY <1>5, <1>6, <1>7, <2>1
  <2>2. CASE k \in DOMAIN queue /\ queue'[k] = queue[k]
      BY <2>2 DEF WatchInv, Promised
  <2> QED
      BY <1>8, <2>1, <2>2
<1>15. Unlisting'
  <2> SUFFICES ASSUME NEW b \in Conn, hpc[b] = "unlist", req[b].id \notin shared
               PROVE  LET j == req[b].id
                      IN  /\ j \notin watches /\ cover'[j] = {}
                          /\ \A k \in DOMAIN queue', a \in Conn : <<a, j>> \notin queue'[k].due
                          /\ tpc = "notify" => \A a \in Conn : <<a, j>> \notin note.due
      BY DEF Unlisting
  <2>1. /\ req[b].id \notin watches /\ cover[req[b].id] = {} /\ req[b].id \in Id
        /\ \A k \in DOMAIN queue, a \in Conn : <<a, req[b].id>> \notin queue[k].due
        /\ tpc = "notify" => \A a \in Conn : <<a, req[b].id>> \notin note.due
      BY DEF WatchInv, Unlisting, Working
  <2>2. ASSUME NEW k \in DOMAIN queue', NEW a \in Conn PROVE <<a,
                 req[b].id>> \notin queue'[k].due
    <3>1. CASE queue'[k] = e
        BY <1>5, <1>6, <2>1, <3>1
    <3>2. CASE k \in DOMAIN queue /\ queue'[k] = queue[k]
        BY <2>1, <3>2
    <3> QED
        BY <1>8, <3>1, <3>2
  <2>3. cover'[req[b].id] = {}
      BY <2>1
  <2> QED
      BY <2>1, <2>2, <2>3
<1>16. Reported'
    BY <1>3, <1>5, <1>8 DEF WatchInv, Reported
<1> QED
    BY <1>9, <1>10, <1>11, <1>12, <1>13, <1>14, <1>15, <1>16 DEF WatchInv, MapInv

(* Every change of the file system preserves the invariant.                    *)
LEMMA FileSystemStep ==
    ASSUME WatchInv, Watch!FileSystem
    PROVE  WatchInv'
<1>1. /\ gen \in [Dir -> Nat] /\ inotify \subseteq exists /\ exists \subseteq Dir
      /\ cover \in [Id -> SUBSET Dir]
    BY DEF WatchInv, WatchTypes
<1>2. ASSUME NEW p \in Dir, NEW d \in Dir, Watch!Touch(p) \/ Watch!MakeDir(p, d) PROVE WatchInv'
  <2>1. PICK sub \in Inside[p] \cup {NoDir} : Watch!Changed(p, sub, inotify)
      BY <1>2 DEF Watch!Touch, Watch!MakeDir, Watch!IsParent
  <2>2. /\ UNCHANGED <<gen, inotify, Watch!manager, Watch!thread, Watch!closing, Watch!channel,
                       cover, shared, users, scope>>
        /\ exists \subseteq exists' /\ exists' \subseteq Dir
      BY <1>1, <1>2 DEF Watch!Touch, Watch!MakeDir
  <2>3. MapInv'
      BY <2>2, MapStays DEF Watch!manager
  <2>4. \A x \in Dir : Taken(x)' <= Taken(x)
      BY <1>1, <2>2 DEF Taken
  <2>5. inotify' \subseteq exists'
      BY <1>1, <2>2
  <2> QED
      BY <1>1, <2>1, <2>2, <2>3, <2>4, <2>5, ChangedStep
<1>3. ASSUME NEW p \in Dir, NEW d \in Dir, Watch!RemoveDir(p, d) PROVE WatchInv'
  <2>1. /\ Watch!Changed(p, NoDir, inotify) /\ exists' = exists \ {d}
        /\ inotify' = inotify \ {d}
        /\ gen' = Watch!GenAfter(inotify \cap {d}) /\ cover' = [i \in Id |-> cover[i] \ {d}]
        /\ UNCHANGED <<Watch!manager, Watch!thread, Watch!closing, Watch!channel, shared,
                       users, scope>>
      BY <1>3 DEF Watch!RemoveDir
  <2>2. Fits /\ MapInv /\ WatchTypes
      BY CountedFits DEF WatchInv, MapInv
  <2>3. /\ MapInv' /\ gen' \in [Dir -> Nat]
        /\ \A x \in Dir : Taken(x)' <= Taken(x)
        /\ \A x \in Dir \ {d} : gen'[x] = gen[x]
      BY <2>1, <2>2, RemovedMap DEF Watch!manager
  <2>4. /\ inotify' \subseteq exists' /\ exists' \subseteq Dir /\ cover' \in [Id -> SUBSET Dir]
        /\ \A i \in Id : \A x \in cover'[i] : x \in cover[i] /\ x \in Dir /\ x # d
      BY <2>1, <2>2 DEF WatchTypes
  <2>5. \A i \in Id : \A x \in cover'[i] :
            x \in cover[i] /\ (x \in inotify => x \in inotify' /\ gen'[x] = gen[x])
      BY <2>1, <2>3, <2>4
  <2> QED
      BY <2>1, <2>3, <2>4, <2>5, ChangedStep
<1> QED
    BY <1>2, <1>3 DEF Watch!FileSystem

-----------------------------------------------------------------------------
(* At first nothing is watched.                                                *)
LEMMA InitWatchInv == Watch!Init => WatchInv
<1> SUFFICES ASSUME Watch!Init PROVE WatchInv
    OBVIOUS
<1> USE DEF Watch!Init
<1>1. WatchTypes
    BY TreeAssumption, BoundsAssumption DEF WatchTypes, Note, Watch!NoNote, Watch!NoReq,
       WatchCall, Watch!HandlerPC
<1>2. Working /\ Sessions /\ OneUser
    BY DEF Working, Sessions, OneUser
<1>3. Counted
  <2>1. Asking = {}
      BY DEF Asking
  <2> QED
      BY <2>1, FS_EmptySet DEF Counted, Taken
<1>4. Handed /\ Kept /\ Mapped /\ Owned /\ Closed /\ Apart /\ Single
    BY DEF Handed, Kept, Mapped, Owned, Closed, Apart, Single
<1>5. Covered /\ Promised /\ Unlisting /\ Attended /\ Reported
    BY DEF Covered, Promised, Unlisting, Attended, Reported
<1> QED
    BY <1>1, <1>2, <1>3, <1>4, <1>5 DEF WatchInv

(* The invariant holds in every reachable state.                               *)
THEOREM WatchInductive == WatchSpec => []WatchInv
<1>1. WatchInv /\ [Watch!Next]_Watch!vars => WatchInv'
  <2> SUFFICES ASSUME WatchInv, [Watch!Next]_Watch!vars PROVE WatchInv'
      OBVIOUS
  <2>1. CASE UNCHANGED Watch!vars
    <3>1. UNCHANGED <<Watch!disk, Watch!manager, Watch!thread, Watch!closing, Watch!channel,
                      Watch!history>>
        BY <2>1 DEF Watch!vars
    <3> USE DEF Watch!disk, Watch!manager, Watch!thread, Watch!closing, Watch!channel,
                Watch!history
    <3>2. WatchTypes' /\ MapInv' /\ Counted'
        BY <3>1, MapStays, CountedStays DEF WatchInv, WatchTypes
    <3>3. Working' /\ Sessions' /\ OneUser' /\ Covered' /\ Attended' /\ Reported'
        BY <3>1 DEF WatchInv, Working, Sessions, OneUser, Covered, Attended, Reported,
           Watch!WdOf
    <3>4. Promised' /\ Unlisting' /\ missed' \subseteq shared'
        BY <3>1 DEF WatchInv, Promised, Unlisting
    <3> QED
        BY <3>2, <3>3, <3>4 DEF WatchInv, MapInv
  <2>2. ASSUME NEW c \in Conn, NEW i \in Id, NEW d \in Dir, NEW rec \in BOOLEAN,
               Watch!WatchRequest(c, i, d, rec)
        PROVE  WatchInv'
    <3>1. [id |-> i, dir |-> d, rec |-> rec] \in WatchCall
        BY DEF WatchCall
    <3> QED
        BY <2>2, <3>1, RequestStep DEF Watch!WatchRequest, Watch!Ready, Watch!Goto
  <2>3. ASSUME NEW c \in Conn, NEW i \in Id, Watch!UnwatchRequest(c, i) PROVE WatchInv'
    <3>1. [Watch!NoReq EXCEPT !.id = i] \in WatchCall /\ [Watch!NoReq EXCEPT !.id = i].id \in Id
        BY DEF WatchCall, Watch!NoReq
    <3> QED
        BY <2>3, <3>1, RequestStep DEF Watch!UnwatchRequest, Watch!Ready, Watch!Goto
  <2>4. ASSUME NEW c \in Conn, Watch!Handler(c) PROVE WatchInv'
      BY <2>4, ManagerWatchesStep, ManagerRefusesStep, RegisterStep, ManagerUnwatchesStep,
         UnlistStep, CleanUpStep, LeaveStep DEF Watch!Handler
  <2> QED
      BY <2>1, <2>2, <2>3, <2>4, DisconnectStep, ThreadStep, FileSystemStep, ShutdownBeginsStep,
         ShutdownClearsStep DEF Watch!Next
<1> QED
    BY <1>1, InitWatchInv, PTL DEF WatchSpec, Watch!Spec

(* Every variable has its type, for any clients, ids and directories.          *)
THEOREM WatchTypesCorrect == WatchSpec => []Watch!TypeOK
<1>1. WatchInv => Watch!TypeOK
  <2> SUFFICES ASSUME WatchInv PROVE Watch!TypeOK
      OBVIOUS
  <2>1. gen \in [Dir -> 0..(MaxOps + MaxChanges)]
      BY CountedFits DEF WatchInv
  <2>2. \A k \in DOMAIN queue : queue[k] \in Report
      BY DEF WatchInv, WatchTypes
  <2> QED
      BY <2>1, <2>2 DEF WatchInv, WatchTypes, Watch!TypeOK, Report, Note, WatchCall
<1> QED
    BY <1>1, WatchInductive, PTL

(* watch, unwatch, handle_disconnect and event_thread_linux: whatever ids and  *)
(* directories the clients share, and whichever directories are removed and    *)
(* made again, the descriptor of every directory the kernel watches leads to   *)
(* one entry of watches_, and that entry has it to remove.                     *)
THEOREM NothingLeaks == WatchSpec => []NoLeak
<1>1. WatchInv => NoLeak
  <2> SUFFICES ASSUME WatchInv, NEW d \in inotify
               PROVE  LET i == wdMap[Watch!WdOf(d, gen)]
                      IN  i \in watches /\ Watch!WdOf(d, gen) \in wds[i]
      BY DEF NoLeak, Watch!NoLeak
  <2>1. Watch!WdOf(d, gen) \in Watch!Wd
      BY CountedFits, WdOfType DEF WatchInv, WatchTypes
  <2> QED
      BY <2>1, NoneAssumption DEF WatchInv, Owned, Mapped, WatchTypes
<1> QED
    BY <1>1, WatchInductive, PTL

(* on_file_changed and handle_disconnect: a watch whose id and directories no  *)
(* other client uses misses no change its client is due, and is not left over  *)
(* when the client has gone.                                                   *)
THEOREM AloneServed == WatchSpec => []AloneIsServed
<1>1. WatchInv => AloneIsServed
  <2> SUFFICES ASSUME WatchInv, NEW i \in watches, i \notin shared, NEW c \in users[i],
                      conn[c] = "gone"
               PROVE  FALSE
      BY DEF AloneIsServed, Watch!AloneIsServed, WatchInv
  <2>1. c \in Conn
      BY DEF WatchInv, WatchTypes
  <2>2. c \in listed[i] \/ hpc[c] = "register" \/ i \in todo[c]
      BY DEF WatchInv, Attended
  <2> QED
      BY <2>1, <2>2 DEF WatchInv, Sessions, WatchTypes
<1> QED
    BY <1>1, WatchInductive, PTL
===============================================================================
