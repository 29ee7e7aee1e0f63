-------------------------------- MODULE UiProofs --------------------------------
(***************************************************************************)
(* Proofs about what the user meets: the contributions of the UI mod       *)
(* against the frame that calls them (Overlay), for any set of panels and  *)
(* of threads.                                                             *)
(***************************************************************************)
EXTENDS MCUi, FiniteSetTheorems, TLAPS

(***************************************************************************)
(* The list of contributions                                               *)
(***************************************************************************)

\* A list of panels in which none is twice.
Distinct(list) == \A i, j \in DOMAIN list : list[i] = list[j] => i = j
Within(list) == {list[i] : i \in DOMAIN list}

\* What is left of a list keeps its order, and has nothing twice.
LEMMA WithoutList ==
    ASSUME NEW S, NEW list \in Seq(S), Distinct(list), NEW c
    PROVE  /\ Without(list, c) \in Seq(S)
           /\ Distinct(Without(list, c))
           /\ Within(Without(list, c)) \subseteq Within(list)
<1>1. CASE \A i \in DOMAIN list : list[i] # c
  BY <1>1 DEF Without
<1>2. CASE \E i \in DOMAIN list : list[i] = c
  <2> DEFINE found == CHOOSE i \in DOMAIN list : list[i] = c
             left == [i \in 1 .. Len(list) - 1 |-> list[IF i < found THEN i ELSE i + 1]]
  <2>1. Without(list, c) = left
    BY <1>2 DEF Without
  <2>2. found \in 1 .. Len(list) /\ Len(list) \in Nat
    BY <1>2
  <2> HIDE DEF found
  <2>3. \A i \in 1 .. Len(list) - 1 : (IF i < found THEN i ELSE i + 1) \in 1 .. Len(list)
    BY <2>2
  <2>4. Len(list) - 1 \in Nat
    BY <2>2
  <2>5. \A i \in 1 .. Len(list) - 1 : list[IF i < found THEN i ELSE i + 1] \in S
    BY <2>3
  <2>6. left \in Seq(S) /\ DOMAIN left = 1 .. Len(list) - 1
    BY <2>4, <2>5
  <2>7. Distinct(left)
    <3> SUFFICES ASSUME NEW i \in 1 .. Len(list) - 1, NEW j \in 1 .. Len(list) - 1,
                        left[i] = left[j]
                 PROVE  i = j
      BY <2>6 DEF Distinct
    <3>1. (IF i < found THEN i ELSE i + 1) = (IF j < found THEN j ELSE j + 1)
      BY <2>3 DEF Distinct
    <3> QED
      BY <3>1, <2>2
  <2>8. Within(left) \subseteq Within(list)
    BY <2>3, <2>6 DEF Within
  <2> QED
    BY <2>1, <2>6, <2>7, <2>8
<1> QED
  BY <1>1, <1>2

\* A panel that is new to a list makes it longer by one.
LEMMA AppendList ==
    ASSUME NEW S, NEW list \in Seq(S), Distinct(list), NEW c \in S, c \notin Within(list)
    PROVE  /\ Append(list, c) \in Seq(S)
           /\ Distinct(Append(list, c))
           /\ Within(Append(list, c)) = Within(list) \cup {c}
<1>1. /\ DOMAIN Append(list, c) = 1 .. Len(list) + 1 /\ Len(list) \in Nat
      /\ DOMAIN list = 1 .. Len(list)
      /\ \A i \in 1 .. Len(list) : Append(list, c)[i] = list[i]
      /\ Append(list, c)[Len(list) + 1] = c
  OBVIOUS
<1>2. Distinct(Append(list, c))
  BY <1>1 DEF Distinct, Within
<1>3. Within(Append(list, c)) = Within(list) \cup {c}
  BY <1>1 DEF Within
<1> QED
  BY <1>2, <1>3

\* The rest of a copy.
LEMMA TailList ==
    ASSUME NEW S, NEW list \in Seq(S), Distinct(list), list # <<>>
    PROVE  /\ Head(list) \in S /\ Head(list) \in Within(list)
           /\ Tail(list) \in Seq(S) /\ Distinct(Tail(list))
           /\ Within(Tail(list)) \subseteq Within(list) \ {Head(list)}
<1>1. /\ DOMAIN Tail(list) = 1 .. Len(list) - 1 /\ Len(list) \in Nat \ {0}
      /\ DOMAIN list = 1 .. Len(list)
      /\ \A i \in 1 .. Len(list) - 1 : Tail(list)[i] = list[i + 1]
      /\ Head(list) = list[1]
  OBVIOUS
<1>2. Distinct(Tail(list))
  BY <1>1 DEF Distinct
<1>3. Within(Tail(list)) \subseteq Within(list) \ {Head(list)}
  BY <1>1 DEF Within, Distinct
<1>4. Head(list) \in Within(list)
  BY <1>1 DEF Within
<1> QED
  BY <1>2, <1>3, <1>4

(***************************************************************************)
(* The contributions and the frame                                         *)
(***************************************************************************)

\* The lists name a panel once, and none before its registration.
ListInv ==
    /\ Distinct(entries) /\ Distinct(rest)
    /\ \A c \in Panels : slot[c] = "unborn" =>
          /\ c \notin Within(entries) /\ c \notin Within(rest)
          /\ c \notin registrations /\ inits[c] = 0
          /\ \A t \in Threads : target[t] # c

\* The panel whose lock is held is the first of what the pass has left, and its
\* contribution is there.
CallInv ==
    at # None =>
        /\ pass # "idle" /\ rest # <<>> /\ at = Head(rest)
        /\ slot[at] = IF calling = "initialize" THEN "plain" ELSE "initialized"

\* A contribution that is there belongs to a registration, or to a thread that
\* is about to take it out.
HeldInv ==
    \A c \in Panels : slot[c] \in {"plain", "initialized"} =>
        c \in registrations \/ \E t \in Threads : target[t] = c

\* What was initialized, and when.
InitsInv ==
    \A c \in Panels :
        /\ inits[c] <= 1
        /\ slot[c] = "initialized" => inits[c] = 1
        /\ at = c /\ calling = "initialize" => inits[c] = 1
        /\ slot[c] = "plain" /\ inits[c] # 0 =>
              (at = c /\ calling = "initialize") \/ disabled

\* The first frame initializes each panel of its copy once.
PassInv ==
    /\ pass = "initialize" => ~ready
    /\ pass \in {"ui", "policy", "output"} => ready
    /\ ~ready /\ ~disabled =>
          \A c \in Panels : slot[c] = "initialized" =>
              pass = "initialize" /\ c \notin Within(rest)

\* No frame runs, and nothing is withheld, when rendering is over.
OverInv ==
    /\ disabled \/ hook = "removed" => captured = {} /\ pass = "idle"

OverlayInv == TypeOK /\ ListInv /\ CallInv /\ HeldInv /\ InitsInv /\ PassInv /\ OverInv

\* What the registration and the frame start from.
LEMMA OverlayStart == Init => OverlayInv
<1> SUFFICES ASSUME Init PROVE OverlayInv
  OBVIOUS
<1>1. TypeOK
  <2>1. slot \in [Panels -> {"unborn", "plain", "initialized", "none"}]
    BY DEF Init
  <2>2. step \in [Threads -> {"idle", "removed", "unlisted"}]
    BY DEF Init
  <2>3. target \in [Threads -> Panels \cup {None}] /\ inits \in [Panels -> Nat]
    BY DEF Init
  <2>4. entries \in Seq(Panels) /\ rest \in Seq(Panels)
    BY DEF Init
  <2>5. \A t \in Threads : step[t] = "idle" <=> target[t] = None
    BY DEF Init
  <2> QED
    BY <2>1, <2>2, <2>3, <2>4, <2>5 DEF Init, TypeOK
<1>2. Within(entries) = {} /\ Within(rest) = {} /\ Distinct(entries) /\ Distinct(rest)
  BY DEF Init, Within, Distinct
<1>3. ListInv
  BY <1>2, OverlayAssumption DEF Init, ListInv
<1>4. CallInv /\ HeldInv /\ InitsInv /\ PassInv /\ OverInv
  BY DEF Init, CallInv, HeldInv, InitsInv, PassInv, OverInv
<1> QED
  BY <1>1, <1>3, <1>4 DEF OverlayInv

\* A panel is registered.
LEMMA RegisterStep ==
    ASSUME OverlayInv, NEW t \in Threads, NEW c \in Panels, Register(t, c)
    PROVE  OverlayInv'
<1>1. /\ slot[c] = "unborn" /\ slot' = [slot EXCEPT ![c] = "plain"]
      /\ entries' = Append(entries, c) /\ registrations' = registrations \cup {c}
      /\ UNCHANGED <<step, target, pass, rest, at, calling, ready, disabled, asked,
                     captured, hook, inits>>
  BY DEF Register, callVars, frameVars
<1>2. TypeOK /\ ListInv
  BY DEF OverlayInv
<1>3. /\ entries' \in Seq(Panels) /\ Distinct(entries')
      /\ Within(entries') = Within(entries) \cup {c}
  BY <1>1, <1>2, AppendList DEF TypeOK, ListInv
<1>4. slot' \in [Panels -> {"unborn", "plain", "initialized", "none"}]
  BY <1>1, <1>2 DEF TypeOK
<1>5. TypeOK'
  BY <1>1, <1>2, <1>3, <1>4 DEF TypeOK
<1>6. /\ slot'[c] = "plain" /\ \A d \in Panels \ {c} : slot'[d] = slot[d]
  BY <1>1, <1>2 DEF TypeOK
<1>7. ListInv'
  BY <1>1, <1>2, <1>3, <1>6 DEF ListInv
<1>8. CallInv'
  <2>1. at # None => at \in Panels /\ at # c
    <3> SUFFICES ASSUME at # None PROVE at \in Panels /\ at # c
      OBVIOUS
    <3>1. at \in Panels /\ slot[at] \in {"plain", "initialized"}
      BY <1>2 DEF TypeOK, OverlayInv, CallInv
    <3> QED
      BY <1>1, <3>1
  <2> QED
    BY <1>1, <1>6, <2>1 DEF OverlayInv, CallInv
<1>9. HeldInv'
  BY <1>1, <1>6 DEF OverlayInv, HeldInv
<1>10. InitsInv'
  BY <1>1, <1>2, <1>6 DEF OverlayInv, InitsInv, ListInv
<1>11. PassInv' /\ OverInv'
  BY <1>1, <1>6 DEF OverlayInv, PassInv, OverInv
<1> QED
  BY <1>5, <1>7, <1>8, <1>9, <1>10, <1>11 DEF OverlayInv

\* A thread begins to unregister a panel, or takes it from the list.
LEMMA UnregisterStep ==
    ASSUME OverlayInv, NEW t \in Threads,
           Unlist(t) \/ \E c \in Panels : Unregister(t, c)
    PROVE  OverlayInv'
<1>a. TypeOK /\ ListInv
  BY DEF OverlayInv
<1>1. /\ UNCHANGED <<slot, pass, rest, at, calling, ready, disabled, asked, captured, hook,
                     inits>>
      /\ step' \in [Threads -> {"idle", "removed", "unlisted"}]
      /\ target' \in [Threads -> Panels \cup {None}]
      /\ entries' \in Seq(Panels) /\ registrations' \subseteq registrations
      /\ Distinct(entries') /\ Within(entries') \subseteq Within(entries)
      /\ \A u \in Threads : step'[u] = "idle" <=> target'[u] = None
      /\ \A c \in registrations : c \in registrations' \/ \E u \in Threads : target'[u] = c
      /\ \A u \in Threads : target[u] # None => target'[u] = target[u]
      /\ \A u \in Threads : target'[u] \in {target[u]} \cup registrations
  <2>1. CASE Unlist(t)
    <3>1. entries' = Without(entries, target[t])
      BY <2>1 DEF Unlist
    <3>2. /\ entries' \in Seq(Panels) /\ Distinct(entries')
          /\ Within(entries') \subseteq Within(entries)
      BY <1>a, <3>1, WithoutList DEF TypeOK, ListInv
    <3> QED
      BY <1>a, <2>1, <3>2 DEF Unlist, frameVars, TypeOK
  <2>2. CASE \E c \in Panels : Unregister(t, c)
    <3>1. PICK c \in Panels : Unregister(t, c)
      BY <2>2
    <3>2. /\ step[t] = "idle" /\ c \in registrations
          /\ step' = [step EXCEPT ![t] = "removed"] /\ target' = [target EXCEPT ![t] = c]
          /\ registrations' = registrations \ {c}
          /\ UNCHANGED <<entries, slot, pass, rest, at, calling, ready, disabled, asked,
                         captured, hook, inits>>
      BY <3>1 DEF Unregister, MayCall, frameVars
    <3>3. target[t] = None
      BY <1>a, <3>2 DEF TypeOK
    <3> QED
      BY <1>a, <3>2, <3>3, OverlayAssumption DEF TypeOK, ListInv
  <2> QED
    BY <2>1, <2>2
<1>2. TypeOK'
  BY <1>a, <1>1 DEF TypeOK
<1>3. ListInv'
  BY <1>a, <1>1 DEF ListInv
<1>4. HeldInv'
  <2> SUFFICES ASSUME NEW c \in Panels, slot[c] \in {"plain", "initialized"}
               PROVE  c \in registrations' \/ \E u \in Threads : target'[u] = c
    BY <1>1 DEF HeldInv
  <2>1. CASE c \in registrations
    BY <1>1, <2>1
  <2>2. CASE \E u \in Threads : target[u] = c
    BY <1>1, <2>2, OverlayAssumption
  <2> QED
    BY <2>1, <2>2 DEF OverlayInv, HeldInv
<1>5. CallInv' /\ InitsInv' /\ PassInv' /\ OverInv'
  BY <1>1 DEF OverlayInv, CallInv, InitsInv, PassInv, OverInv
<1> QED
  BY <1>2, <1>3, <1>4, <1>5 DEF OverlayInv

\* A thread takes the contribution out, which nobody is calling.
LEMMA TakeStep ==
    ASSUME OverlayInv, NEW t \in Threads, Take(t)
    PROVE  OverlayInv'
<1>a. TypeOK /\ ListInv
  BY DEF OverlayInv
<1> DEFINE c == target[t]
<1>1. /\ c \in Panels /\ at # c
      /\ slot' = [slot EXCEPT ![c] = "none"]
      /\ step' = [step EXCEPT ![t] = "idle"] /\ target' = [target EXCEPT ![t] = None]
      /\ UNCHANGED <<entries, registrations, pass, rest, at, calling, ready, disabled, asked,
                     captured, hook, inits>>
  BY <1>a DEF Take, TypeOK, frameVars
<1>2. /\ \A u \in Threads \ {t} : target'[u] = target[u] /\ step'[u] = step[u]
      /\ target'[t] = None /\ step'[t] = "idle"
      /\ slot'[c] = "none" /\ \A d \in Panels \ {c} : slot'[d] = slot[d]
  BY <1>a, <1>1 DEF TypeOK
<1> HIDE DEF c
<1>3. TypeOK'
  <2>1. slot' \in [Panels -> {"unborn", "plain", "initialized", "none"}]
    BY <1>a, <1>1 DEF TypeOK
  <2>2. /\ step' \in [Threads -> {"idle", "removed", "unlisted"}]
        /\ target' \in [Threads -> Panels \cup {None}]
    BY <1>a, <1>1 DEF TypeOK
  <2>3. \A u \in Threads : step'[u] = "idle" <=> target'[u] = None
    BY <1>a, <1>2 DEF TypeOK
  <2> QED
    BY <1>a, <1>1, <2>1, <2>2, <2>3 DEF TypeOK
<1>4. ListInv'
  BY <1>a, <1>1, <1>2, OverlayAssumption DEF ListInv
<1>5. CallInv'
  BY <1>a, <1>1, <1>2 DEF OverlayInv, CallInv, TypeOK
<1>6. HeldInv'
  <2> SUFFICES ASSUME NEW d \in Panels, slot'[d] \in {"plain", "initialized"}
               PROVE  d \in registrations' \/ \E u \in Threads : target'[u] = d
    BY DEF HeldInv
  <2>1. d # c /\ slot[d] \in {"plain", "initialized"}
    BY <1>2
  <2>2. CASE \E u \in Threads : target[u] = d
    <3>1. PICK u \in Threads : target[u] = d
      BY <2>2
    <3> QED
      BY <1>2, <2>1, <3>1 DEF c
  <2> QED
    BY <1>1, <2>1, <2>2 DEF OverlayInv, HeldInv
<1>7. InitsInv'
  <2> SUFFICES ASSUME NEW d \in Panels
               PROVE  /\ inits[d] <= 1
                      /\ slot'[d] = "initialized" => inits[d] = 1
                      /\ at = d /\ calling = "initialize" => inits[d] = 1
                      /\ slot'[d] = "plain" /\ inits[d] # 0 =>
                            (at = d /\ calling = "initialize") \/ disabled
    BY <1>1 DEF InitsInv
  <2>1. slot'[d] = slot[d] \/ slot'[d] = "none"
    BY <1>2
  <2> QED
    BY <2>1 DEF OverlayInv, InitsInv
<1>8. PassInv' /\ OverInv'
  BY <1>1, <1>2 DEF OverlayInv, PassInv, OverInv
<1> QED
  BY <1>3, <1>4, <1>5, <1>6, <1>7, <1>8 DEF OverlayInv

\* What a frame that calls nothing leaves alone.
frameRest == <<entries, slot, registrations, step, target, inits>>

\* A frame begins, a pass ends, or the hooks go.
LEMMA BetweenCallsStep ==
    ASSUME OverlayInv,
           Present \/ DeviceLost \/ EndPass \/ BeginStop \/ Drained
    PROVE  OverlayInv'
<1>a. TypeOK /\ ListInv /\ PassInv /\ OverInv
  BY DEF OverlayInv
<1>1. UNCHANGED frameRest /\ at' = at /\ calling' = calling /\ disabled' = disabled
  BY DEF Present, DeviceLost, EndPass, BeginStop, Drained, frameRest, callVars, frameVars
<1>2. /\ \/ rest' = entries /\ pass' \in Passes
         \/ rest' = rest /\ pass' = pass
         \/ rest' = <<>> /\ pass' = "idle"
      /\ at # None => rest' = rest /\ pass' = pass
  BY <1>a DEF Present, DeviceLost, EndPass, BeginStop, Drained, Enter, callVars, frameVars, Passes,
     TypeOK
<1>3. /\ ready' \in BOOLEAN /\ asked' \subseteq Panels /\ captured' \subseteq Panels
      /\ hook' \in {"installed", "stopping", "removed"}
  <2>1. CASE Present
    BY <1>a, <2>1 DEF Present, TypeOK
  <2>2. CASE DeviceLost
    BY <1>a, <2>2 DEF DeviceLost, frameVars, TypeOK
  <2>3. CASE EndPass
    BY <1>a, <2>3 DEF EndPass, TypeOK
  <2>4. CASE BeginStop \/ Drained
    BY <1>a, <2>4 DEF BeginStop, Drained, frameVars, TypeOK
  <2> QED
    BY <2>1, <2>2, <2>3, <2>4
<1>4. rest' \in Seq(Panels) /\ Distinct(rest') /\ Within(rest') \subseteq Within(rest) \cup Within(entries)
  <2>1. <<>> \in Seq(Panels) /\ Distinct(<<>>) /\ Within(<<>>) = {}
    BY DEF Distinct, Within
  <2> QED
    BY <1>a, <1>2, <2>1 DEF TypeOK, ListInv
<1>b. /\ at = None <=> calling = "none"
      /\ pass = "idle" => at = None /\ rest = <<>>
  BY <1>a DEF TypeOK
<1>c. pass' = "idle" => at' = None /\ rest' = <<>>
  BY <1>1, <1>2, <1>b DEF Passes
<1>5. TypeOK'
  BY <1>a, <1>1, <1>2, <1>3, <1>4, <1>b, <1>c DEF frameRest, TypeOK, Passes
<1>6. ListInv'
  BY <1>a, <1>1, <1>4 DEF frameRest, ListInv
<1>7. CallInv'
  BY <1>1, <1>2 DEF frameRest, OverlayInv, CallInv
<1>8. HeldInv' /\ InitsInv'
  BY <1>1 DEF frameRest, OverlayInv, HeldInv, InitsInv
<1>9. PassInv'
  <2>1. CASE Present
    BY <1>a, <1>1, <2>1 DEF Present, Enter, PassInv, frameRest
  <2>2. CASE DeviceLost \/ BeginStop \/ Drained
    BY <1>a, <1>1, <2>2 DEF DeviceLost, BeginStop, Drained, frameVars, PassInv, frameRest
  <2>3. CASE EndPass
    <3>1. ready' /\ pass' # "initialize"
      BY <1>a, <2>3 DEF EndPass, Enter, PassInv
    <3> QED
      BY <3>1 DEF PassInv
  <2> QED
    BY <2>1, <2>2, <2>3
<1>10. OverInv'
  <2>1. CASE Present
    BY <1>a, <1>1, <2>1 DEF Present, OverInv
  <2>2. CASE DeviceLost \/ BeginStop \/ Drained
    BY <1>a, <1>1, <2>2 DEF DeviceLost, BeginStop, Drained, frameVars, OverInv
  <2>3. CASE EndPass
    BY <1>a, <1>1, <2>3 DEF EndPass, OverInv
  <2> QED
    BY <2>1, <2>2, <2>3
<1> QED
  BY <1>5, <1>6, <1>7, <1>8, <1>9, <1>10 DEF OverlayInv

\* The frame reaches the next panel of its copy.
LEMMA VisitStep ==
    ASSUME OverlayInv, Visit
    PROVE  OverlayInv'
<1> DEFINE c == Head(rest)
<1>a. TypeOK /\ ListInv /\ PassInv /\ OverInv
  BY DEF OverlayInv
<1>1. /\ pass # "idle" /\ at = None /\ rest # <<>>
      /\ UNCHANGED <<entries, slot, registrations, step, target, pass, ready, disabled, asked,
                     captured, hook>>
  BY DEF Visit, callVars
<1>2. /\ c \in Panels /\ c \in Within(rest) /\ Tail(rest) \in Seq(Panels)
      /\ Distinct(Tail(rest)) /\ Within(Tail(rest)) \subseteq Within(rest)
  BY <1>a, <1>1, TailList DEF TypeOK, ListInv
<1>b. calling = "none" /\ ~disabled
  BY <1>a, <1>1 DEF TypeOK, OverInv
<1>3. CASE rest' = Tail(rest) /\ UNCHANGED <<at, calling, inits>>
  <2>1. TypeOK' /\ ListInv'
    BY <1>a, <1>1, <1>2, <1>3 DEF TypeOK, ListInv
  <2>2. CallInv' /\ HeldInv' /\ InitsInv' /\ PassInv' /\ OverInv'
    BY <1>1, <1>2, <1>3 DEF OverlayInv, CallInv, HeldInv, InitsInv, PassInv, OverInv
  <2> QED
    BY <2>1, <2>2 DEF OverlayInv
<1>4. CASE /\ slot[c] = "plain" /\ Calls(c, "initialize") /\ UNCHANGED rest
  <2>1. at' = c /\ calling' = "initialize" /\ inits' = [inits EXCEPT ![c] = @ + 1]
    BY <1>4 DEF Calls
  <2>2. inits[c] = 0
    BY <1>1, <1>2, <1>4, <1>b DEF OverlayInv, InitsInv
  <2>3. inits' \in [Panels -> Nat] /\ inits'[c] = 1
        /\ \A d \in Panels \ {c} : inits'[d] = inits[d]
    BY <1>a, <1>2, <2>1, <2>2 DEF TypeOK
  <2> HIDE DEF c
  <2>4. TypeOK'
    BY <1>a, <1>1, <1>2, <1>4, <2>1, <2>3, OverlayAssumption DEF TypeOK, Passes
  <2>5. ListInv'
    BY <1>a, <1>1, <1>4, <2>3 DEF ListInv
  <2>6. CallInv'
    BY <1>1, <1>4, <2>1 DEF CallInv, c
  <2>7. InitsInv'
    BY <1>1, <1>4, <2>1, <2>3, <1>b DEF OverlayInv, InitsInv
  <2>8. HeldInv' /\ PassInv' /\ OverInv'
    BY <1>1, <1>4 DEF OverlayInv, HeldInv, PassInv, OverInv
  <2> QED
    BY <2>4, <2>5, <2>6, <2>7, <2>8 DEF OverlayInv
<1>5. CASE /\ slot[c] = "initialized" /\ Calls(c, pass) /\ UNCHANGED rest
  <2>1. pass # "initialize"
    BY <1>a, <1>1, <1>2, <1>5, <1>b DEF PassInv
  <2>2. at' = c /\ calling' = pass /\ inits' = inits
    BY <1>5, <2>1 DEF Calls
  <2> HIDE DEF c
  <2>3. TypeOK'
    BY <1>a, <1>1, <1>2, <1>5, <2>2, OverlayAssumption DEF TypeOK, Passes
  <2>4. ListInv'
    BY <1>a, <1>1, <1>5, <2>2 DEF ListInv
  <2>5. CallInv'
    BY <1>1, <1>5, <2>1, <2>2 DEF CallInv, c
  <2>6. InitsInv'
    BY <1>1, <1>5, <2>1, <2>2, <1>b DEF OverlayInv, InitsInv
  <2>7. HeldInv' /\ PassInv' /\ OverInv'
    BY <1>1, <1>5 DEF OverlayInv, HeldInv, PassInv, OverInv
  <2> QED
    BY <2>3, <2>4, <2>5, <2>6, <2>7 DEF OverlayInv
<1> QED
  BY <1>3, <1>4, <1>5 DEF Visit

\* A callback ends, by returning or by a panic.
LEMMA CallbackEnds ==
    ASSUME OverlayInv, Initialized \/ Returns \/ Panic
    PROVE  OverlayInv'
<1>a. TypeOK /\ ListInv /\ PassInv /\ OverInv /\ InitsInv
  BY DEF OverlayInv
<1>1. /\ at # None /\ at \in Panels
      /\ pass # "idle" /\ rest # <<>> /\ at = Head(rest) /\ ~disabled
      /\ slot[at] = IF calling = "initialize" THEN "plain" ELSE "initialized"
      /\ UNCHANGED <<entries, registrations, step, target, hook, inits, ready>>
  BY <1>a DEF Initialized, Returns, Panic, OverlayInv, CallInv, TypeOK, OverInv, callVars
<1>2. /\ at \in Within(rest) /\ Tail(rest) \in Seq(Panels)
      /\ Distinct(Tail(rest)) /\ Within(Tail(rest)) \subseteq Within(rest) \ {at}
  BY <1>a, <1>1, TailList DEF TypeOK, ListInv
<1>3. CASE Initialized
  <2>1. /\ calling = "initialize" /\ slot' = [slot EXCEPT ![at] = "initialized"]
        /\ UNCHANGED <<pass, disabled, asked, captured>>
        /\ \/ pass = "ui" /\ calling' = "ui" /\ at' = at /\ rest' = rest
           \/ pass # "ui" /\ calling' = "none" /\ at' = None /\ rest' = Tail(rest)
    BY <1>3 DEF Initialized
  <2>2. /\ slot' \in [Panels -> {"unborn", "plain", "initialized", "none"}]
        /\ slot'[at] = "initialized" /\ \A d \in Panels \ {at} : slot'[d] = slot[d]
    BY <1>a, <1>1, <2>1 DEF TypeOK
  <2>a. /\ rest' \in Seq(Panels) /\ at' \in Panels \cup {None}
        /\ calling' \in Passes \cup {"none"}
        /\ at' = None <=> calling' = "none"
    BY <1>a, <1>1, <1>2, <2>1 DEF TypeOK, Passes
  <2>3. TypeOK'
    BY <1>a, <1>1, <2>1, <2>2, <2>a DEF TypeOK
  <2>4. ListInv'
    BY <1>a, <1>1, <1>2, <2>1, <2>2 DEF ListInv
  <2>5. CallInv'
    BY <1>1, <2>1, <2>2 DEF CallInv
  <2>6. HeldInv'
    BY <1>1, <2>1, <2>2 DEF OverlayInv, HeldInv
  <2>7. InitsInv'
    <3> SUFFICES ASSUME NEW d \in Panels
                 PROVE  /\ inits[d] <= 1
                        /\ slot'[d] = "initialized" => inits[d] = 1
                        /\ at' = d /\ calling' = "initialize" => inits[d] = 1
                        /\ slot'[d] = "plain" /\ inits[d] # 0 =>
                              (at' = d /\ calling' = "initialize") \/ disabled'
      BY <1>1 DEF InitsInv
    <3>1. CASE d = at
      BY <1>a, <1>1, <2>1, <2>2, <3>1 DEF InitsInv
    <3>2. CASE d # at
      BY <1>a, <1>1, <2>1, <2>2, <3>2 DEF InitsInv
    <3> QED
      BY <3>1, <3>2
  <2>8. PassInv'
    BY <1>a, <1>1, <1>2, <2>1, <2>2 DEF PassInv, TypeOK, Passes
  <2>9. OverInv'
    BY <1>a, <1>1, <2>1 DEF OverInv
  <2> QED
    BY <2>3, <2>4, <2>5, <2>6, <2>7, <2>8, <2>9 DEF OverlayInv
<1>4. CASE Returns
  <2>1. /\ calling # "initialize" /\ at' = None /\ calling' = "none" /\ rest' = Tail(rest)
        /\ UNCHANGED <<slot, pass, disabled, captured>> /\ asked' \subseteq Panels
    BY <1>a, <1>1, <1>4 DEF Returns, TypeOK
  <2>2. TypeOK'
    BY <1>a, <1>1, <1>2, <2>1 DEF TypeOK
  <2>3. ListInv'
    BY <1>a, <1>1, <1>2, <2>1 DEF ListInv
  <2>4. CallInv' /\ HeldInv' /\ OverInv'
    BY <1>a, <1>1, <2>1 DEF OverlayInv, CallInv, HeldInv, OverInv
  <2>5. InitsInv'
    BY <1>a, <1>1, <2>1 DEF InitsInv
  <2>6. PassInv'
    BY <1>a, <1>1, <1>2, <2>1 DEF PassInv
  <2> QED
    BY <2>2, <2>3, <2>4, <2>5, <2>6 DEF OverlayInv
<1>5. CASE Panic
  <2>1. /\ pass' = "idle" /\ rest' = <<>> /\ at' = None /\ calling' = "none"
        /\ disabled' = TRUE /\ captured' = {} /\ UNCHANGED <<slot, asked>>
    BY <1>5 DEF Panic
  <2>2. <<>> \in Seq(Panels) /\ Distinct(<<>>) /\ Within(<<>>) = {}
    BY DEF Distinct, Within
  <2>3. TypeOK'
    BY <1>a, <1>1, <2>1, <2>2 DEF TypeOK
  <2>4. ListInv'
    BY <1>a, <1>1, <2>1, <2>2 DEF ListInv
  <2>5. CallInv' /\ HeldInv' /\ OverInv' /\ PassInv'
    BY <1>1, <2>1 DEF OverlayInv, CallInv, HeldInv, OverInv, PassInv
  <2>6. InitsInv'
    BY <1>a, <1>1, <2>1 DEF InitsInv
  <2> QED
    BY <2>3, <2>4, <2>5, <2>6 DEF OverlayInv
<1> QED
  BY <1>3, <1>4, <1>5

\* The inductive invariant holds whatever mods and frames do.
THEOREM OverlayInvariant == Spec => []OverlayInv
<1>1. OverlayInv /\ [Next]_vars => OverlayInv'
  <2> SUFFICES ASSUME OverlayInv, [Next]_vars PROVE OverlayInv'
    OBVIOUS
  <2>1. CASE Next
    BY <2>1, RegisterStep, UnregisterStep, TakeStep, BetweenCallsStep, VisitStep, CallbackEnds
       DEF Next, Finish, Frame
  <2>2. CASE UNCHANGED vars
    BY <2>2 DEF vars, OverlayInv, TypeOK, ListInv, CallInv, HeldInv, InitsInv, PassInv, OverInv
  <2> QED
    BY <2>1, <2>2
<1> QED
  BY <1>1, OverlayStart, PTL DEF Spec

\* A panel that is gone is not called, none is called before it is initialized, and
\* nothing is withheld from the game when rendering is over.
THEOREM OverlayNothingAfterwards == Spec => []NothingAfterwards
<1>1. ASSUME OverlayInv PROVE NothingAfterwards
  <2>1. TypeOK /\ InputReturnedToGame
    BY <1>1 DEF OverlayInv, OverInv, InputReturnedToGame
  <2>2. ASSUME NEW c \in Panels, Released(c) PROVE at # c
    BY <1>1, <2>2, OverlayAssumption DEF OverlayInv, TypeOK, Released, HeldInv, CallInv
  <2>3. InitializedBeforeUse
    BY <1>1 DEF OverlayInv, TypeOK, InitializedBeforeUse, InitsInv, CallInv
  <2> QED
    BY <2>1, <2>2, <2>3 DEF NothingAfterwards, NoCallAfterUnregister
<1> QED
  BY <1>1, OverlayInvariant, PTL

(***************************************************************************)
(* Who receives a press (InputCapture)                                     *)
(***************************************************************************)

\* The device and the queue agree: the last message of an input that waits says
\* where the device is.  Without the focus nothing waits, and the game has been
\* told that everything is up.
QueueInv ==
    /\ \A i \in DOMAIN queue :
          (\A j \in DOMAIN queue : j > i => queue[j][1] # queue[i][1])
              => queue[i][2] = phys[queue[i][1]]
    /\ ~focused => queue = <<>> /\ \A k \in Input!Inputs : seen[k] = "up"

\* What the game believes to be down belongs to the game, and is down or about to
\* be released; compositions of the IME excepted.
SeenInv ==
    \A k \in Input!Inputs \ composed :
        /\ seen[k] = "down" => owner[k] = "game"
        /\ seen[k] = "down" /\ ~Input!Pending(k) => phys[k] = "down"

\* Whose press it is, in both records.
OwnerInv ==
    /\ \A k \in Input!Inputs : owner[k] = began[k]
    /\ \A k \in told : owner[k] # "nobody" /\ sampled[k] = owner[k]

InputInv == Input!TypeOK /\ QueueInv /\ SeenInv /\ OwnerInv

\* At the start nothing is down.
LEMMA InputStart == Input!Init => InputInv
<1> SUFFICES ASSUME Input!Init PROVE InputInv
  OBVIOUS
<1>1. Input!TypeOK
  <2>1. focused \in BOOLEAN
    BY DEF Input!Init
  <2>2. composing \in BOOLEAN
    BY DEF Input!Init
  <2>3. /\ owner = Input!Unowned /\ sampled = Input!Unowned /\ began = Input!Unowned
        /\ Input!Unowned \in [Input!Inputs -> Input!Recipients \cup {Input!Nobody}]
    BY DEF Input!Init, Input!Unowned
  <2>4. phys \in [Input!Inputs -> {"up", "down"}] /\ seen \in [Input!Inputs -> {"up", "down"}]
    BY DEF Input!Init
  <2>5. queue \in Seq(Input!Inputs \X {"up", "down"}) /\ Len(queue) <= MaxPending
    BY InputAssumption DEF Input!Init
  <2> QED
    BY <2>1, <2>2, <2>3, <2>4, <2>5 DEF Input!Init, Input!TypeOK, Input!Recipients
<1>2. QueueInv /\ SeenInv
  BY DEF Input!Init, QueueInv, SeenInv
<1>3. OwnerInv
  BY DEF Input!Init, OwnerInv, Input!Unowned
<1> QED
  BY <1>1, <1>2, <1>3 DEF InputInv

\* A message joins the end of the queue.
LEMMA AppendMessage ==
    ASSUME NEW k \in Input!Inputs, NEW to \in {"up", "down"}, Input!TypeOK,
           queue' = Append(queue, <<k, to>>)
    PROVE  /\ DOMAIN queue' = 1 .. Len(queue) + 1 /\ Len(queue) \in Nat
           /\ \A i \in 1 .. Len(queue) : queue'[i] = queue[i] /\ queue[i][1] \in Input!Inputs
           /\ queue'[Len(queue) + 1] = <<k, to>>
           /\ DOMAIN queue = 1 .. Len(queue)
BY DEF Input!TypeOK

\* The device moves.
LEMMA DeviceStep ==
    ASSUME InputInv, NEW k \in Input!Inputs, NEW to \in {"up", "down"}, Input!Device(k, to)
    PROVE  InputInv'
<1>a. Input!TypeOK
  BY DEF InputInv
<1>1. /\ phys' = [phys EXCEPT ![k] = to]
      /\ UNCHANGED <<focused, composing, policy, pointer, keyboard, owner, sampled, seen, began,
                     told, composed>>
  BY DEF Input!Device, Input!flags
<1>2. /\ phys' \in [Input!Inputs -> {"up", "down"}]
      /\ phys'[k] = to /\ \A j \in Input!Inputs \ {k} : phys'[j] = phys[j]
  BY <1>a, <1>1 DEF Input!TypeOK
<1>3. CASE focused
  <2>1. Len(queue) < MaxPending /\ queue' = Append(queue, <<k, to>>)
    BY <1>3 DEF Input!Device
  <2>2. /\ DOMAIN queue' = 1 .. Len(queue) + 1 /\ Len(queue) \in Nat
        /\ \A i \in 1 .. Len(queue) : queue'[i] = queue[i] /\ queue[i][1] \in Input!Inputs
        /\ queue'[Len(queue) + 1] = <<k, to>>
        /\ DOMAIN queue = 1 .. Len(queue)
    BY <1>a, <2>1, AppendMessage
  <2>3. Input!TypeOK'
    <3>1. queue' \in Seq(Input!Inputs \X {"up", "down"})
      BY <1>a, <2>1 DEF Input!TypeOK
    <3>2. Len(queue') = Len(queue) + 1
      BY <1>a, <2>1 DEF Input!TypeOK
    <3>3. Len(queue') <= MaxPending
      BY <3>2, <2>1, <2>2, InputAssumption
    <3> QED
      BY <1>a, <1>1, <1>2, <3>1, <3>3 DEF Input!TypeOK
  <2>4. QueueInv'
    <3>1. SUFFICES ASSUME NEW i \in DOMAIN queue',
                          \A j \in DOMAIN queue' : j > i => queue'[j][1] # queue'[i][1]
                   PROVE  queue'[i][2] = phys'[queue'[i][1]]
      BY <1>1, <1>3 DEF QueueInv
    <3>2. CASE i = Len(queue) + 1
      BY <1>2, <2>2, <3>2
    <3>3. CASE i # Len(queue) + 1
      <4>1. i \in 1 .. Len(queue)
        BY <2>2, <3>1, <3>3
      <4>2. queue[i][1] # k
        BY <2>2, <3>1, <4>1
      <4>3. queue[i][2] = phys[queue[i][1]]
        BY <2>2, <3>1, <4>1 DEF InputInv, QueueInv
      <4> QED
        BY <1>2, <2>2, <4>1, <4>2, <4>3
    <3> QED
      BY <3>2, <3>3
  <2>5. SeenInv'
    <3> SUFFICES ASSUME NEW j \in Input!Inputs \ composed, seen[j] = "down"
                 PROVE  owner[j] = "game" /\ (~Input!Pending(j)' => phys'[j] = "down")
      BY <1>1 DEF SeenInv
    <3>1. owner[j] = "game" /\ (~Input!Pending(j) => phys[j] = "down")
      BY DEF InputInv, SeenInv
    <3>2. CASE j = k
      BY <2>2, <3>1, <3>2 DEF Input!Pending
    <3>3. CASE j # k
      BY <1>2, <2>2, <3>1, <3>3 DEF Input!Pending
    <3> QED
      BY <3>2, <3>3
  <2> QED
    BY <1>1, <2>3, <2>4, <2>5 DEF InputInv, OwnerInv
<1>4. CASE ~focused
  <2>1. queue' = queue /\ queue = <<>>
    BY <1>4 DEF Input!Device, InputInv, QueueInv
  <2>2. Input!TypeOK'
    BY <1>a, <1>1, <1>2, <2>1 DEF Input!TypeOK
  <2>3. QueueInv'
    BY <1>1, <1>4, <2>1 DEF InputInv, QueueInv
  <2>4. SeenInv'
    BY <1>1, <1>4 DEF InputInv, QueueInv, SeenInv
  <2> QED
    BY <1>1, <2>2, <2>3, <2>4 DEF InputInv, OwnerInv
<1> QED
  BY <1>3, <1>4

\* The focus goes.
LEMMA LoseFocusStep ==
    ASSUME InputInv, Input!LoseFocus
    PROVE  InputInv'
<1>a. Input!TypeOK
  BY DEF InputInv
<1>1. /\ queue' = <<>> /\ queue = <<>> /\ UNCHANGED <<phys, sampled>>
      /\ focused' = FALSE /\ composing' = FALSE
      /\ policy' = "pass" /\ pointer' = "game" /\ keyboard' = "game"
      /\ owner' = Input!Unowned /\ began' = Input!Unowned /\ told' = {} /\ composed' = {}
      /\ seen' = [k \in Input!Inputs |-> "up"]
  BY DEF Input!LoseFocus
<1>2. Input!TypeOK'
  <2>1. Input!Unowned \in [Input!Inputs -> Input!Recipients \cup {Input!Nobody}]
    BY DEF Input!Unowned
  <2>2. seen' \in [Input!Inputs -> {"up", "down"}]
    BY <1>1
  <2>3. focused' \in BOOLEAN
    BY <1>1
  <2>4. composing' \in BOOLEAN
    BY <1>1
  <2> QED
    BY <1>a, <1>1, <2>1, <2>2, <2>3, <2>4 DEF Input!TypeOK, Input!Recipients
<1>3. QueueInv' /\ SeenInv' /\ OwnerInv'
  BY <1>1 DEF QueueInv, SeenInv, OwnerInv, Input!Unowned
<1> QED
  BY <1>2, <1>3 DEF InputInv

\* A message is handled.
LEMMA MessageStep ==
    ASSUME InputInv, Input!Message
    PROVE  InputInv'
<1>a. Input!TypeOK
  BY DEF InputInv
<1> DEFINE k == Head(queue)[1]
           to == Head(queue)[2]
<1>1. /\ queue # <<>> /\ k \in Input!Inputs /\ to \in {"up", "down"}
      /\ queue' = Tail(queue) /\ focused
      /\ UNCHANGED <<phys, focused, composing, policy, keyboard, sampled>>
  BY <1>a DEF Input!Message, Input!TypeOK, InputInv, QueueInv
<1>2. PICK who \in Input!Recipients :
        /\ pointer' \in Input!Recipients
        /\ owner[k] # "nobody" => who = owner[k]
        /\ owner[k] = "nobody" /\ to = "up" => who = "game"
        /\ owner' = [owner EXCEPT ![k] = IF to = "down" THEN who ELSE "nobody"]
        /\ seen' = IF who = "game" /\ ~Input!Withheld(k) THEN [seen EXCEPT ![k] = to] ELSE seen
        /\ composed' = IF Input!Withheld(k) THEN composed \cup {k}
                       ELSE IF who = "game" THEN composed \ {k} ELSE composed
        /\ began' = [began EXCEPT ![k] = IF to = "up" THEN "nobody"
                                         ELSE IF @ = "nobody" THEN who ELSE @]
        /\ told' = IF to = "up" THEN told \ {k} ELSE told
  <2>1. pointer' \in Input!Recipients
    BY <1>a DEF Input!Message, Input!TypeOK, Input!Captures, Input!Recipients
  <2> DEFINE who == Input!Routed(k, to, IF k \in Buttons THEN pointer' ELSE keyboard)
  <2>2. who \in Input!Recipients
    BY <1>a, <1>1, <2>1 DEF Input!Routed, Input!TypeOK, Input!Recipients, Input!Nobody
  <2>3. /\ owner[k] # "nobody" => who = owner[k]
        /\ owner[k] = "nobody" /\ to = "up" => who = "game"
    BY <1>1 DEF Input!Routed, Input!Nobody
  <2> WITNESS who \in Input!Recipients
  <2> QED
    BY <2>1, <2>3 DEF Input!Message, Input!OwnerAfter, Input!Nobody
<1> HIDE DEF k, to
<1>3. /\ owner'[k] = (IF to = "down" THEN who ELSE "nobody")
      /\ \A j \in Input!Inputs \ {k} : /\ owner'[j] = owner[j] /\ began'[j] = began[j]
                                       /\ seen'[j] = seen[j] /\ (j \in composed' <=> j \in composed)
      /\ seen'[k] = IF who = "game" /\ ~Input!Withheld(k) THEN to ELSE seen[k]
      /\ k \in composed' <=> \/ Input!Withheld(k)
                             \/ k \in composed /\ who # "game"
      /\ began'[k] = (IF to = "up" THEN "nobody" ELSE IF began[k] = "nobody" THEN who ELSE began[k])
  BY <1>a, <1>1, <1>2 DEF Input!TypeOK
<1>4. /\ DOMAIN queue = 1 .. Len(queue) /\ Len(queue) \in Nat \ {0}
      /\ DOMAIN queue' = 1 .. Len(queue) - 1 /\ queue[1] = <<k, to>>
      /\ \A i \in 1 .. Len(queue) - 1 : queue'[i] = queue[i + 1]
  BY <1>a, <1>1 DEF Input!TypeOK, k, to
<1>5. Input!TypeOK'
  <2>1. owner' \in [Input!Inputs -> Input!Recipients \cup {Input!Nobody}]
    BY <1>a, <1>1, <1>2 DEF Input!TypeOK, Input!Nobody
  <2>2. began' \in [Input!Inputs -> Input!Recipients \cup {Input!Nobody}]
    BY <1>a, <1>1, <1>2 DEF Input!TypeOK, Input!Nobody
  <2>3. seen' \in [Input!Inputs -> {"up", "down"}]
    BY <1>a, <1>1, <1>2 DEF Input!TypeOK
  <2>4. composed' \subseteq Keys
    BY <1>a, <1>2 DEF Input!TypeOK, Input!Withheld
  <2>5. queue' \in Seq(Input!Inputs \X {"up", "down"}) /\ Len(queue') = Len(queue) - 1
    BY <1>a, <1>1 DEF Input!TypeOK
  <2>6. Len(queue') <= MaxPending
    BY <1>a, <1>4, <2>5, InputAssumption DEF Input!TypeOK
  <2> QED
    BY <1>a, <1>1, <1>2, <2>1, <2>2, <2>3, <2>4, <2>5, <2>6 DEF Input!TypeOK
<1>6. QueueInv'
  <2> SUFFICES ASSUME NEW i \in DOMAIN queue',
                      \A j \in DOMAIN queue' : j > i => queue'[j][1] # queue'[i][1]
               PROVE  queue'[i][2] = phys'[queue'[i][1]]
    BY <1>1 DEF QueueInv
  <2>1. /\ i + 1 \in DOMAIN queue /\ queue'[i] = queue[i + 1]
        /\ \A j \in DOMAIN queue : j > i + 1 => queue[j] = queue'[j - 1] /\ j - 1 \in DOMAIN queue'
    BY <1>4
  <2>2. \A j \in DOMAIN queue : j > i + 1 => queue[j][1] # queue[i + 1][1]
    <3> TAKE j \in DOMAIN queue
    <3> HAVE j > i + 1
    <3>1. queue[j] = queue'[j - 1] /\ j - 1 \in DOMAIN queue' /\ j - 1 > i
      BY <1>4, <2>1
    <3> QED
      BY <2>1, <3>1
  <2> QED
    BY <1>1, <2>1, <2>2 DEF InputInv, QueueInv
<1>7. SeenInv'
  <2> SUFFICES ASSUME NEW j \in Input!Inputs \ composed', seen'[j] = "down"
               PROVE  owner'[j] = "game" /\ (~Input!Pending(j)' => phys'[j] = "down")
    BY DEF SeenInv
  <2>1. CASE j # k
    <3>1. owner[j] = "game" /\ (~Input!Pending(j) => phys[j] = "down")
      BY <1>3, <2>1 DEF InputInv, SeenInv
    <3>2. Input!Pending(j) => Input!Pending(j)'
      <4>1. SUFFICES ASSUME NEW i \in DOMAIN queue, queue[i][1] = j PROVE Input!Pending(j)'
        BY DEF Input!Pending
      <4>2. i # 1 /\ i - 1 \in DOMAIN queue' /\ queue'[i - 1] = queue[i]
        BY <1>4, <2>1, <4>1
      <4> QED
        BY <4>1, <4>2 DEF Input!Pending
    <3> QED
      BY <1>1, <1>3, <2>1, <3>1, <3>2
  <2>2. CASE j = k
    <3>1. ~Input!Withheld(k)
      BY <1>3, <2>2
    <3>2. k \notin composed \/ who = "game"
      BY <1>3, <2>2, <3>1
    <3>3. to = "down" /\ who = "game"
      <4>1. CASE who = "game"
        BY <1>3, <2>2, <3>1, <4>1
      <4>2. CASE who # "game"
        <5>1. seen[k] = "down" /\ k \notin composed
          BY <1>3, <2>2, <3>2, <4>2
        <5>2. owner[k] = "game"
          BY <1>1, <5>1 DEF InputInv, SeenInv
        <5> QED
          BY <1>2, <4>2, <5>2
      <4> QED
        BY <4>1, <4>2
    <3>4. owner'[k] = "game"
      BY <1>3, <3>3
    <3>5. ASSUME ~Input!Pending(j)' PROVE phys'[j] = "down"
      <4>1. \A i \in DOMAIN queue : i > 1 => queue[i][1] # queue[1][1]
        <5> TAKE i \in DOMAIN queue
        <5> HAVE i > 1
        <5>1. i - 1 \in DOMAIN queue' /\ queue'[i - 1] = queue[i]
          BY <1>4
        <5>2. queue'[i - 1][1] # j
          BY <3>5, <5>1 DEF Input!Pending
        <5>3. queue[1][1] = j
          BY <1>4, <2>2
        <5> QED
          BY <5>1, <5>2, <5>3
      <4>2. queue[1][2] = phys[queue[1][1]]
        BY <1>4, <4>1 DEF InputInv, QueueInv
      <4> QED
        BY <1>1, <1>4, <2>2, <3>3, <4>2
    <3> QED
      BY <2>2, <3>4, <3>5
  <2> QED
    BY <2>1, <2>2
<1>8. OwnerInv'
  <2>1. \A j \in Input!Inputs : owner'[j] = began'[j]
    BY <1>1, <1>2, <1>3 DEF InputInv, OwnerInv
  <2>2. ASSUME NEW j \in told' PROVE owner'[j] # "nobody" /\ sampled'[j] = owner'[j]
    <3>1. j \in told /\ j \in Input!Inputs /\ (j = k => to = "down")
      BY <1>a, <1>1, <1>2, <2>2 DEF Input!TypeOK
    <3> QED
      BY <1>1, <1>2, <1>3, <3>1 DEF InputInv, OwnerInv
  <2> QED
    BY <2>1, <2>2 DEF OwnerInv
<1> QED
  BY <1>5, <1>6, <1>7, <1>8 DEF InputInv

\* The game takes a sample.
LEMMA SampleStep ==
    ASSUME InputInv, NEW old, old \in {sampled, Input!Unowned}, Input!Sample(old)
    PROVE  InputInv'
<1>a. Input!TypeOK
  BY DEF InputInv
<1>1. /\ UNCHANGED <<phys, queue, focused, composing, policy, pointer, keyboard, owner, seen, began,
                     composed>>
      /\ sampled' \in [Input!Inputs -> Input!Recipients \cup {Input!Nobody}]
      /\ told' \subseteq Input!Inputs
  BY DEF Input!Sample, Input!flags
<1>2. Input!TypeOK'
  BY <1>a, <1>1 DEF Input!TypeOK
<1>3. QueueInv' /\ SeenInv'
  BY <1>1 DEF InputInv, QueueInv, SeenInv, Input!Pending
<1>4. ASSUME NEW k \in told' PROVE owner'[k] # "nobody" /\ sampled'[k] = owner'[k]
  <2>1. /\ k \in Input!Inputs /\ phys[k] = "down" /\ sampled'[k] \in Input!SampleOwners(old, k)
        /\ k \in told \/ (old[k] = "nobody" /\ owner[k] # "nobody")
    BY <1>1, <1>4 DEF Input!Sample, Input!Nobody
  <2>2. k \in told => owner[k] # "nobody" /\ sampled[k] = owner[k]
    BY DEF InputInv, OwnerInv
  <2>3. old[k] = sampled[k] \/ old[k] = "nobody"
    BY <2>1 DEF Input!Unowned, Input!Nobody
  <2> QED
    BY <1>1, <2>1, <2>2, <2>3 DEF Input!SampleOwners, Input!Nobody
<1>5. OwnerInv'
  BY <1>1, <1>4 DEF InputInv, OwnerInv
<1> QED
  BY <1>2, <1>3, <1>5 DEF InputInv

\* Frames and the IME do not touch a press.
LEMMA PolicyStep ==
    ASSUME InputInv,
           Input!GainFocus \/ Input!Compose \/ Input!Update \/ Input!ClearCapture
    PROVE  InputInv'
<1>a. Input!TypeOK
  BY DEF InputInv
<1>1. /\ UNCHANGED <<phys, queue, owner, sampled, seen, began, told, composed>>
      /\ focused => focused'
  BY DEF Input!GainFocus, Input!Compose, Input!Update, Input!ClearCapture
<1>2. focused' \in BOOLEAN
  BY <1>a DEF Input!GainFocus, Input!Compose, Input!Update, Input!ClearCapture, Input!TypeOK
<1>3. composing' \in BOOLEAN
  BY <1>a DEF Input!GainFocus, Input!Compose, Input!Update, Input!ClearCapture, Input!TypeOK
<1>4. /\ policy' \in {"auto", "block", "pass"}
      /\ pointer' \in Input!Recipients /\ keyboard' \in Input!Recipients
  BY <1>a DEF Input!GainFocus, Input!Compose, Input!Update, Input!ClearCapture, Input!TypeOK,
     Input!flags, Input!Captures, Input!Recipients
<1>5. Input!TypeOK'
  BY <1>a, <1>1, <1>2, <1>3, <1>4 DEF Input!TypeOK
<1>6. QueueInv' /\ SeenInv' /\ OwnerInv'
  BY <1>1 DEF InputInv, QueueInv, SeenInv, OwnerInv, Input!Pending
<1> QED
  BY <1>5, <1>6 DEF InputInv

\* The inductive invariant holds however device, messages, frames and samples mix.
THEOREM InputInvariant == Input!Spec => []InputInv
<1>1. InputInv /\ [Input!Next]_(Input!vars) => InputInv'
  <2> SUFFICES ASSUME InputInv, [Input!Next]_(Input!vars) PROVE InputInv'
    OBVIOUS
  <2>1. CASE Input!Next
    BY <2>1, DeviceStep, LoseFocusStep, MessageStep, SampleStep, PolicyStep
       DEF Input!Next, Input!Poll, Input!NewDevice
  <2>2. CASE UNCHANGED Input!vars
    BY <2>2 DEF Input!vars, InputInv, Input!TypeOK, QueueInv, SeenInv, OwnerInv, Input!Pending
  <2> QED
    BY <2>1, <2>2
<1> QED
  BY <1>1, InputStart, PTL DEF Input!Spec

\* A held button or key keeps its recipient through its release.
THEOREM InputHeldKeepsRecipient == Input!Spec => []HeldKeepsRecipient
<1>1. ASSUME InputInv PROVE HeldKeepsRecipient
  <2>1. Input!TypeOK /\ OwnerInv
    BY <1>1 DEF InputInv
  <2>2. \A k \in Input!Inputs : phys[k] = "up" /\ ~Input!Pending(k) /\ focused /\ k \notin composed
            => seen[k] = "up"
    BY <1>1 DEF InputInv, SeenInv, Input!TypeOK
  <2> QED
    BY <2>1, <2>2 DEF OwnerInv, HeldKeepsRecipient, Input!HeldKeepsRecipient
<1> QED
  BY <1>1, InputInvariant, PTL

(***************************************************************************)
(* The login window (Login)                                                *)
(***************************************************************************)

Sessions ==
    {x \in [server : Servers, existing : SUBSET Ids, fresh : SUBSET Ids, entrance : BOOLEAN] :
        Cardinality(x.existing \cup x.fresh) <= Limit}
Operations == {"idle", "creating", "confirming", "deleting"}
SignInPages ==
    [page : {"sign_in"}, form : LoginWindow!Forms \cup {Absent}, submitting : BOOLEAN]
CharacterPages ==
    [page : {"characters"}, form : LoginWindow!Forms, sign_in : Sessions,
     selection : Ids \cup {New}, operation : Operations, subject : Ids \cup {Absent}]

\* The page is one of the three and belongs to the connection.
PageInv ==
    /\ model \in SignInPages \cup CharacterPages \cup {LoginWindow!Closing}
    /\ connection \in Servers \cup {Absent}
    /\ settings \in {"game", "server", Absent} /\ window \in {"open", "closed"}
    /\ stored \in [Servers -> Servers \cup {Absent}]
    /\ \A s \in Servers : stored[s] \in {s, Absent}
    /\ LoginWindow!OnSignIn /\ model.form # Absent => model.form.typed_for = connection
    /\ LoginWindow!OnSignIn /\ model.submitting =>
          /\ model.form \in LoginWindow!Forms /\ model.form.typed_for = connection
          /\ connection \in Servers
    /\ LoginWindow!OnCharacters =>
          /\ model.form.typed_for = connection /\ connection \in Servers
          /\ model.sign_in.server = connection

\* One request is under way, as a thread or as an answer, exactly while the page
\* waits; and the settings are not open then.
FlightInv ==
    /\ \A r \in LoginWindow!Under : r.form.typed_for = r.server
    /\ window = "open" =>
        /\ settings # Absent => LoginWindow!Awaited = {}
        /\ \/ LoginWindow!Awaited = {} /\ requests = {} /\ answers = <<>>
           \/ \E r : /\ LoginWindow!Awaited = {r.kind} /\ r.server = connection
                     /\ r.form.typed_for = r.server
                     /\ \/ requests = {r} /\ answers = <<>>
                        \/ requests = {} /\ \E x : answers = <<[request |-> r, result |-> x]>>

\* The selection names a character in the list, or there is room for a new one, and
\* a creation under way has the room.
SelectionInv ==
    LoginWindow!OnCharacters =>
        /\ \/ model.selection \in model.sign_in.existing
           \/ model.selection = New /\ LoginWindow!has_new_slot
        /\ model.subject # Absent => model.subject \in model.sign_in.existing
        /\ model.operation = "creating" =>
              /\ model.sign_in.entrance
              /\ Cardinality(model.sign_in.existing \cup model.sign_in.fresh) < Limit

\* What was launched passes the checks of the start.
LaunchInv ==
    launch # Absent =>
        /\ launch.sign_in.server = launch.encoding /\ launch.form.typed_for = launch.encoding
        /\ launch.selected \in LoginWindow!CharacterIds(launch.sign_in)
        /\ Cardinality(LoginWindow!CharacterIds(launch.sign_in)) <= Limit
        /\ launch.sign_in.entrance \/ launch.encoding \in Tcp

LoginInv == PageInv /\ FlightInv /\ SelectionInv /\ LaunchInv

\* A form that was filled in from the credential store is of its server.
LEMMA SavedForms ==
    ASSUME PageInv, NEW s \in Servers, NEW form \in LoginWindow!SavedForm(s)
    PROVE  /\ form \in LoginWindow!Forms \cup {Absent}
           /\ form # Absent => form.typed_for = s
<1>1. stored[s] \in {s, Absent}
  BY DEF PageInv
<1>2. CASE form = Absent
  BY <1>2
<1>3. CASE form # Absent
  <2>1. form = [typed_for |-> s, remember |-> TRUE]
    BY <1>1, <1>3 DEF LoginWindow!SavedForm, LoginWindow!Blank
  <2>2. TRUE \in BOOLEAN
    OBVIOUS
  <2> QED
    BY <2>1, <2>2 DEF LoginWindow!Forms
<1> QED
  BY <1>2, <1>3

\* A page to sign in on that waits for nothing.
LEMMA FreshPage ==
    ASSUME NEW form \in LoginWindow!Forms \cup {Absent},
           model' = LoginWindow!SignInPage(form, FALSE)
    PROVE  /\ model' \in SignInPages /\ LoginWindow!OnSignIn' /\ ~LoginWindow!OnCharacters'
           /\ model'.form = form /\ ~model'.submitting /\ LoginWindow!Awaited' = {}
<1>1. FALSE \in BOOLEAN
  OBVIOUS
<1> QED
  BY <1>1 DEF LoginWindow!SignInPage, SignInPages, LoginWindow!OnSignIn, LoginWindow!OnCharacters,
     LoginWindow!Awaited

\* The window opens.
LEMMA LoginStart == LoginWindow!Init => LoginInv
<1> SUFFICES ASSUME LoginWindow!Init PROVE LoginInv
  OBVIOUS
<1>1. /\ stored \in [Servers -> Servers \cup {Absent}] /\ \A s \in Servers : stored[s] \in {s, Absent}
      /\ requests = {} /\ answers = <<>> /\ launch = Absent /\ window = "open"
      /\ connection \in Servers \cup {Absent} /\ settings \in {"server", Absent}
  BY DEF LoginWindow!Init
<1>2. PICK form \in LoginWindow!Forms \cup {Absent} :
        model = LoginWindow!SignInPage(form, FALSE) /\ (form # Absent => form.typed_for = connection)
  <2>1. CASE model = LoginWindow!SignInPage(Absent, FALSE)
    BY <2>1
  <2>2. CASE connection \in Servers /\ \E form \in LoginWindow!SavedForm(connection) :
                model = LoginWindow!SignInPage(form, FALSE)
    <3>1. PICK form \in LoginWindow!SavedForm(connection) :
            model = LoginWindow!SignInPage(form, FALSE)
      BY <2>2
    <3>2. stored[connection] \in {connection, Absent}
      BY <1>1, <2>2
    <3>3. form \in LoginWindow!Forms \cup {Absent} /\ (form # Absent => form.typed_for = connection)
      <4>1. CASE form = Absent
        BY <4>1
      <4>2. CASE form # Absent
        <5>1. form = [typed_for |-> connection, remember |-> TRUE]
          BY <3>1, <3>2, <4>2 DEF LoginWindow!SavedForm, LoginWindow!Blank
        <5>2. TRUE \in BOOLEAN
          OBVIOUS
        <5> QED
          BY <2>2, <5>1, <5>2 DEF LoginWindow!Forms
      <4> QED
        BY <4>1, <4>2
    <3> QED
      BY <3>1, <3>3
  <2> QED
    BY <2>1, <2>2 DEF LoginWindow!Init, LoginWindow!Blank
<1>3. /\ model \in SignInPages /\ LoginWindow!OnSignIn /\ ~LoginWindow!OnCharacters
      /\ model.form = form /\ ~model.submitting /\ LoginWindow!Awaited = {}
  <2>1. FALSE \in BOOLEAN
    OBVIOUS
  <2> QED
    BY <1>2, <2>1 DEF LoginWindow!SignInPage, SignInPages, LoginWindow!OnSignIn,
       LoginWindow!OnCharacters, LoginWindow!Awaited
<1>4. PageInv
  BY <1>1, <1>2, <1>3 DEF PageInv
<1>5. FlightInv
  BY <1>1, <1>3 DEF FlightInv, LoginWindow!Under
<1>6. SelectionInv /\ LaunchInv
  BY <1>1, <1>3 DEF SelectionInv, LaunchInv
<1> QED
  BY <1>4, <1>5, <1>6 DEF LoginInv

\* Opening and leaving the settings, and closing the window.
LEMMA WindowStep ==
    ASSUME LoginInv,
           \/ \E category \in {"game", "server"} : LoginWindow!OpenSettings(category)
           \/ LoginWindow!CancelSettings \/ LoginWindow!CloseWindow
    PROVE  LoginInv'
<1>1. /\ UNCHANGED <<model, connection, requests, answers, stored, launch>>
      /\ settings' \in {"game", "server", Absent} /\ window' \in {"open", "closed"}
      /\ window' = "open" => window = "open"
      /\ settings' = settings \/ settings' = Absent \/ LoginWindow!can_configure
  BY DEF LoginWindow!OpenSettings, LoginWindow!CancelSettings, LoginWindow!CloseWindow, LoginInv, PageInv
<1>2. LoginWindow!Awaited' = LoginWindow!Awaited /\ LoginWindow!Under' = LoginWindow!Under
  BY <1>1 DEF LoginWindow!Awaited, LoginWindow!Under, LoginWindow!OnSignIn, LoginWindow!OnCharacters
<1>3. LoginWindow!can_configure => LoginWindow!Awaited = {}
  BY DEF LoginWindow!can_configure, LoginWindow!Awaited, LoginWindow!is_idle, LoginWindow!OnSignIn,
     LoginWindow!OnCharacters
<1>4. PageInv'
  BY <1>1 DEF LoginInv, PageInv, LoginWindow!OnSignIn, LoginWindow!OnCharacters
<1>5. FlightInv'
  BY <1>1, <1>2, <1>3 DEF LoginInv, FlightInv
<1>6. SelectionInv' /\ LaunchInv'
  BY <1>1 DEF LoginInv, SelectionInv, LaunchInv, LoginWindow!OnCharacters, LoginWindow!has_new_slot
<1> QED
  BY <1>4, <1>5, <1>6 DEF LoginInv

\* Nothing is under way when the page waits for nothing.
LEMMA NothingUnderWay ==
    ASSUME FlightInv, window = "open", LoginWindow!Awaited = {}
    PROVE  requests = {} /\ answers = <<>>
BY DEF FlightInv

\* A page to sign in on takes the place of one that waits for nothing.
LEMMA FreshPageStep ==
    ASSUME LoginInv, window = "open", window' = "open", settings' \in {"game", "server", Absent},
           connection' \in Servers \cup {Absent}, UNCHANGED <<stored, launch>>,
           requests' = {}, answers' = <<>>,
           NEW form \in LoginWindow!Forms \cup {Absent}, form # Absent => form.typed_for = connection',
           model' = LoginWindow!SignInPage(form, FALSE)
    PROVE  LoginInv'
<1>1. /\ model' \in SignInPages /\ LoginWindow!OnSignIn' /\ ~LoginWindow!OnCharacters'
      /\ model'.form = form /\ ~model'.submitting /\ LoginWindow!Awaited' = {}
  BY FreshPage
<1>2. PageInv'
  BY <1>1 DEF LoginInv, PageInv
<1>3. FlightInv'
  BY <1>1 DEF FlightInv, LoginWindow!Under
<1>4. SelectionInv' /\ LaunchInv'
  BY <1>1 DEF LoginInv, SelectionInv, LaunchInv
<1> QED
  BY <1>2, <1>3, <1>4 DEF LoginInv

\* The settings are saved, with another server or not.
LEMMA SaveSettingsStep ==
    ASSUME LoginInv, LoginWindow!SaveSettings
    PROVE  LoginInv'
<1>1. /\ window = "open" /\ settings # Absent /\ settings' = Absent
      /\ UNCHANGED <<requests, answers, stored, launch, window>>
  BY DEF LoginWindow!SaveSettings
<1>2. requests = {} /\ answers = <<>> /\ LoginWindow!Awaited = {}
  BY <1>1, NothingUnderWay DEF LoginInv, FlightInv
<1>3. CASE UNCHANGED <<model, connection>>
  <2>1. LoginWindow!Awaited' = LoginWindow!Awaited
    BY <1>3 DEF LoginWindow!Awaited, LoginWindow!OnSignIn, LoginWindow!OnCharacters
  <2>2. PageInv' /\ SelectionInv' /\ LaunchInv'
    BY <1>1, <1>3 DEF LoginInv, PageInv, SelectionInv, LaunchInv, LoginWindow!OnSignIn,
       LoginWindow!OnCharacters, LoginWindow!has_new_slot
  <2>3. FlightInv'
    BY <1>1, <1>2, <2>1 DEF FlightInv, LoginWindow!Under
  <2> QED
    BY <2>2, <2>3 DEF LoginInv
<1>4. CASE \E s \in Servers : LoginWindow!use_connection(s)
  <2>1. PICK s \in Servers : LoginWindow!use_connection(s)
    BY <1>4
  <2>2. PICK form \in LoginWindow!SavedForm(s) :
          connection' = s /\ model' = LoginWindow!SignInPage(form, FALSE)
    BY <2>1 DEF LoginWindow!use_connection
  <2>3. form \in LoginWindow!Forms \cup {Absent} /\ (form # Absent => form.typed_for = s)
    BY SavedForms DEF LoginInv
  <2> QED
    BY <1>1, <1>2, <2>2, <2>3, FreshPageStep
<1> QED
  BY <1>3, <1>4 DEF LoginWindow!SaveSettings

\* What the user does that leads to a page to sign in on.
LEMMA SignInPageStep ==
    ASSUME LoginInv, LoginWindow!Type \/ LoginWindow!ToggleRemember \/ LoginWindow!SignOut
    PROVE  LoginInv'
<1>1. /\ window = "open" /\ settings = Absent
      /\ UNCHANGED <<connection, settings, requests, answers, stored, launch, window>>
  BY DEF LoginWindow!Type, LoginWindow!ToggleRemember, LoginWindow!SignOut, LoginWindow!Page,
     LoginWindow!OnlyModel
<1>2. LoginWindow!Awaited = {}
  BY DEF LoginWindow!Type, LoginWindow!ToggleRemember, LoginWindow!SignOut, LoginWindow!is_idle,
     LoginWindow!Awaited, LoginWindow!OnSignIn, LoginWindow!OnCharacters
<1>3. requests = {} /\ answers = <<>>
  BY <1>1, <1>2, NothingUnderWay DEF LoginInv
<1>4. \E form \in LoginWindow!Forms \cup {Absent} :
        /\ form # Absent => form.typed_for = connection
        /\ model' = LoginWindow!SignInPage(form, FALSE)
  <2>1. CASE LoginWindow!Type
    <3>1. PICK r \in BOOLEAN :
            model' = LoginWindow!SignInPage([typed_for |-> connection, remember |-> r], FALSE)
      BY <2>1 DEF LoginWindow!Type
    <3>2. [typed_for |-> connection, remember |-> r] \in LoginWindow!Forms
      BY DEF LoginInv, PageInv, LoginWindow!Forms
    <3> QED
      BY <3>1, <3>2
  <2>2. CASE LoginWindow!ToggleRemember
    <3>1. /\ model \in SignInPages /\ model.form \in LoginWindow!Forms /\ ~model.submitting
          /\ model.form.typed_for = connection
          /\ model' = [model EXCEPT !.form.remember = ~@]
      BY <2>2 DEF LoginWindow!ToggleRemember, LoginInv, PageInv, LoginWindow!OnSignIn, SignInPages,
         CharacterPages, LoginWindow!Closing, LoginWindow!Blank
    <3> DEFINE form == [typed_for |-> connection, remember |-> ~model.form.remember]
    <3>2. form \in LoginWindow!Forms
      <4>1. (~model.form.remember) \in BOOLEAN
        OBVIOUS
      <4> QED
        BY <4>1 DEF LoginInv, PageInv, LoginWindow!Forms
    <3>3. model' = LoginWindow!SignInPage(form, FALSE)
      BY <3>1 DEF SignInPages, LoginWindow!Forms, LoginWindow!SignInPage
    <3> QED
      BY <3>2, <3>3
  <2>3. CASE LoginWindow!SignOut
    <3>1. model \in CharacterPages /\ model.form.typed_for = connection
      BY <2>3 DEF LoginWindow!SignOut, LoginWindow!is_idle, LoginInv, PageInv, SignInPages,
         LoginWindow!OnCharacters, LoginWindow!Closing
    <3> QED
      BY <2>3, <3>1 DEF LoginWindow!SignOut, CharacterPages
  <2> QED
    BY <2>1, <2>2, <2>3
<1> QED
  BY <1>1, <1>3, <1>4, FreshPageStep DEF LoginInv, PageInv

\* A request leaves the page, which waits for it.
LEMMA AskStep ==
    ASSUME LoginInv, window = "open", requests = {}, answers = <<>>,
           NEW r, requests' = {r}, r.server = connection, r.form.typed_for = connection,
           settings = Absent, UNCHANGED <<connection, settings, answers, stored, launch, window>>,
           LoginWindow!Awaited' = {r.kind}, PageInv', SelectionInv'
    PROVE  LoginInv'
<1>1. LoginWindow!Under' = {r}
  BY DEF LoginWindow!Under
<1>2. FlightInv'
  BY <1>1 DEF FlightInv
<1>3. LaunchInv'
  BY DEF LoginInv, LaunchInv
<1> QED
  BY <1>2, <1>3 DEF LoginInv

\* The form is submitted.
LEMMA SignInStep ==
    ASSUME LoginInv, LoginWindow!SignIn
    PROVE  LoginInv'
<1> DEFINE r == LoginWindow!Request("sign_in", model.form, Absent)
<1>1. /\ window = "open" /\ settings = Absent /\ LoginWindow!OnSignIn /\ ~model.submitting
      /\ model.form # Absent /\ connection # Absent
      /\ model' = LoginWindow!SignInPage(model.form, TRUE)
      /\ requests' = requests \cup {r}
      /\ UNCHANGED <<connection, settings, answers, stored, launch, window>>
  BY DEF LoginWindow!SignIn, LoginWindow!Page, LoginWindow!Asks, LoginWindow!OnlyAsked, LoginWindow!Blank
<1>2. LoginWindow!Awaited = {}
  BY <1>1 DEF LoginWindow!Awaited
<1>3. requests = {} /\ answers = <<>>
  BY <1>1, <1>2, NothingUnderWay DEF LoginInv
<1>4. /\ model \in SignInPages /\ model.form \in LoginWindow!Forms
      /\ model.form.typed_for = connection /\ connection \in Servers
  BY <1>1 DEF LoginInv, PageInv, LoginWindow!OnSignIn, SignInPages, CharacterPages, LoginWindow!Closing
<1>5. /\ model' \in SignInPages /\ LoginWindow!OnSignIn' /\ ~LoginWindow!OnCharacters'
      /\ model'.form = model.form /\ model'.submitting /\ LoginWindow!Awaited' = {"sign_in"}
  <2>1. TRUE \in BOOLEAN
    OBVIOUS
  <2> QED
    BY <1>1, <1>4, <2>1 DEF LoginWindow!SignInPage, SignInPages, LoginWindow!OnSignIn,
       LoginWindow!OnCharacters, LoginWindow!Awaited
<1>6. PageInv' /\ SelectionInv'
  BY <1>1, <1>4, <1>5 DEF LoginInv, PageInv, SelectionInv
<1>7. r.kind = "sign_in" /\ r.server = connection /\ r.form = model.form
  BY DEF LoginWindow!Request
<1> HIDE DEF r
<1> QED
  BY <1>1, <1>3, <1>4, <1>5, <1>6, <1>7, AskStep

\* A page with characters: what it has, and what stays when it is changed in place.
LEMMA OnCharactersPage ==
    ASSUME PageInv, LoginWindow!OnCharacters
    PROVE  /\ model \in CharacterPages /\ ~LoginWindow!OnSignIn
           /\ model.form \in LoginWindow!Forms
           /\ model.form.typed_for = connection /\ connection \in Servers
           /\ model.sign_in \in Sessions /\ model.sign_in.server = connection
           /\ model.operation \in Operations /\ model.selection \in Ids \cup {New}
           /\ model.subject \in Ids \cup {Absent} /\ model.page = "characters"
<1>1. model \in CharacterPages
  BY DEF PageInv, LoginWindow!OnCharacters, SignInPages, LoginWindow!Closing
<1> QED
  BY <1>1 DEF PageInv, CharacterPages, LoginWindow!OnCharacters, LoginWindow!OnSignIn

\* It stays, with the connection and what belongs to it.
LEMMA CharactersPageStays ==
    ASSUME PageInv, connection \in Servers, model' \in CharacterPages,
           model'.form.typed_for = connection, model'.sign_in.server = connection,
           UNCHANGED <<connection, settings, stored, window>>
    PROVE  /\ PageInv' /\ LoginWindow!OnCharacters' /\ ~LoginWindow!OnSignIn'
<1>1. LoginWindow!OnCharacters' /\ ~LoginWindow!OnSignIn'
  BY DEF CharacterPages, LoginWindow!OnCharacters, LoginWindow!OnSignIn
<1> QED
  BY <1>1 DEF PageInv

\* The login window counts its characters as this module does.
LEMMA LoginCardinality == \A S : LoginWindow!Cardinality(S) = Cardinality(S)
BY DEF LoginWindow!Cardinality, Cardinality

\* The list of a session is finite.
LEMMA SessionList ==
    ASSUME NEW x \in Sessions
    PROVE  /\ x.existing \subseteq Ids /\ x.fresh \subseteq Ids
           /\ IsFiniteSet(x.existing \cup x.fresh)
           /\ Cardinality(x.existing \cup x.fresh) \in Nat
           /\ Cardinality(x.existing \cup x.fresh) <= Limit
           /\ LoginWindow!CharacterIds(x) = x.existing \cup x.fresh
<1>1. x.existing \subseteq Ids /\ x.fresh \subseteq Ids
  BY DEF Sessions
<1>2. IsFiniteSet(x.existing \cup x.fresh)
  BY <1>1, SignAssumption, FS_Subset
<1> QED
  BY <1>1, <1>2, FS_CardinalityType DEF Sessions, LoginWindow!CharacterIds

\* What a choice leaves: the selection is in the list or has room, and so is what
\* is to be deleted.
Chosen ==
    /\ model' \in CharacterPages /\ model'.form = model.form /\ model'.sign_in = model.sign_in
    /\ model'.operation \in {"idle", "confirming"}
    /\ \/ model'.selection = model.selection
       \/ model'.selection \in model.sign_in.existing
       \/ model'.selection = New /\ LoginWindow!has_new_slot
    /\ \/ model'.subject \in {model.subject, Absent}
       \/ model'.subject \in model.sign_in.existing

\* The user selects, or asks to delete and thinks better of it.
LEMMA ChooseStep ==
    ASSUME LoginInv,
           \/ \E selection \in Ids \cup {New} : LoginWindow!Select(selection)
           \/ LoginWindow!DeleteCharacter \/ LoginWindow!CancelDeletion
    PROVE  LoginInv'
<1>1. /\ window = "open" /\ LoginWindow!OnCharacters /\ model.operation \in {"idle", "confirming"}
      /\ UNCHANGED <<connection, settings, requests, answers, stored, launch, window>>
  BY DEF LoginWindow!Select, LoginWindow!DeleteCharacter, LoginWindow!CancelDeletion,
     LoginWindow!Page, LoginWindow!is_idle, LoginWindow!deletion_target, LoginWindow!OnlyModel
<1>2. PageInv
  BY DEF LoginInv
<1>3. /\ model \in CharacterPages /\ ~LoginWindow!OnSignIn
      /\ model.form.typed_for = connection /\ connection \in Servers
      /\ model.sign_in \in Sessions /\ model.sign_in.server = connection
      /\ model.selection \in Ids \cup {New} /\ model.page = "characters"
  BY <1>1, <1>2, OnCharactersPage
<1>4. LoginWindow!Awaited = {}
  BY <1>1, <1>3 DEF LoginWindow!Awaited
<1>5. requests = {} /\ answers = <<>>
  BY <1>1, <1>4, NothingUnderWay DEF LoginInv
<1>6. Chosen
  <2>1. ASSUME NEW selection \in Ids \cup {New}, LoginWindow!Select(selection)
        PROVE  Chosen
    <3>1. /\ model' = [model EXCEPT !.selection = selection]
          /\ selection \in model.sign_in.existing \/ (selection = New /\ LoginWindow!has_new_slot)
      BY <2>1 DEF LoginWindow!Select
    <3>2. model' \in CharacterPages
      BY <1>3, <3>1 DEF CharacterPages
    <3> QED
      BY <1>1, <1>3, <3>1, <3>2 DEF CharacterPages, Chosen
  <2>2. CASE LoginWindow!DeleteCharacter
    <3>1. /\ model' = [model EXCEPT !.operation = "confirming", !.subject = model.selection]
          /\ model.selection \in model.sign_in.existing
      BY <2>2 DEF LoginWindow!DeleteCharacter
    <3>2. model.selection \in Ids
      BY <1>3, <3>1, SessionList
    <3>3. model' \in CharacterPages
      BY <1>3, <3>1, <3>2 DEF CharacterPages, Operations
    <3> QED
      BY <1>1, <1>3, <3>1, <3>3 DEF CharacterPages, Chosen
  <2>3. CASE LoginWindow!CancelDeletion
    <3>1. model' = [model EXCEPT !.operation = "idle", !.subject = Absent]
      BY <2>3 DEF LoginWindow!CancelDeletion, LoginWindow!Idle
    <3>2. model' \in CharacterPages
      BY <1>3, <3>1 DEF CharacterPages, Operations
    <3> QED
      BY <1>1, <1>3, <3>1, <3>2 DEF CharacterPages, Chosen
  <2> QED
    BY <2>1, <2>2, <2>3
<1>7. PageInv' /\ LoginWindow!OnCharacters' /\ ~LoginWindow!OnSignIn'
  BY <1>1, <1>2, <1>3, <1>6, CharactersPageStays DEF Chosen
<1>8. LoginWindow!Awaited' = {}
  BY <1>6, <1>7 DEF LoginWindow!Awaited, Chosen
<1>9. FlightInv'
  BY <1>1, <1>5, <1>8 DEF FlightInv, LoginWindow!Under
<1>10. SelectionInv'
  <2>1. LoginWindow!has_new_slot' <=> LoginWindow!has_new_slot
    BY <1>6 DEF LoginWindow!has_new_slot, LoginWindow!CharacterIds, Chosen
  <2>2. /\ \/ model.selection \in model.sign_in.existing
           \/ model.selection = New /\ LoginWindow!has_new_slot
        /\ model.subject # Absent => model.subject \in model.sign_in.existing
    BY <1>1 DEF LoginInv, SelectionInv
  <2> QED
    BY <1>6, <2>1, <2>2 DEF SelectionInv, Chosen
<1>11. LaunchInv'
  BY <1>1 DEF LoginInv, LaunchInv
<1> QED
  BY <1>7, <1>9, <1>10, <1>11 DEF LoginInv

\* A deletion is confirmed.
LEMMA ConfirmStep ==
    ASSUME LoginInv, LoginWindow!ConfirmDeletion
    PROVE  LoginInv'
<1> DEFINE r == LoginWindow!Request("delete", model.form, model.subject)
<1>1. /\ window = "open" /\ settings = Absent /\ LoginWindow!OnCharacters
      /\ model.operation = "confirming"
      /\ UNCHANGED <<connection, settings, answers, stored, launch, window>>
      /\ \/ model' = [model EXCEPT !.operation = "deleting"] /\ requests' = requests \cup {r}
         \/ model' = [model EXCEPT !.operation = "idle", !.subject = Absent] /\ requests' = requests
  BY DEF LoginWindow!ConfirmDeletion, LoginWindow!Page, LoginWindow!deletion_target,
     LoginWindow!OnlyAsked, LoginWindow!Asks, LoginWindow!Idle
<1>2. PageInv
  BY DEF LoginInv
<1>3. /\ model \in CharacterPages /\ ~LoginWindow!OnSignIn
      /\ model.form.typed_for = connection /\ connection \in Servers
      /\ model.sign_in \in Sessions /\ model.sign_in.server = connection
  BY <1>1, <1>2, OnCharactersPage
<1>4. LoginWindow!Awaited = {}
  BY <1>1, <1>3 DEF LoginWindow!Awaited
<1>5. requests = {} /\ answers = <<>>
  BY <1>1, <1>4, NothingUnderWay DEF LoginInv
<1>r. r.kind = "delete" /\ r.server = connection /\ r.form = model.form
  BY DEF LoginWindow!Request
<1> HIDE DEF r
<1>6. /\ model' \in CharacterPages /\ model'.form = model.form /\ model'.sign_in = model.sign_in
      /\ model'.selection = model.selection /\ model'.subject \in {model.subject, Absent}
      /\ \/ model'.operation = "deleting" /\ requests' = {r}
         \/ model'.operation = "idle" /\ requests' = {}
  <2>1. model' \in CharacterPages
    BY <1>1, <1>3 DEF CharacterPages, Operations
  <2> QED
    BY <1>1, <1>3, <1>5, <2>1 DEF CharacterPages
<1>7. PageInv' /\ LoginWindow!OnCharacters' /\ ~LoginWindow!OnSignIn'
  BY <1>1, <1>2, <1>3, <1>6, CharactersPageStays
<1>8. SelectionInv'
  <2>1. LoginWindow!has_new_slot' <=> LoginWindow!has_new_slot
    BY <1>6 DEF LoginWindow!has_new_slot, LoginWindow!CharacterIds
  <2> QED
    BY <1>1, <1>6, <2>1 DEF LoginInv, SelectionInv
<1>9. CASE model'.operation = "deleting" /\ requests' = {r}
  <2>1. LoginWindow!Awaited' = {r.kind}
    BY <1>7, <1>9, <1>r DEF LoginWindow!Awaited
  <2> QED
    BY <1>1, <1>3, <1>5, <1>7, <1>8, <1>9, <1>r, <2>1, AskStep
<1>10. CASE model'.operation = "idle" /\ requests' = {}
  <2>1. LoginWindow!Awaited' = {}
    BY <1>7, <1>10 DEF LoginWindow!Awaited
  <2>2. FlightInv'
    BY <1>1, <1>5, <1>10, <2>1 DEF FlightInv, LoginWindow!Under
  <2> QED
    BY <1>1, <1>7, <1>8, <2>2 DEF LoginInv, LaunchInv
<1> QED
  BY <1>6, <1>9, <1>10

\* The page closes with a launch.
LEMMA LaunchesStep ==
    ASSUME LoginInv, window = "open", requests' = {}, answers' = <<>>,
           UNCHANGED <<connection, settings, stored, window>>, connection \in Servers,
           NEW form, form.typed_for = connection,
           NEW session, session.server = connection, NEW id,
           id \in LoginWindow!CharacterIds(session),
           Cardinality(LoginWindow!CharacterIds(session)) <= Limit,
           session.entrance \/ connection \in Tcp,
           LoginWindow!Launches(form, session, id)
    PROVE  LoginInv'
<1>1. /\ model' = LoginWindow!Closing
      /\ launch' = [form |-> form, sign_in |-> session, selected |-> id, encoding |-> connection]
  BY DEF LoginWindow!Launches
<1>2. ~LoginWindow!OnCharacters' /\ ~LoginWindow!OnSignIn' /\ LoginWindow!Awaited' = {}
  BY <1>1 DEF LoginWindow!Closing, LoginWindow!OnCharacters, LoginWindow!OnSignIn, LoginWindow!Awaited
<1>3. PageInv'
  BY <1>1, <1>2 DEF LoginInv, PageInv
<1>4. FlightInv'
  BY <1>2 DEF FlightInv, LoginWindow!Under
<1>5. SelectionInv' /\ LaunchInv'
  BY <1>1, <1>2 DEF SelectionInv, LaunchInv
<1> QED
  BY <1>3, <1>4, <1>5 DEF LoginInv

\* The user launches a character, or has one made.
LEMMA LaunchStep ==
    ASSUME LoginInv, LoginWindow!Launch
    PROVE  LoginInv'
<1>1. /\ window = "open" /\ settings = Absent /\ LoginWindow!OnCharacters
      /\ model.operation = "idle" /\ model.sign_in.entrance
      /\ UNCHANGED <<connection, settings, answers, stored, window>>
  BY DEF LoginWindow!Launch, LoginWindow!Page, LoginWindow!Launchable, LoginWindow!MayCreate,
     LoginWindow!is_idle, LoginWindow!OnlyAsked
<1>2. PageInv
  BY DEF LoginInv
<1>3. /\ model \in CharacterPages /\ ~LoginWindow!OnSignIn
      /\ model.form.typed_for = connection /\ connection \in Servers
      /\ model.sign_in \in Sessions /\ model.sign_in.server = connection
  BY <1>1, <1>2, OnCharactersPage
<1>4. LoginWindow!Awaited = {}
  BY <1>1, <1>3 DEF LoginWindow!Awaited
<1>5. requests = {} /\ answers = <<>>
  BY <1>1, <1>4, NothingUnderWay DEF LoginInv
<1>6. CASE /\ \E id \in LoginWindow!Launchable : LoginWindow!Launches(model.form, model.sign_in, id)
           /\ UNCHANGED requests
  <2>1. PICK id \in LoginWindow!Launchable : LoginWindow!Launches(model.form, model.sign_in, id)
    BY <1>6
  <2>2. id \in LoginWindow!CharacterIds(model.sign_in)
    BY <2>1 DEF LoginWindow!Launchable, LoginWindow!CharacterIds
  <2>3. Cardinality(LoginWindow!CharacterIds(model.sign_in)) <= Limit
    BY <1>3, SessionList
  <2> QED
    BY <1>1, <1>3, <1>5, <1>6, <2>1, <2>2, <2>3, LaunchesStep
<1>7. CASE /\ LoginWindow!MayCreate
           /\ model' = [model EXCEPT !.operation = "creating"]
           /\ LoginWindow!Asks(LoginWindow!Request("create", model.form, Absent))
           /\ LoginWindow!OnlyAsked
  <2> DEFINE r == LoginWindow!Request("create", model.form, Absent)
  <2>1. r.kind = "create" /\ r.server = connection /\ r.form = model.form /\ requests' = {r}
    BY <1>5, <1>7 DEF LoginWindow!Request, LoginWindow!Asks
  <2> HIDE DEF r
  <2>2. /\ model' \in CharacterPages /\ model'.form = model.form /\ model'.sign_in = model.sign_in
        /\ model'.selection = model.selection /\ model'.subject = model.subject
        /\ model'.operation = "creating"
    <3>1. model' \in CharacterPages
      BY <1>3, <1>7 DEF CharacterPages, Operations
    <3> QED
      BY <1>3, <1>7, <3>1 DEF CharacterPages
  <2>3. PageInv' /\ LoginWindow!OnCharacters' /\ ~LoginWindow!OnSignIn'
    BY <1>1, <1>2, <1>3, <2>2, CharactersPageStays
  <2>4. SelectionInv'
    <3>1. LoginWindow!has_new_slot' <=> LoginWindow!has_new_slot
      BY <2>2 DEF LoginWindow!has_new_slot, LoginWindow!CharacterIds
    <3>2. Cardinality(model.sign_in.existing \cup model.sign_in.fresh) < Limit
      <4>1. LoginWindow!CharacterIds(model.sign_in) = model.sign_in.existing \cup model.sign_in.fresh
        BY <1>3, SessionList
      <4>2. Cardinality(LoginWindow!CharacterIds(model.sign_in)) < Limit
        BY <1>7, LoginCardinality DEF LoginWindow!MayCreate
      <4> QED
        BY <4>1, <4>2
    <3> QED
      BY <1>1, <2>2, <3>1, <3>2 DEF LoginInv, SelectionInv
  <2>5. LoginWindow!Awaited' = {r.kind}
    BY <2>1, <2>2, <2>3 DEF LoginWindow!Awaited
  <2>6. UNCHANGED launch
    BY <1>7 DEF LoginWindow!OnlyAsked
  <2> QED
    BY <1>1, <1>3, <1>5, <2>1, <2>3, <2>4, <2>5, <2>6, AskStep
<1> QED
  BY <1>6, <1>7 DEF LoginWindow!Launch

\* A request is answered.
LEMMA AnswerStep ==
    ASSUME LoginInv, NEW r \in requests, LoginWindow!Answer(r)
    PROVE  LoginInv'
<1>1. /\ requests' = requests \ {r}
      /\ UNCHANGED <<model, connection, settings, launch, window>>
      /\ \E result : answers' = IF window = "closed" THEN answers
                                ELSE Append(answers, [request |-> r, result |-> result])
      /\ \/ UNCHANGED stored
         \/ stored' = [stored EXCEPT ![r.server] =
                                 IF r.form.remember THEN r.form.typed_for ELSE Absent]
  BY DEF LoginWindow!Answer
<1>2. r.form.typed_for = r.server
  BY DEF LoginInv, FlightInv, LoginWindow!Under
<1>3. /\ stored' \in [Servers -> Servers \cup {Absent}]
      /\ \A s \in Servers : stored'[s] \in {s, Absent}
  <2>1. /\ stored \in [Servers -> Servers \cup {Absent}]
        /\ \A s \in Servers : stored[s] \in {s, Absent}
    BY DEF LoginInv, PageInv
  <2>2. CASE UNCHANGED stored
    BY <2>1, <2>2
  <2>3. CASE stored' = [stored EXCEPT ![r.server] =
                          IF r.form.remember THEN r.form.typed_for ELSE Absent]
    <3>1. stored' = [stored EXCEPT ![r.server] = IF r.form.remember THEN r.server ELSE Absent]
      BY <1>2, <2>3
    <3> QED
      BY <2>1, <3>1
  <2> QED
    BY <1>1, <2>2, <2>3
<1>4. PageInv'
  BY <1>1, <1>3 DEF LoginInv, PageInv, LoginWindow!OnSignIn, LoginWindow!OnCharacters
<1>5. LoginWindow!Awaited' = LoginWindow!Awaited
  BY <1>1 DEF LoginWindow!Awaited, LoginWindow!OnSignIn, LoginWindow!OnCharacters
<1>6. FlightInv'
  <2>1. CASE window = "closed"
    BY <1>1, <2>1 DEF LoginInv, FlightInv, LoginWindow!Under
  <2>2. CASE window # "closed"
    <3>1. window = "open"
      BY <2>2 DEF LoginInv, PageInv
    <3>2. /\ settings # Absent => LoginWindow!Awaited = {}
          /\ LoginWindow!Awaited = {r.kind} /\ r.server = connection /\ requests = {r} /\ answers = <<>>
      BY <3>1 DEF LoginInv, FlightInv
    <3>3. PICK x : answers' = <<[request |-> r, result |-> x]>>
      <4>1. PICK x : answers' = Append(answers, [request |-> r, result |-> x])
        BY <1>1, <2>2
      <4>2. Append(<< >>, [request |-> r, result |-> x]) = <<[request |-> r, result |-> x]>>
        OBVIOUS
      <4> QED
        BY <3>2, <4>1, <4>2
    <3>4. requests' = {}
      BY <1>1, <3>2
    <3>5. DOMAIN answers' = 1 .. 1 /\ answers'[1].request = r
      BY <3>3
    <3>6. LoginWindow!Under' = {r}
      BY <3>4, <3>5 DEF LoginWindow!Under
    <3> QED
      BY <1>1, <1>2, <1>5, <3>2, <3>3, <3>4, <3>6 DEF FlightInv
  <2> QED
    BY <2>1, <2>2
<1>7. SelectionInv' /\ LaunchInv'
  BY <1>1 DEF LoginInv, SelectionInv, LaunchInv, LoginWindow!OnCharacters, LoginWindow!has_new_slot
<1> QED
  BY <1>4, <1>6, <1>7 DEF LoginInv
\* What a Sign server lets through is a session of its own.
LEMMA SuccessIsSession ==
    ASSUME NEW s \in Servers, NEW x \in LoginWindow!SignInSuccess(s)
    PROVE  x \in Sessions /\ x.server = s
<1>1. /\ x \in [server : {s}, existing : SUBSET Ids, fresh : SUBSET Ids, entrance : BOOLEAN]
      /\ LoginWindow!Cardinality(x.existing \cup x.fresh) <= Limit
  BY DEF LoginWindow!SignInSuccess
<1>2. Cardinality(x.existing \cup x.fresh) <= Limit
  BY <1>1, LoginCardinality
<1>3. x \in [server : Servers, existing : SUBSET Ids, fresh : SUBSET Ids, entrance : BOOLEAN]
  BY <1>1
<1> QED
  BY <1>1, <1>2, <1>3 DEF Sessions

\* Room for another character, in a list.
Room(session) ==
    session.fresh # {} \/ Cardinality(session.existing \cup session.fresh) < Limit
LEMMA RoomIsNewSlot == LoginWindow!has_new_slot <=> Room(model.sign_in)
BY LoginCardinality DEF LoginWindow!has_new_slot, LoginWindow!CharacterIds, Room

\* An answer leaves an idle page with characters.
LEMMA SettledStep ==
    ASSUME LoginInv, window = "open", requests' = {}, answers' = << >>,
           UNCHANGED <<connection, settings, stored, launch, window>>, connection \in Servers,
           model' \in CharacterPages, model'.form.typed_for = connection,
           model'.sign_in.server = connection, model'.operation = "idle", model'.subject = Absent,
           \/ model'.selection \in model'.sign_in.existing
           \/ model'.selection = New /\ Room(model'.sign_in)
    PROVE  LoginInv'
<1>1. PageInv' /\ LoginWindow!OnCharacters' /\ ~LoginWindow!OnSignIn'
  BY CharactersPageStays DEF LoginInv
<1>2. LoginWindow!Awaited' = {}
  BY <1>1 DEF LoginWindow!Awaited
<1>3. FlightInv'
  BY <1>2 DEF FlightInv, LoginWindow!Under
<1>4. LoginWindow!has_new_slot' <=> Room(model'.sign_in)
  BY LoginCardinality DEF LoginWindow!has_new_slot, LoginWindow!CharacterIds, Room
<1>5. SelectionInv'
  BY <1>4 DEF SelectionInv
<1>6. LaunchInv'
  BY DEF LoginInv, LaunchInv
<1> QED
  BY <1>1, <1>3, <1>5, <1>6 DEF LoginInv

\* The sign-in is answered.
LEMMA SignedInStep ==
    ASSUME LoginInv, window = "open", requests' = {}, answers' = << >>,
           UNCHANGED <<connection, settings, stored, launch, window>>,
           LoginWindow!OnSignIn, model.submitting,
           NEW r, r.server = connection, NEW x, LoginWindow!SignedIn(r, x)
    PROVE  LoginInv'
<1>1. model.form \in LoginWindow!Forms /\ model.form.typed_for = connection /\ connection \in Servers
  BY DEF LoginInv, PageInv
<1>2. CASE x = "ok"
  <2>0. PICK session \in LoginWindow!SignInSuccess(connection) :
           \E selection \in LoginWindow!FirstSelection(session) :
              model' = LoginWindow!CharactersPage(model.form, session, selection)
    BY <1>2 DEF LoginWindow!SignedIn
  <2>1. PICK selection \in LoginWindow!FirstSelection(session) :
           model' = LoginWindow!CharactersPage(model.form, session, selection)
    BY <2>0
  <2>2. session \in Sessions /\ session.server = connection
    BY <1>1, <2>0, SuccessIsSession
  <2>3. \/ selection \in session.existing
        \/ selection = New /\ Room(session)
    <3>1. CASE LoginWindow!CharacterIds(session) = {}
      <4>1. selection = New /\ session.existing \cup session.fresh = {}
        BY <2>1, <3>1 DEF LoginWindow!FirstSelection, LoginWindow!CharacterIds
      <4>2. Cardinality(session.existing \cup session.fresh) = 0
        BY <4>1, FS_EmptySet
      <4> QED
        BY <4>1, <4>2, SignAssumption DEF Room
    <3>2. CASE LoginWindow!CharacterIds(session) # {}
      BY <2>1, <3>2 DEF LoginWindow!FirstSelection, Room
    <3> QED
      BY <3>1, <3>2
  <2>4. selection \in Ids \cup {New}
    BY <2>2, <2>3, SessionList
  <2>5. model' \in CharacterPages
    BY <1>1, <2>1, <2>2, <2>4 DEF LoginWindow!CharactersPage, CharacterPages, Operations
  <2>6. /\ model'.form = model.form /\ model'.sign_in = session /\ model'.selection = selection
        /\ model'.operation = "idle" /\ model'.subject = Absent
    BY <2>1 DEF LoginWindow!CharactersPage
  <2> QED
    BY <1>1, <2>2, <2>3, <2>5, <2>6, SettledStep
<1>3. CASE x # "ok"
  <2>1. model' = LoginWindow!SignInPage(model.form, FALSE)
    BY <1>3 DEF LoginWindow!SignedIn
  <2>2. settings' \in {"game", "server", Absent}
    BY DEF LoginInv, PageInv
  <2> QED
    BY <1>1, <2>1, <2>2, FreshPageStep
<1> QED
  BY <1>2, <1>3

\* A character operation fails.
LEMMA FailedStep ==
    ASSUME LoginInv, window = "open", requests' = {}, answers' = << >>,
           UNCHANGED <<connection, settings, stored, launch, window>>,
           LoginWindow!OnCharacters, NEW x, LoginWindow!OperationFailed(x)
    PROVE  LoginInv'
<1>1. /\ model \in CharacterPages /\ model.form \in LoginWindow!Forms
      /\ model.form.typed_for = connection /\ connection \in Servers
      /\ model.sign_in.server = connection
  BY OnCharactersPage DEF LoginInv
<1>2. CASE x = "invalid_session"
  <2>1. model' = LoginWindow!SignInPage(model.form, FALSE)
    BY <1>2 DEF LoginWindow!OperationFailed
  <2>2. settings' \in {"game", "server", Absent}
    BY DEF LoginInv, PageInv
  <2> QED
    BY <1>1, <2>1, <2>2, FreshPageStep
<1>3. CASE x # "invalid_session"
  <2>1. model' = [model EXCEPT !.operation = "idle", !.subject = Absent]
    BY <1>3 DEF LoginWindow!OperationFailed, LoginWindow!Idle
  <2>2. model' \in CharacterPages
    BY <1>1, <2>1 DEF CharacterPages, Operations
  <2>3. /\ model'.form = model.form /\ model'.sign_in = model.sign_in
        /\ model'.selection = model.selection
        /\ model'.operation = "idle" /\ model'.subject = Absent
    BY <1>1, <2>1 DEF CharacterPages
  <2>4. \/ model.selection \in model.sign_in.existing
        \/ model.selection = New /\ Room(model.sign_in)
    BY RoomIsNewSlot DEF LoginInv, SelectionInv
  <2> QED
    BY <1>1, <2>2, <2>3, <2>4, SettledStep
<1> QED
  BY <1>2, <1>3

\* A character was made: it is launched, with the list it is in.
LEMMA CreatedStep ==
    ASSUME LoginInv, window = "open", requests' = {}, answers' = << >>,
           UNCHANGED <<connection, settings, stored, window>>,
           LoginWindow!OnCharacters, model.operation = "creating",
           NEW r, r.server = connection, LoginWindow!CharacterCreated(r)
    PROVE  LoginInv'
<1>1. /\ model \in CharacterPages /\ model.form.typed_for = connection /\ connection \in Servers
      /\ model.sign_in \in Sessions /\ model.sign_in.server = connection
  BY OnCharactersPage DEF LoginInv
<1>2. CASE connection \in Tcp
  <2>1. PICK session \in LoginWindow!SignInSuccess(connection) :
           IF session.fresh = {}
           THEN LoginWindow!OperationFailed("error") /\ UNCHANGED launch
           ELSE \E id \in session.fresh : LoginWindow!Launches(model.form, session, id)
    BY <1>2 DEF LoginWindow!CharacterCreated
  <2>2. session \in Sessions /\ session.server = connection
    BY <1>1, <2>1, SuccessIsSession
  <2>3. CASE LoginWindow!OperationFailed("error") /\ UNCHANGED launch
    BY <2>3, FailedStep
  <2>4. ASSUME NEW id \in session.fresh, LoginWindow!Launches(model.form, session, id)
        PROVE  LoginInv'
    <3>1. id \in LoginWindow!CharacterIds(session)
      BY <2>4 DEF LoginWindow!CharacterIds
    <3>2. Cardinality(LoginWindow!CharacterIds(session)) <= Limit
      BY <2>2, SessionList
    <3> QED
      BY <1>1, <1>2, <2>2, <2>4, <3>1, <3>2, LaunchesStep
  <2> QED
    BY <2>1, <2>3, <2>4
<1>3. CASE connection \notin Tcp
  <2>1. PICK id \in Ids, is_new \in BOOLEAN :
           LoginWindow!Launches(model.form, LoginWindow!WithCharacter(model.sign_in, id, is_new), id)
    BY <1>3 DEF LoginWindow!CharacterCreated
  <2> DEFINE session == LoginWindow!WithCharacter(model.sign_in, id, is_new)
  <2>2. /\ session.server = connection /\ session.entrance = model.sign_in.entrance
        /\ session.existing \cup session.fresh
              = (model.sign_in.existing \cup model.sign_in.fresh) \cup {id}
    <3>1. model.sign_in \in [server : Servers, existing : SUBSET Ids, fresh : SUBSET Ids,
                             entrance : BOOLEAN]
      BY <1>1 DEF Sessions
    <3>2. CASE is_new
      BY <1>1, <3>1, <3>2 DEF LoginWindow!WithCharacter
    <3>3. CASE ~is_new
      BY <1>1, <3>1, <3>3 DEF LoginWindow!WithCharacter
    <3> QED
      BY <3>2, <3>3
  <2> HIDE DEF session
  <2>3. model.sign_in.entrance /\ Cardinality(model.sign_in.existing \cup model.sign_in.fresh) < Limit
    BY DEF LoginInv, SelectionInv
  <2>4. Cardinality((model.sign_in.existing \cup model.sign_in.fresh) \cup {id}) <= Limit
    <3>1. /\ IsFiniteSet(model.sign_in.existing \cup model.sign_in.fresh)
          /\ Cardinality(model.sign_in.existing \cup model.sign_in.fresh) \in Nat
      BY <1>1, SessionList
    <3>2. Cardinality((model.sign_in.existing \cup model.sign_in.fresh) \cup {id})
            \in {Cardinality(model.sign_in.existing \cup model.sign_in.fresh),
                 Cardinality(model.sign_in.existing \cup model.sign_in.fresh) + 1}
      BY <3>1, FS_AddElement
    <3> QED
      BY <2>3, <3>1, <3>2, SignAssumption
  <2>5. LoginWindow!CharacterIds(session) = (model.sign_in.existing \cup model.sign_in.fresh) \cup {id}
    BY <2>2 DEF LoginWindow!CharacterIds
  <2>6. LoginWindow!Launches(model.form, session, id)
    BY <2>1 DEF session
  <2> QED
    BY <1>1, <2>2, <2>3, <2>4, <2>5, <2>6, LaunchesStep
<1> QED
  BY <1>2, <1>3

\* A character was deleted: another one is selected if it was the selected one.
LEMMA DeletedStep ==
    ASSUME LoginInv, window = "open", requests' = {}, answers' = << >>,
           UNCHANGED <<connection, settings, stored, launch, window>>,
           LoginWindow!OnCharacters, NEW id, LoginWindow!CharacterDeleted(id)
    PROVE  LoginInv'
<1>1. /\ model \in CharacterPages /\ model.form.typed_for = connection /\ connection \in Servers
      /\ model.sign_in \in Sessions /\ model.sign_in.server = connection
      /\ model.selection \in Ids \cup {New}
  BY OnCharactersPage DEF LoginInv
<1> DEFINE existing == model.sign_in.existing
           fresh == model.sign_in.fresh
           session == [model.sign_in EXCEPT !.existing = existing \ {id}, !.fresh = fresh \ {id}]
<1>2. /\ model.sign_in \in [server : Servers, existing : SUBSET Ids, fresh : SUBSET Ids,
                            entrance : BOOLEAN]
      /\ existing \subseteq Ids /\ fresh \subseteq Ids /\ IsFiniteSet(existing \cup fresh)
      /\ Cardinality(existing \cup fresh) \in Nat /\ Cardinality(existing \cup fresh) <= Limit
  BY <1>1, SessionList DEF Sessions
<1>3. /\ session \in [server : Servers, existing : SUBSET Ids, fresh : SUBSET Ids, entrance : BOOLEAN]
      /\ session.server = connection
      /\ session.existing = existing \ {id} /\ session.fresh = fresh \ {id}
  BY <1>1, <1>2
<1>4. PICK selection :
        /\ model' = [model EXCEPT !.operation = "idle", !.subject = Absent, !.sign_in = session,
                                  !.selection = selection]
        /\ \/ selection = model.selection /\ selection # id
           \/ selection \in existing \ {id}
           \/ selection = New /\ existing \ {id} = {}
  <2>1. LoginWindow!Deleted(id)
          = [model EXCEPT !.operation = "idle", !.subject = Absent, !.sign_in = session]
    BY <1>1, <1>2 DEF LoginWindow!Deleted, LoginWindow!Idle, CharacterPages
  <2>2. CASE model.selection # id
    <3>1. model' = [model EXCEPT !.operation = "idle", !.subject = Absent, !.sign_in = session]
      BY <2>1, <2>2 DEF LoginWindow!CharacterDeleted
    <3>2. model' = [model EXCEPT !.operation = "idle", !.subject = Absent, !.sign_in = session,
                                 !.selection = model.selection]
      BY <1>1, <3>1 DEF CharacterPages
    <3> QED
      BY <2>2, <3>2
  <2>3. CASE model.selection = id
    <3>1. PICK next \in (IF existing \ {id} = {} THEN {New} ELSE existing \ {id}) :
            model' = [LoginWindow!Deleted(id) EXCEPT !.selection = next]
      BY <2>3 DEF LoginWindow!CharacterDeleted
    <3>2. model' = [model EXCEPT !.operation = "idle", !.subject = Absent, !.sign_in = session,
                                 !.selection = next]
      BY <1>1, <2>1, <3>1 DEF CharacterPages
    <3> QED
      BY <3>1, <3>2
  <2> QED
    BY <2>2, <2>3
<1> HIDE DEF session
<1>5. /\ IsFiniteSet(session.existing \cup session.fresh)
      /\ Cardinality(session.existing \cup session.fresh) <= Cardinality(existing \cup fresh)
      /\ Cardinality(session.existing \cup session.fresh) \in Nat
  <2>1. session.existing \cup session.fresh \subseteq existing \cup fresh
    BY <1>3
  <2> QED
    BY <1>2, <2>1, FS_Subset, FS_CardinalityType
<1>6. session \in Sessions
  <2>1. Cardinality(session.existing \cup session.fresh) <= Limit
    <3> HIDE DEF existing, fresh
    <3> QED
      BY <1>2, <1>5, SignAssumption
  <2> QED
    BY <1>3, <2>1 DEF Sessions
<1>7. \/ selection \in session.existing
      \/ selection = New /\ Room(session)
  <2>1. CASE selection \in existing \ {id}
    BY <1>3, <2>1
  <2>2. CASE selection = New /\ existing \ {id} = {}
    <3>1. CASE session.fresh = {}
      <4>1. session.existing \cup session.fresh = {}
        BY <1>3, <2>2, <3>1
      <4>2. Cardinality(session.existing \cup session.fresh) = 0
        BY <4>1, FS_EmptySet
      <4> QED
        BY <2>2, <4>2, SignAssumption DEF Room
    <3> QED
      BY <2>2, <3>1 DEF Room
  <2>3. CASE selection = model.selection /\ selection # id
    <3>1. \/ model.selection \in existing
          \/ model.selection = New /\ Room(model.sign_in)
      BY RoomIsNewSlot DEF LoginInv, SelectionInv
    <3>2. ASSUME Room(model.sign_in), session.fresh = {}
          PROVE  Cardinality(session.existing \cup session.fresh) < Limit
      <4>1. CASE fresh = {}
        BY <1>2, <1>5, <3>2, <4>1, SignAssumption DEF Room
      <4>2. CASE fresh # {}
        <5>1. id \in fresh
          BY <1>3, <3>2, <4>2
        <5>2. session.existing \cup session.fresh = (existing \cup fresh) \ {id}
          BY <1>3
        <5>3. Cardinality((existing \cup fresh) \ {id}) = Cardinality(existing \cup fresh) - 1
          BY <1>2, <5>1, FS_RemoveElement
        <5>4. Cardinality(session.existing \cup session.fresh) = Cardinality(existing \cup fresh) - 1
          BY <5>2, <5>3
        <5> HIDE DEF existing, fresh
        <5> QED
          BY <1>2, <5>4, SignAssumption
      <4> QED
        BY <4>1, <4>2
    <3> QED
      BY <1>3, <2>3, <3>1, <3>2 DEF Room
  <2> QED
    BY <1>4, <2>1, <2>2, <2>3
<1>8. selection \in Ids \cup {New}
  BY <1>6, <1>7, SessionList
<1>9. model' \in CharacterPages
  BY <1>1, <1>4, <1>6, <1>8 DEF CharacterPages, Operations
<1>10. /\ model'.form = model.form /\ model'.sign_in = session /\ model'.selection = selection
       /\ model'.operation = "idle" /\ model'.subject = Absent
  BY <1>1, <1>4 DEF CharacterPages
<1> QED
  BY <1>1, <1>3, <1>7, <1>9, <1>10, SettledStep

\* The frame takes an answer, which meets the page that asked for it.
LEMMA DispatchStep ==
    ASSUME LoginInv, LoginWindow!Dispatch
    PROVE  LoginInv'
<1>1. /\ window = "open" /\ answers # << >> /\ answers' = Tail(answers)
      /\ UNCHANGED <<connection, settings, requests, stored, window>>
  BY DEF LoginWindow!Dispatch
<1>2. PICK r, x : /\ LoginWindow!Awaited = {r.kind} /\ r.server = connection
                  /\ requests = {} /\ answers = <<[request |-> r, result |-> x]>>
  BY <1>1 DEF LoginInv, FlightInv
<1>3. Head(answers).request = r /\ Head(answers).result = x /\ answers' = << >> /\ requests' = {}
  BY <1>1, <1>2
<1>4. CASE LoginWindow!OnSignIn
  <2>1. model.submitting /\ r.kind = "sign_in" /\ ~LoginWindow!OnCharacters
    BY <1>2, <1>4 DEF LoginWindow!Awaited, LoginWindow!OnSignIn, LoginWindow!OnCharacters
  <2>2. LoginWindow!SignedIn(r, x) /\ UNCHANGED launch
    BY <1>3, <1>4, <2>1 DEF LoginWindow!Dispatch
  <2> QED
    BY <1>1, <1>2, <1>3, <1>4, <2>1, <2>2, SignedInStep
<1>5. CASE LoginWindow!OnCharacters
  <2>1. /\ ~LoginWindow!OnSignIn
        /\ \/ model.operation = "creating" /\ r.kind = "create"
           \/ model.operation = "deleting" /\ r.kind = "delete"
    BY <1>2, <1>5 DEF LoginWindow!Awaited, LoginWindow!OnSignIn, LoginWindow!OnCharacters
  <2>2. \/ LoginWindow!OperationFailed(x) /\ UNCHANGED launch
        \/ r.kind = "create" /\ LoginWindow!CharacterCreated(r)
        \/ LoginWindow!CharacterDeleted(r.id) /\ UNCHANGED launch
    BY <1>3, <1>5, <2>1 DEF LoginWindow!Dispatch
  <2>3. CASE LoginWindow!OperationFailed(x) /\ UNCHANGED launch
    BY <1>1, <1>3, <1>5, <2>3, FailedStep
  <2>4. CASE r.kind = "create" /\ LoginWindow!CharacterCreated(r)
    BY <1>1, <1>2, <1>3, <1>5, <2>1, <2>4, CreatedStep
  <2>5. CASE LoginWindow!CharacterDeleted(r.id) /\ UNCHANGED launch
    BY <1>1, <1>3, <1>5, <2>5, DeletedStep
  <2> QED
    BY <2>2, <2>3, <2>4, <2>5
<1>6. LoginWindow!OnSignIn \/ LoginWindow!OnCharacters
  BY <1>2 DEF LoginWindow!Awaited
<1> QED
  BY <1>4, <1>5, <1>6

\* The inductive invariant holds whatever the user, the threads and the frames do.
THEOREM LoginInvariant == LoginWindow!Spec => []LoginInv
<1>1. LoginInv /\ [LoginWindow!Next]_(LoginWindow!vars) => LoginInv'
  <2> SUFFICES ASSUME LoginInv, [LoginWindow!Next]_(LoginWindow!vars) PROVE LoginInv'
    OBVIOUS
  <2>1. CASE LoginWindow!UserActs
    BY <2>1, WindowStep, SaveSettingsStep, SignInPageStep, SignInStep, ChooseStep, ConfirmStep,
       LaunchStep DEF LoginWindow!UserActs
  <2>2. CASE \E r \in requests : LoginWindow!Answer(r)
    BY <2>2, AnswerStep
  <2>3. CASE LoginWindow!Dispatch
    BY <2>3, DispatchStep
  <2>4. CASE UNCHANGED LoginWindow!vars
    <3>1. /\ UNCHANGED <<model, connection, settings, requests, answers, stored, launch, window>>
      BY <2>4 DEF LoginWindow!vars
    <3>2. LoginWindow!Awaited' = LoginWindow!Awaited /\ LoginWindow!Under' = LoginWindow!Under
      BY <3>1 DEF LoginWindow!Awaited, LoginWindow!Under, LoginWindow!OnSignIn,
         LoginWindow!OnCharacters
    <3>3. PageInv' /\ SelectionInv' /\ LaunchInv'
      BY <3>1 DEF LoginInv, PageInv, SelectionInv, LaunchInv, LoginWindow!OnSignIn,
         LoginWindow!OnCharacters, LoginWindow!has_new_slot
    <3>4. FlightInv'
      BY <3>1, <3>2 DEF LoginInv, FlightInv
    <3> QED
      BY <3>3, <3>4 DEF LoginInv
  <2> QED
    BY <2>1, <2>2, <2>3, <2>4 DEF LoginWindow!Next
<1> QED
  BY <1>1, LoginStart, PTL DEF LoginWindow!Spec

\* A new server inherits neither session nor credentials, and an answer meets the
\* page that asked for it.
THEOREM LoginNothingInherited == LoginWindow!Spec => []NothingInherited
<1>1. ASSUME LoginInv PROVE NothingInherited
  <2>1. PageInv /\ FlightInv /\ LaunchInv
    BY <1>1 DEF LoginInv
  <2>2. LoginWindow!TypeOK
    <3>1. CASE model \in SignInPages
      BY <2>1, <3>1 DEF PageInv, SignInPages, LoginWindow!TypeOK, LoginWindow!OnSignIn,
         LoginWindow!FormOK, LoginWindow!Blank
    <3>2. CASE model \in CharacterPages
      BY <2>1, <3>2 DEF PageInv, CharacterPages, LoginWindow!TypeOK, LoginWindow!OnCharacters,
         Operations, Sessions
    <3>3. CASE model = LoginWindow!Closing
      BY <2>1, <3>3 DEF PageInv, LoginWindow!TypeOK
    <3> QED
      BY <2>1, <3>1, <3>2, <3>3 DEF PageInv
  <2>3. model.page # "closing" /\ model.form # LoginWindow!Blank => model.form.typed_for = connection
    BY <2>1 DEF PageInv, SignInPages, CharacterPages, LoginWindow!Closing, LoginWindow!OnSignIn,
       LoginWindow!OnCharacters, LoginWindow!Blank
  <2>4. LoginWindow!OnCharacters => connection # Absent /\ model.sign_in.server = connection
    BY <2>1, SignAssumption DEF PageInv
  <2>5. ASSUME window = "open"
        PROVE  /\ {r.kind : r \in LoginWindow!Under} = LoginWindow!Awaited
               /\ LoginWindow!Cardinality(requests) + Len(answers)
                     = LoginWindow!Cardinality(LoginWindow!Awaited)
               /\ \A r \in LoginWindow!Under : r.server = connection
    <3> DEFINE Goal ==
                 /\ {r.kind : r \in LoginWindow!Under} = LoginWindow!Awaited
                 /\ LoginWindow!Cardinality(requests) + Len(answers)
                       = LoginWindow!Cardinality(LoginWindow!Awaited)
                 /\ \A r \in LoginWindow!Under : r.server = connection
    <3> SUFFICES Goal
      OBVIOUS
    <3>1. CASE LoginWindow!Awaited = {} /\ requests = {} /\ answers = << >>
      <4>1. LoginWindow!Under = {}
        BY <3>1 DEF LoginWindow!Under
      <4>2. LoginWindow!Cardinality({}) = 0
        BY LoginCardinality, FS_EmptySet
      <4> QED
        BY <3>1, <4>1, <4>2
    <3>2. ASSUME NEW r, LoginWindow!Awaited = {r.kind}, r.server = connection,
                 \/ requests = {r} /\ answers = << >>
                 \/ requests = {} /\ \E x : answers = <<[request |-> r, result |-> x]>>
          PROVE  Goal
      <4>1. LoginWindow!Under = {r}
        BY <3>2 DEF LoginWindow!Under
      <4>2. /\ LoginWindow!Cardinality({}) = 0 /\ LoginWindow!Cardinality({r}) = 1
            /\ LoginWindow!Cardinality({r.kind}) = 1
        BY LoginCardinality, FS_EmptySet, FS_Singleton
      <4>3. LoginWindow!Cardinality(requests) + Len(answers) = 1
        <5>1. CASE requests = {r} /\ answers = << >>
          BY <4>2, <5>1
        <5>2. CASE requests = {} /\ \E x : answers = <<[request |-> r, result |-> x]>>
          BY <4>2, <5>2
        <5> QED
          BY <3>2, <5>1, <5>2
      <4>4. {q.kind : q \in LoginWindow!Under} = {r.kind}
        BY <4>1
      <4> QED
        BY <3>2, <4>1, <4>2, <4>3, <4>4
    <3> QED
      BY <2>1, <2>5, <3>1, <3>2 DEF FlightInv
  <2>6. \A s \in Servers : stored[s] \in {s, Absent}
    BY <2>1 DEF PageInv
  <2>7. \A r \in LoginWindow!Under : r.form.typed_for = r.server
    BY <2>1 DEF FlightInv
  <2>8. launch # Absent =>
          launch.sign_in.server = launch.encoding /\ launch.form.typed_for = launch.encoding
    BY <2>1 DEF LaunchInv
  <2> QED
    BY <2>2, <2>3, <2>4, <2>5, <2>6, <2>7, <2>8 DEF NothingInherited, LoginWindow!NothingInherited
<1> QED
  BY <1>1, LoginInvariant, PTL

\* The selection names something to launch, and what is launched passes the start's
\* checks.
THEOREM LoginLaunchesAsShown == LoginWindow!Spec => []LaunchesAsShown
<1>1. ASSUME LoginInv PROVE LaunchesAsShown
  <2>1. ASSUME LoginWindow!is_idle, model.sign_in.entrance
        PROVE  LoginWindow!Launchable # {} \/ LoginWindow!MayCreate
    <3>1. LoginWindow!OnCharacters
      BY <2>1 DEF LoginWindow!is_idle
    <3>2. model.sign_in \in Sessions
      BY <1>1, <3>1, OnCharactersPage DEF LoginInv
    <3>3. model.sign_in.existing \subseteq Ids
      BY <3>2, SessionList
    <3>4. CASE model.selection \in model.sign_in.existing
      <4>1. model.selection # New
        BY <3>3, <3>4, SignAssumption
      <4> QED
        BY <2>1, <3>4, <4>1 DEF LoginWindow!Launchable
    <3>5. CASE model.selection = New /\ LoginWindow!has_new_slot
      BY <2>1, <3>5 DEF LoginWindow!Launchable, LoginWindow!MayCreate, LoginWindow!has_new_slot
    <3> QED
      BY <1>1, <3>1, <3>4, <3>5 DEF LoginInv, SelectionInv
  <2>2. LoginWindow!OnCharacters /\ model.subject # Absent => model.subject \in model.sign_in.existing
    BY <1>1 DEF LoginInv, SelectionInv
  <2>3. launch # Absent =>
          /\ launch.selected \in LoginWindow!CharacterIds(launch.sign_in)
          /\ LoginWindow!Cardinality(LoginWindow!CharacterIds(launch.sign_in)) <= Limit
          /\ launch.sign_in.entrance \/ launch.encoding \in Tcp
    BY <1>1, LoginCardinality DEF LoginInv, LaunchInv
  <2> QED
    BY <2>1, <2>2, <2>3 DEF LaunchesAsShown, LoginWindow!LaunchesAsShown
<1> QED
  BY <1>1, LoginInvariant, PTL
================================================================================
