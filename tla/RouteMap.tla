------------------------------ MODULE RouteMap ------------------------------
(***************************************************************************)
(* What the route trie of config.Service is: a map from routes to field    *)
(* metas and observers, in which an operation on one route does not        *)
(* disturb another.  The one operation that takes a list of routes,        *)
(* WithApplySections, disturbs those of its list: a route also gets the    *)
(* observers of those that are listed before it.                           *)
(***************************************************************************)
EXTENDS Integers, Sequences

CONSTANTS
  Routes, Events, Observers, Metas, NoMeta,
  Sections   \* lists of <<route, meta>>

VARIABLES
  known,     \* routes with an entry
  mapMeta,   \* the meta of a route, NoMeta when it has none
  mapEvents  \* observers of a route, per event, in the order of their registration

mapVars == <<known, mapMeta, mapEvents>>

NoObservers == [e \in Events |-> <<>>]

MapInit ==
  /\ known = {}
  /\ mapMeta = [r \in Routes |-> NoMeta]
  /\ mapEvents = [r \in Routes |-> NoObservers]

AddObserver(e, r, o) ==
  /\ known' = known \cup {r}
  /\ mapEvents' = [mapEvents EXCEPT ![r][e] = Append(@, o)]
  /\ UNCHANGED mapMeta

SetMeta(r, m, evs) ==
  /\ known' = known \cup {r}
  /\ mapMeta' = [mapMeta EXCEPT ![r] = m]
  /\ mapEvents' = [mapEvents EXCEPT ![r] = [e \in Events |-> @[e] \o evs[e]]]

Listed(secs) == {secs[i][1] : i \in DOMAIN secs}

(* The routes of a list get their metas and keep their observers, which are *)
(* followed by those that the route before it in the list now has.          *)
SetMetas(secs) ==
  /\ known' = known \cup Listed(secs)
  /\ mapMeta' \in [Routes -> Metas \cup {NoMeta}]
  /\ mapEvents' \in [Routes -> [Events -> Seq(Observers)]]
  /\ \A r \in Routes \ Listed(secs) : mapMeta'[r] = mapMeta[r] /\ mapEvents'[r] = mapEvents[r]
  /\ \A i \in DOMAIN secs :
       LET r == secs[i][1] IN
       /\ mapMeta'[r] = secs[i][2]
       /\ i = 1 => mapEvents'[r] = mapEvents[r]
       /\ i > 1 => \A e \in Events : mapEvents'[r][e] = mapEvents[r][e] \o mapEvents'[secs[i - 1][1]][e]

RemoveObservers(e, r) ==
  /\ r \in known
  /\ mapEvents' = [mapEvents EXCEPT ![r][e] = <<>>]
  /\ UNCHANGED <<known, mapMeta>>

RemoveRoute(r) ==
  /\ known' = known \ {r}
  /\ mapMeta' = [mapMeta EXCEPT ![r] = NoMeta]
  /\ mapEvents' = [mapEvents EXCEPT ![r] = NoObservers]

MapNext ==
  \/ \E secs \in Sections : SetMetas(secs)
  \/ \E r \in Routes :
    \/ \E e \in Events : (\E o \in Observers : AddObserver(e, r, o)) \/ RemoveObservers(e, r)
    \/ \E m \in Metas : SetMeta(r, m, NoObservers)
    \/ \E m \in Metas, e \in Events, o \in Observers : SetMeta(r, m, [NoObservers EXCEPT ![e] = <<o>>])
    \/ RemoveRoute(r)

MapSpec == MapInit /\ [][MapNext]_mapVars
=============================================================================
