------------------------------- MODULE Catalogue -------------------------------
(***************************************************************************)
(* CatalogService and the catalogues of the seed: zonas, barrios and items *)
(* of the global catalogues, which nothing ever deletes.  Replicas of the  *)
(* API may seed when they start (SEED_ON_STARTUP), each in one transaction *)
(* that may fail at any step, and serve the administrator's requests,      *)
(* which load at one step and commit at another.                           *)
(***************************************************************************)
EXTENDS Naturals, FiniteSets

CONSTANTS
  Zonas, Barrios, Items,  \* codes; an item's is its catalogue and its code
  NoZona,
  SeedCodes,              \* the codes of the seed
  SeedZona,               \* barrio of the seed -> its zona
  Names,                  \* values of what a PATCH may change: nombre,
                          \* descripcion, orden, metadatos
  SeedName,
  Replicas, Requests,
  MaxRequests,            \* bound: requests served
  MaxStops                \* bound: replicas stopped

Codes == Zonas \cup Barrios \cup Items

ASSUME CatalogueAssumption ==
  /\ Zonas \cap Barrios = {} /\ Zonas \cap Items = {} /\ Barrios \cap Items = {}
  /\ NoZona \notin Zonas
  /\ SeedCodes \subseteq Codes
  /\ SeedZona \in [SeedCodes \cap Barrios -> SeedCodes \cap Zonas]
  /\ SeedName \in Names
  /\ MaxRequests \in Nat /\ MaxStops \in Nat

VARIABLES
  row,          \* code -> its row
  request,      \* request -> its unit of work
  replica,      \* replica -> how far its start has got, and what it will insert
  asked, stops  \* what the bounds count

vars == <<row, request, replica, asked, stops>>

\* id: who inserted the row; the same insertion is never made twice.
Inserters == Requests \X (1..MaxRequests) \cup Replicas \X {0}
NoId == <<>>
Row == [id: Inserters \cup {NoId}, nombre: Names, activo: BOOLEAN, zona: Zonas \cup {NoZona}]
NoRow == [id |-> NoId, nombre |-> SeedName, activo |-> FALSE, zona |-> NoZona]

\* old, new: the row as loaded and as it is going to be.
Unit == [code: Codes \cup {NoZona}, old: Row, new: Row]
Idle == [code |-> NoZona, old |-> NoRow, new |-> NoRow]

Stages == {"down", "seed", "zonas", "rest", "up"}

Init ==
  /\ row = [c \in Codes |-> NoRow]
  /\ request = [r \in Requests |-> Idle]
  /\ replica = [p \in Replicas |-> [stage |-> "down", missing |-> {}]]
  /\ asked = 0 /\ stops = 0

Exists(c) == row[c].id # NoId
Missing(codes) == {c \in codes : ~Exists(c)}

-----------------------------------------------------------------------------
(* CatalogService: the guards, and what will be written.                   *)

Begin(r, c, new) ==
  /\ request[r] = Idle /\ asked < MaxRequests
  /\ \E p \in Replicas : replica[p].stage = "up"
  /\ request' = [request EXCEPT ![r] = [code |-> c, old |-> row[c], new |-> new]]
  /\ asked' = asked + 1
  /\ UNCHANGED <<row, replica, stops>>

NewRow(r, zona) == [id |-> <<r, asked + 1>>, nombre |-> SeedName, activo |-> TRUE, zona |-> zona]

crear_zona(r, z) == ~Exists(z) /\ Begin(r, z, NewRow(r, NoZona))

crear_barrio_without_zona(r, b, zona) == ~Exists(b) /\ Begin(r, b, NewRow(r, zona))

crear_barrio(r, b, zona) ==
  /\ ~Exists(b)
  /\ zona # NoZona => Exists(zona)
  /\ Begin(r, b, NewRow(r, zona))

crear_item(r, i) == ~Exists(i) /\ Begin(r, i, NewRow(r, NoZona))

\* A PATCH that leaves a column out, or gives it the value it has, keeps it.
actualizar_zona(r, z, nombre, activo) ==
  /\ Exists(z)
  /\ Begin(r, z, [row[z] EXCEPT !.nombre = nombre, !.activo = activo])

\* An empty zona takes the barrio out of its zona.
actualizar_barrio(r, b, nombre, activo, zona) ==
  /\ Exists(b)
  /\ zona # NoZona => Exists(zona)
  /\ Begin(r, b, [row[b] EXCEPT !.nombre = nombre, !.activo = activo, !.zona = zona])

actualizar_item(r, i, nombre, activo) ==
  /\ Exists(i)
  /\ Begin(r, i, [row[i] EXCEPT !.nombre = nombre, !.activo = activo])

-----------------------------------------------------------------------------
(* The API, for the administrator.                                         *)

post_zona(r) == \E z \in Zonas : crear_zona(r, z)

post_barrio(r) == \E b \in Barrios, zona \in Zonas \cup {NoZona} : crear_barrio(r, b, zona)

post_item(r) == \E i \in Items : crear_item(r, i)

patch_zona(r) ==
  \E z \in Zonas, nombre \in Names, activo \in BOOLEAN : actualizar_zona(r, z, nombre, activo)

patch_barrio(r) ==
  \E b \in Barrios, nombre \in Names, activo \in BOOLEAN, zona \in Zonas \cup {NoZona} :
    actualizar_barrio(r, b, nombre, activo, zona)

patch_item(r) ==
  \E i \in Items, nombre \in Names, activo \in BOOLEAN : actualizar_item(r, i, nombre, activo)

(* The commit of a request.                                                *)

Written_whole(current, old, new) == new

\* An UPDATE names the columns that changed, and only those.
Written(current, old, new) ==
  [k \in DOMAIN current |-> IF old[k] # new[k] THEN new[k] ELSE current[k]]

Held_since_read(others) ==
  UNION {IF replica[p].stage \in {"zonas", "rest"} THEN replica[p].missing \cap Zonas ELSE {} :
           p \in others}

\* The zonas that seeds of others flushed and did not commit yet.
Held(others) ==
  UNION {IF replica[p].stage = "rest" THEN replica[p].missing \cap Zonas ELSE {} : p \in others}

Taken_without_index(codes) == FALSE

\* The unique index refuses a code that is there.
Taken(codes) == \E c \in codes : Exists(c)

\* An insertion waits for whoever holds its code.
Commit(r) ==
  LET u == request[r]
      inserts == u.old.id = NoId
  IN
  /\ u # Idle
  /\ inserts => u.code \notin Held(Replicas)
  /\ row' = IF inserts /\ Taken({u.code}) THEN row
            ELSE [row EXCEPT ![u.code] = Written(@, u.old, u.new)]
  /\ request' = [request EXCEPT ![r] = Idle]
  /\ UNCHANGED <<replica, asked, stops>>

-----------------------------------------------------------------------------
(* The start of a replica.                                                 *)

At(p, s) == replica[p].stage = s

Goes(p, s, missing) == replica' = [replica EXCEPT ![p] = [stage |-> s, missing |-> missing]]

\* SEED_ON_STARTUP may be off.
StartReplica(p) ==
  /\ At(p, "down")
  /\ Goes(p, "seed", {}) \/ Goes(p, "up", {})
  /\ UNCHANGED <<row, request, asked, stops>>

SeedReads(p) ==
  /\ At(p, "seed")
  /\ Goes(p, "zonas", Missing(SeedCodes \cap Zonas))
  /\ UNCHANGED <<row, request, asked, stops>>

SeedRow(p, c) ==
  [id |-> <<p, 0>>, nombre |-> SeedName, activo |-> TRUE,
   zona |-> IF c \in Barrios THEN SeedZona[c] ELSE NoZona]

SeedFlushes_commits(p) ==
  LET zonas == replica[p].missing IN
  /\ At(p, "zonas")
  /\ zonas \cap Held(Replicas \ {p}) = {}
  /\ IF Taken(zonas) THEN Goes(p, "up", {}) /\ UNCHANGED row
     ELSE /\ Goes(p, "rest", Missing(SeedCodes \ Zonas))
          /\ row' = [c \in Codes |-> IF c \in zonas THEN SeedRow(p, c) ELSE row[c]]
  /\ UNCHANGED <<request, asked, stops>>

\* The flush of the zonas waits for another seed that holds one of them.  A
\* conflict rolls the seed back, and lifespan goes on without it.  Then it
\* reads which barrios and items are missing.
SeedFlushes(p) ==
  LET zonas == replica[p].missing IN
  /\ At(p, "zonas")
  /\ zonas \cap Held(Replicas \ {p}) = {}
  /\ IF Taken(zonas) THEN Goes(p, "up", {})
     ELSE Goes(p, "rest", zonas \cup Missing(SeedCodes \ Zonas))
  /\ UNCHANGED <<row, request, asked, stops>>

\* Everything it inserted, or nothing.
SeedCommits(p) ==
  LET missing == replica[p].missing IN
  /\ At(p, "rest")
  /\ row' = IF Taken(missing) THEN row
            ELSE [c \in Codes |-> IF c \in missing THEN SeedRow(p, c) ELSE row[c]]
  /\ Goes(p, "up", {})
  /\ UNCHANGED <<request, asked, stops>>

\* The database is not there yet, or anything else that goes wrong: lifespan
\* swallows it, the seed is rolled back, and the replica serves.
SeedFails(p) ==
  /\ replica[p].stage \in {"seed", "zonas", "rest"}
  /\ Goes(p, "up", {})
  /\ UNCHANGED <<row, request, asked, stops>>

Stop(p) ==
  /\ ~At(p, "down") /\ stops < MaxStops
  /\ Goes(p, "down", {})
  /\ request' \in {request, [r \in Requests |-> Idle]}
  /\ stops' = stops + 1
  /\ UNCHANGED <<row, asked>>

Serve(r) ==
  \/ post_zona(r)
  \/ post_barrio(r)
  \/ post_item(r)
  \/ patch_zona(r)
  \/ patch_barrio(r)
  \/ patch_item(r)
  \/ Commit(r)

Lifespan(p) ==
  \/ StartReplica(p)
  \/ SeedReads(p)
  \/ SeedFlushes(p)
  \/ SeedCommits(p)

Next ==
  \/ \E r \in Requests : Serve(r)
  \/ \E p \in Replicas : Lifespan(p) \/ SeedFails(p) \/ Stop(p)

\* A start does not stop half way, and a stopped replica is started again; no
\* seed has to fail.
Spec == Init /\ [][Next]_vars /\ \A p \in Replicas : WF_vars(Lifespan(p))

-----------------------------------------------------------------------------
(* Properties.                                                             *)

\* Type invariant of the catalogues, the requests and the replicas; the zona of
\* a barrio exists.
TypeOK ==
  /\ row \in [Codes -> Row]
  /\ \A b \in Barrios : row[b].zona # NoZona => Exists(row[b].zona)
  /\ request \in [Requests -> Unit]
  /\ replica \in [Replicas -> [stage: Stages, missing: SUBSET SeedCodes]]
  /\ asked \in 0..MaxRequests /\ stops \in 0..MaxStops

\* "`codigo` e `id` son los dos identificadores estables y ninguno se reusa
\* nunca": once a code has a row it keeps that row, whatever requests that did
\* not find it and replicas that seed at once commit later.
CodesForever == [][\A c \in Codes : Exists(c) => row'[c].id = row[c].id]_vars

\* A column of a row that exists changes only to what a PATCH of that column
\* asked: two PATCHes of one row at once do not undo each other's columns, and
\* no seed touches what people edited.
PatchesCompose ==
  [][\A c \in Codes : \A k \in {"nombre", "activo", "zona"} :
       Exists(c) /\ row'[c][k] # row[c][k]
         => \E r \in Requests : LET u == request[r] IN
              u.code = c /\ request'[r] = Idle /\ u.old[k] # u.new[k] /\ row'[c][k] = u.new[k]]_vars

\* A seed leaves everything or nothing: if a row of any seed is there, every code
\* of the seed is, however it was overtaken, refused, rolled back or killed, and
\* whatever seeds and requests inserted since it read what is missing.
SeedIsWhole ==
  (\E c \in Codes : row[c].id \in Replicas \X {0}) => Missing(SeedCodes) = {}

\* Seeds that wait for each other and roll back end with every replica serving.
ReplicasServe == <>[](\A p \in Replicas : At(p, "up"))

-----------------------------------------------------------------------------
(* What holds besides: the parts of the inductive invariant of the proofs. *)

\* What a request writes: a row of its own, or the row it found, whose zona
\* exists.
UnitsConsistent ==
  \A r \in Requests : request[r] # Idle =>
    LET u == request[r] IN
    /\ u.code \in Codes /\ u.new.id # NoId
    /\ IF u.old.id = NoId THEN u.new.id \in Requests \X (1..MaxRequests)
       ELSE u.new.id = u.old.id /\ Exists(u.code)
    /\ u.code \in Barrios /\ u.new.zona # NoZona => Exists(u.new.zona)

\* A seed inserts the zonas of its barrios, or found them.
ZonasCovered ==
  \A p \in Replicas : replica[p].stage \in {"zonas", "rest"} =>
    \A z \in SeedCodes \cap Zonas : Exists(z) \/ z \in replica[p].missing

\* A seed that looked for everything inserts what it did not find.
SeedCovered ==
  \A p \in Replicas : At(p, "rest") =>
    \A c \in SeedCodes : Exists(c) \/ c \in replica[p].missing

IInv == TypeOK /\ UnitsConsistent /\ ZonasCovered /\ SeedCovered /\ SeedIsWhole

================================================================================
