---------------------------- MODULE CatalogueProofs ----------------------------
(***************************************************************************)
(* Proofs about Catalogue, for any codes, seed, replicas, requests and     *)
(* bounds.                                                                 *)
(***************************************************************************)
EXTENDS Catalogue, TLAPS

-----------------------------------------------------------------------------
(* Rows.                                                                   *)

LEMMA IdsDiffer == \A x \in Inserters : x # NoId
<1>1. \A r \in Requests, n \in 1..MaxRequests : <<r, n>> # NoId
  BY DEF NoId
<1>2. \A p \in Replicas : <<p, 0>> # NoId
  BY DEF NoId
<1>3. QED
  BY <1>1, <1>2 DEF Inserters

\* Who inserted a row tells a request's from a seed's.
LEMMA NotOfSeed == \A x \in Requests \X (1..MaxRequests) : x \notin Replicas \X {0} /\ x # NoId
<1>1. \A r \in Requests, n \in 1..MaxRequests : <<r, n>> \notin Replicas \X {0} /\ <<r, n>> # NoId
  BY DEF NoId
<1>2. QED
  BY <1>1

LEMMA NoRowTyped == NoRow \in Row /\ NoRow.id = NoId /\ NoRow.zona = NoZona /\ Idle \in Unit
<1>1. NoRow \in Row /\ NoRow.id = NoId /\ NoRow.zona = NoZona
  BY CatalogueAssumption DEF NoRow, Row
<1>2. QED
  BY <1>1 DEF Idle, Unit

\* What a seed inserts.
LEMMA SeedRowTyped ==
  ASSUME NEW p \in Replicas, NEW c \in SeedCodes
  PROVE  /\ SeedRow(p, c) \in Row
         /\ SeedRow(p, c).id # NoId
         /\ SeedRow(p, c).zona \in (SeedCodes \cap Zonas) \cup {NoZona}
<1>1. <<p, 0>> \in Inserters
  BY DEF Inserters
<1>2. c \in Barrios => SeedZona[c] \in SeedCodes \cap Zonas
  BY CatalogueAssumption
<1>3. PICK s : s = SeedRow(p, c)
  OBVIOUS
<1>4. s = [id |-> <<p, 0>>, nombre |-> SeedName, activo |-> TRUE,
           zona |-> IF c \in Barrios THEN SeedZona[c] ELSE NoZona]
  BY <1>3 DEF SeedRow
<1>5. s \in Row
  BY <1>1, <1>2, <1>4, CatalogueAssumption DEF Row
<1>6. s.id = <<p, 0>> /\ s.zona = IF c \in Barrios THEN SeedZona[c] ELSE NoZona
  BY <1>4
<1>7. QED
  BY <1>1, <1>2, <1>3, <1>5, <1>6, IdsDiffer

\* A commit leaves a row, column by column.
LEMMA WrittenTyped ==
  ASSUME NEW current \in Row, NEW old \in Row, NEW new \in Row
  PROVE  LET w == Written(current, old, new) IN
         /\ w \in Row
         /\ \A k \in {"id", "nombre", "activo", "zona"} :
              w[k] = IF old[k] # new[k] THEN new[k] ELSE current[k]
<1>1. DOMAIN current = {"id", "nombre", "activo", "zona"}
  BY DEF Row
<1> DEFINE w == Written(current, old, new)
<1>2. w = [id |-> w.id, nombre |-> w.nombre, activo |-> w.activo, zona |-> w.zona]
  BY <1>1 DEF Written
<1>3. \A k \in {"id", "nombre", "activo", "zona"} :
        w[k] = IF old[k] # new[k] THEN new[k] ELSE current[k]
  BY <1>1 DEF Written
<1>4. /\ w.id = IF old.id # new.id THEN new.id ELSE current.id
      /\ w.nombre = IF old.nombre # new.nombre THEN new.nombre ELSE current.nombre
      /\ w.activo = IF old.activo # new.activo THEN new.activo ELSE current.activo
      /\ w.zona = IF old.zona # new.zona THEN new.zona ELSE current.zona
  BY <1>3
<1>5. w \in Row
  BY <1>2, <1>4 DEF Row
<1>6. QED
  BY <1>3, <1>5

-----------------------------------------------------------------------------
(* Every operation begins a unit that UnitsConsistent allows.              *)

\* What a request that begins may be going to write.
Fresh(c, new) ==
  /\ c \in Codes /\ new \in Row /\ new.id # NoId
  /\ IF Exists(c) THEN new.id = row[c].id ELSE new.id \in Requests \X (1..MaxRequests)
  /\ c \in Barrios /\ new.zona # NoZona => Exists(new.zona)

LEMMA NewRowTyped ==
  ASSUME asked \in 0..MaxRequests, asked < MaxRequests, NEW r \in Requests,
         NEW zona \in Zonas \cup {NoZona}, NEW new, new = NewRow(r, zona)
  PROVE  /\ new \in Row /\ new.id # NoId /\ new.zona = zona
         /\ new.id \in Requests \X (1..MaxRequests)
<1>1. <<r, asked + 1>> \in Inserters /\ <<r, asked + 1>> \in Requests \X (1..MaxRequests)
  BY CatalogueAssumption DEF Inserters
<1>2. new = [id |-> <<r, asked + 1>>, nombre |-> SeedName, activo |-> TRUE, zona |-> zona]
  BY DEF NewRow
<1>3. QED
  BY <1>1, <1>2, IdsDiffer, CatalogueAssumption DEF Row

LEMMA ServeBegins ==
  ASSUME TypeOK, NEW r \in Requests, Serve(r)
  PROVE  (\E c, new : Fresh(c, new) /\ Begin(r, c, new)) \/ Commit(r)
<1>1. asked \in 0..MaxRequests /\ row \in [Codes -> Row] /\ NoZona \in Zonas \cup {NoZona}
  BY DEF TypeOK
<1>2. ASSUME NEW c \in Codes, NEW zona \in Zonas \cup {NoZona}, ~Exists(c),
             zona # NoZona => Exists(zona), Begin(r, c, NewRow(r, zona))
      PROVE  \E x, new : Fresh(x, new) /\ Begin(r, x, new)
  <2>1. PICK new : new = NewRow(r, zona)
    OBVIOUS
  <2>2. asked < MaxRequests
    BY <1>2 DEF Begin
  <2>3. Fresh(c, new)
    BY <1>1, <1>2, <2>1, <2>2, NewRowTyped DEF Fresh
  <2>4. QED
    BY <1>2, <2>1, <2>3
<1>3. ASSUME NEW c \in Codes, NEW new, new \in Row, new.id = row[c].id, Exists(c),
             c \in Barrios /\ new.zona # NoZona => Exists(new.zona), Begin(r, c, new)
      PROVE  \E x, y : Fresh(x, y) /\ Begin(r, x, y)
  BY <1>3 DEF Fresh, Exists
<1>4. CASE post_zona(r)
  BY <1>1, <1>2, <1>4 DEF post_zona, crear_zona, Codes
<1>5. CASE post_barrio(r)
  BY <1>1, <1>2, <1>5 DEF post_barrio, crear_barrio, Codes
<1>6. CASE post_item(r)
  BY <1>1, <1>2, <1>6 DEF post_item, crear_item, Codes
<1>7. ASSUME NEW c \in Codes \ Barrios, NEW nombre \in Names, NEW activo \in BOOLEAN, Exists(c),
             Begin(r, c, [row[c] EXCEPT !.nombre = nombre, !.activo = activo])
      PROVE  \E x, y : Fresh(x, y) /\ Begin(r, x, y)
  <2>1. PICK new : new = [row[c] EXCEPT !.nombre = nombre, !.activo = activo]
    OBVIOUS
  <2>2. new \in Row /\ new.id = row[c].id
    BY <1>1, <2>1 DEF Row
  <2>3. QED
    BY <1>3, <1>7, <2>1, <2>2
<1>8. CASE patch_zona(r)
  BY <1>7, <1>8, CatalogueAssumption DEF patch_zona, actualizar_zona, Codes
<1>9. CASE patch_item(r)
  BY <1>7, <1>9, CatalogueAssumption DEF patch_item, actualizar_item, Codes
<1>10. CASE patch_barrio(r)
  <2>1. PICK b \in Barrios, nombre \in Names, activo \in BOOLEAN, zona \in Zonas \cup {NoZona} :
          actualizar_barrio(r, b, nombre, activo, zona)
    BY <1>10 DEF patch_barrio
  <2>2. PICK new : new = [row[b] EXCEPT !.nombre = nombre, !.activo = activo, !.zona = zona]
    OBVIOUS
  <2>3. b \in Codes /\ new \in Row /\ new.id = row[b].id /\ new.zona = zona
    BY <1>1, <2>2 DEF Row, Codes
  <2>4. QED
    BY <1>3, <2>1, <2>2, <2>3 DEF actualizar_barrio
<1>11. QED
  BY <1>4, <1>5, <1>6, <1>8, <1>9, <1>10 DEF Serve

-----------------------------------------------------------------------------
(* The steps of a request.                                                 *)

LEMMA BeginKeeps ==
  ASSUME IInv, NEW r \in Requests, NEW c, NEW new, Fresh(c, new), Begin(r, c, new)
  PROVE  IInv'
<1>1. PICK u : u = [code |-> c, old |-> row[c], new |-> new]
  OBVIOUS
<1>2. /\ UNCHANGED <<row, replica, stops>> /\ asked < MaxRequests /\ asked' = asked + 1
      /\ request' = [request EXCEPT ![r] = u] /\ \E p \in Replicas : At(p, "up")
  BY <1>1 DEF Begin, At
<1>3. u \in Unit /\ u.code = c /\ u.old = row[c] /\ u.new = new
  BY <1>1 DEF Fresh, Unit, IInv, TypeOK
<1>4. request'[r] = u /\ \A q \in Requests : q # r => request'[q] = request[q]
  BY <1>2 DEF IInv, TypeOK
<1>5. TypeOK'
  <2>1. request' \in [Requests -> Unit]
    BY <1>2, <1>3 DEF IInv, TypeOK
  <2>2. asked' \in 0..MaxRequests
    BY <1>2, CatalogueAssumption DEF IInv, TypeOK
  <2>3. QED
    BY <1>2, <2>1, <2>2 DEF IInv, TypeOK, Exists
<1>6. UnitsConsistent'
  BY <1>2, <1>3, <1>4 DEF Fresh, IInv, UnitsConsistent, Exists
<1>7. ZonasCovered'
  BY <1>2 DEF IInv, ZonasCovered, Exists
<1>8. SeedCovered' /\ SeedIsWhole'
  BY <1>2 DEF IInv, SeedCovered, SeedIsWhole, Missing, Exists, At
<1>9. QED
  BY <1>5, <1>6, <1>7, <1>8 DEF IInv

\* What a commit does to the rows.
LEMMA CommitWrites ==
  ASSUME IInv, NEW r \in Requests, Commit(r)
  PROVE  /\ row' \in [Codes -> Row]
         /\ \A c \in Codes : Exists(c) => row'[c].id = row[c].id
         /\ \A c \in Codes : row'[c].id \in Replicas \X {0} => row'[c].id = row[c].id
         /\ \A c \in Codes : row'[c] # row[c] =>
              /\ c = request[r].code /\ request[r].old \in Row /\ request[r].new \in Row
              /\ row'[c] = Written(row[c], request[r].old, request[r].new)
              /\ c \in Barrios /\ request[r].new.zona # NoZona => Exists(request[r].new.zona)
<1>1. PICK u : u = request[r]
  OBVIOUS
<1>2. /\ u \in Unit /\ u.code \in Codes /\ u.new.id # NoId
      /\ IF u.old.id = NoId THEN u.new.id \in Requests \X (1..MaxRequests)
         ELSE u.new.id = u.old.id
      /\ u.code \in Barrios /\ u.new.zona # NoZona => Exists(u.new.zona)
      /\ row \in [Codes -> Row]
      /\ row' = IF u.old.id = NoId /\ Taken({u.code}) THEN row
                ELSE [row EXCEPT ![u.code] = Written(@, u.old, u.new)]
  BY <1>1 DEF Commit, IInv, TypeOK, UnitsConsistent
<1>3. u.old \in Row /\ u.new \in Row
  BY <1>2 DEF Unit
<1>4. CASE row' = row
  BY <1>1, <1>2, <1>4
<1>5. CASE /\ row' = [row EXCEPT ![u.code] = Written(@, u.old, u.new)]
           /\ ~(u.old.id = NoId /\ Taken({u.code}))
  <2>1. PICK w : w = Written(row[u.code], u.old, u.new)
    OBVIOUS
  <2>2. w \in Row /\ w.id = IF u.old.id # u.new.id THEN u.new.id ELSE row[u.code].id
    BY <1>2, <1>3, <2>1, WrittenTyped
  <2>3. Exists(u.code) => w.id = row[u.code].id
    BY <1>2, <1>5, <2>2 DEF Taken, Exists
  <2>4. row' = [row EXCEPT ![u.code] = w]
    BY <1>5, <2>1
  <2>5. w.id \in Replicas \X {0} => w.id = row[u.code].id
    BY <1>2, <2>2, NotOfSeed
  <2>6. QED
    BY <1>1, <1>2, <1>3, <2>1, <2>2, <2>3, <2>4, <2>5
<1>6. QED
  BY <1>2, <1>4, <1>5

LEMMA CommitKeeps ==
  ASSUME IInv, NEW r \in Requests, Commit(r)
  PROVE  IInv'
<1>1. /\ UNCHANGED <<replica, asked, stops>> /\ request' = [request EXCEPT ![r] = Idle]
      /\ request[r] # Idle
  BY DEF Commit
<1>2. \A c \in Codes : Exists(c) => row'[c].id # NoId
  BY CommitWrites DEF Exists
<1>3. TypeOK'
  <2>1. request' \in [Requests -> Unit]
    BY <1>1, NoRowTyped DEF IInv, TypeOK
  <2>2. ASSUME NEW b \in Barrios, row'[b].zona # NoZona
        PROVE  row'[row'[b].zona].id # NoId
    <3>1. b \in Codes /\ Zonas \subseteq Codes
      BY DEF Codes
    <3>2. row[b] \in Row /\ (row[b].zona # NoZona => Exists(row[b].zona))
      BY <3>1 DEF IInv, TypeOK
    <3>3. CASE row'[b].zona = row[b].zona
      BY <1>2, <2>2, <3>1, <3>2, <3>3 DEF Row, Exists
    <3>4. CASE row'[b].zona # row[b].zona
      <4>1. PICK old, new : old = request[r].old /\ new = request[r].new
        OBVIOUS
      <4>2. /\ old \in Row /\ new \in Row /\ row'[b] = Written(row[b], old, new)
            /\ new.zona # NoZona => Exists(new.zona)
        BY <3>1, <3>4, <4>1, CommitWrites
      <4>3. row'[b].zona = IF old.zona # new.zona THEN new.zona ELSE row[b].zona
        BY <3>2, <4>2, WrittenTyped
      <4>4. row'[b].zona = new.zona /\ new.zona \in Codes
        BY <2>2, <3>1, <3>4, <4>2, <4>3 DEF Row
      <4>5. QED
        BY <1>2, <2>2, <4>2, <4>4 DEF Exists
    <3>5. QED
      BY <3>3, <3>4
  <2>3. QED
    BY <1>1, <2>1, <2>2, CommitWrites DEF IInv, TypeOK, Exists
<1>4. UnitsConsistent'
  <2>1. \A q \in Requests : request'[q] # Idle => request'[q] = request[q] /\ request[q] # Idle
    BY <1>1 DEF IInv, TypeOK
  <2>2. ASSUME NEW q \in Requests, request[q] # Idle
        PROVE  LET u == request[q] IN
               /\ u.code \in Codes /\ u.new.id # NoId
               /\ IF u.old.id = NoId THEN u.new.id \in Requests \X (1..MaxRequests)
                  ELSE u.new.id = u.old.id /\ row'[u.code].id # NoId
               /\ u.code \in Barrios /\ u.new.zona # NoZona => row'[u.new.zona].id # NoId
    <3>1. PICK u : u = request[q]
      OBVIOUS
    <3>2. /\ u.code \in Codes /\ u.new.id # NoId
          /\ IF u.old.id = NoId THEN u.new.id \in Requests \X (1..MaxRequests)
             ELSE u.new.id = u.old.id /\ Exists(u.code)
          /\ u.code \in Barrios /\ u.new.zona # NoZona => Exists(u.new.zona)
          /\ u \in Unit
      BY <2>2, <3>1 DEF IInv, UnitsConsistent, TypeOK
    <3>3. u.new.zona # NoZona => u.new.zona \in Codes
      BY <3>2 DEF Unit, Row, Codes
    <3>4. QED
      BY <1>2, <3>1, <3>2, <3>3 DEF Exists
  <2>3. QED
    BY <2>1, <2>2 DEF UnitsConsistent, Exists
<1>5. ZonasCovered'
  BY <1>1, <1>2 DEF IInv, ZonasCovered, Codes, Exists
<1>6. SeedCovered' /\ SeedIsWhole'
  <2>1. SeedCovered'
    BY <1>1, <1>2, CatalogueAssumption DEF IInv, SeedCovered, Exists, At
  <2>2. ASSUME NEW c \in Codes, row'[c].id \in Replicas \X {0}
        PROVE  \A x \in SeedCodes : row'[x].id # NoId
    <3>1. row[c].id \in Replicas \X {0}
      BY <2>2, CommitWrites
    <3>2. \A x \in SeedCodes : Exists(x)
      BY <3>1 DEF IInv, SeedIsWhole, Missing
    <3>3. QED
      BY <1>2, <3>2, CatalogueAssumption
  <2>3. SeedIsWhole'
    BY <2>2 DEF SeedIsWhole, Missing, Exists
  <2>4. QED
    BY <2>1, <2>3
<1>7. QED
  BY <1>3, <1>4, <1>5, <1>6 DEF IInv

-----------------------------------------------------------------------------
(* The start and the stop of a replica.                                    *)

\* While no row changes, only the replicas and the requests that are dropped
\* can disturb the invariant.
LEMMA RowsStayKeeps ==
  ASSUME IInv, UNCHANGED <<row, asked>>, NEW p \in Replicas, NEW s \in Stages,
         NEW missing \in SUBSET SeedCodes, Goes(p, s, missing),
         stops' \in 0..MaxStops,
         \A r \in Requests : request'[r] \in {request[r], Idle},
         request' \in [Requests -> Unit],
         s \in {"zonas", "rest"} => \A z \in SeedCodes \cap Zonas : Exists(z) \/ z \in missing,
         s = "rest" => \A c \in SeedCodes : Exists(c) \/ c \in missing
  PROVE  IInv'
<1>1. /\ replica' \in [Replicas -> [stage: Stages, missing: SUBSET SeedCodes]]
      /\ replica'[p].stage = s /\ replica'[p].missing = missing
      /\ \A q \in Replicas : q # p => replica'[q] = replica[q]
  BY DEF Goes, IInv, TypeOK
<1>2. TypeOK'
  BY <1>1 DEF IInv, TypeOK, Exists
<1>3. UnitsConsistent'
  <2>1. \A r \in Requests : request'[r] # Idle => request'[r] = request[r]
    OBVIOUS
  <2>2. QED
    BY <2>1 DEF IInv, UnitsConsistent, Exists
<1>4. ZonasCovered'
  BY <1>1 DEF IInv, ZonasCovered, Exists
<1>5. SeedCovered' /\ SeedIsWhole'
  BY <1>1 DEF IInv, SeedCovered, SeedIsWhole, Missing, Exists, At
<1>6. QED
  BY <1>2, <1>3, <1>4, <1>5 DEF IInv

LEMMA StartsKeep ==
  ASSUME IInv, NEW p \in Replicas,
         StartReplica(p) \/ SeedReads(p) \/ SeedFlushes(p) \/ SeedFails(p) \/ Stop(p)
  PROVE  IInv'
<1>1. /\ request \in [Requests -> Unit] /\ stops \in 0..MaxStops
      /\ replica[p].missing \in SUBSET SeedCodes /\ SeedCodes \subseteq Codes
  BY CatalogueAssumption DEF IInv, TypeOK
<1>2. CASE StartReplica(p) \/ SeedFails(p)
  <2>1. PICK s \in {"seed", "up"} : Goes(p, s, {}) /\ UNCHANGED <<row, request, asked, stops>>
    BY <1>2 DEF StartReplica, SeedFails
  <2>2. QED
    BY <1>1, <2>1, RowsStayKeeps DEF Stages
<1>3. CASE SeedReads(p)
  <2>1. PICK zonas : zonas = SeedCodes \cap Zonas
    OBVIOUS
  <2>2. /\ Missing(zonas) \in SUBSET SeedCodes
        /\ \A z \in zonas : Exists(z) \/ z \in Missing(zonas)
    BY <1>1, <2>1 DEF Missing
  <2>3. QED
    BY <1>1, <1>3, <2>1, <2>2, RowsStayKeeps DEF SeedReads, Stages
<1>4. CASE SeedFlushes(p)
  <2>1. PICK zonas, rest : zonas = replica[p].missing /\ rest = SeedCodes \ Zonas
    OBVIOUS
  <2>2. replica[p].stage = "zonas" /\ \A z \in SeedCodes \cap Zonas : Exists(z) \/ z \in zonas
    BY <1>4, <2>1 DEF SeedFlushes, At, IInv, ZonasCovered
  <2>3. CASE Taken(zonas)
    <3>1. Goes(p, "up", {}) /\ UNCHANGED <<row, request, asked, stops>>
      BY <1>4, <2>1, <2>3 DEF SeedFlushes
    <3>2. QED
      BY <1>1, <3>1, RowsStayKeeps DEF Stages
  <2>4. CASE ~Taken(zonas)
    <3>1. PICK missing : missing = zonas \cup Missing(rest)
      OBVIOUS
    <3>2. Goes(p, "rest", missing) /\ UNCHANGED <<row, request, asked, stops>>
      BY <1>4, <2>1, <2>4, <3>1 DEF SeedFlushes
    <3>3. missing \in SUBSET SeedCodes
      BY <1>1, <2>1, <3>1 DEF Missing
    <3>4. \A c \in SeedCodes : Exists(c) \/ c \in missing
      BY <2>1, <2>2, <3>1 DEF Missing
    <3>5. QED
      BY <1>1, <3>2, <3>3, <3>4, RowsStayKeeps DEF Stages
  <2>5. QED
    BY <2>3, <2>4
<1>5. CASE Stop(p)
  <2>1. /\ Goes(p, "down", {}) /\ UNCHANGED <<row, asked>>
        /\ request' \in {request, [r \in Requests |-> Idle]}
        /\ stops < MaxStops /\ stops' = stops + 1
    BY <1>5 DEF Stop
  <2>2. stops' \in 0..MaxStops
    BY <1>1, <2>1, CatalogueAssumption
  <2>3. request' \in [Requests -> Unit] /\ \A r \in Requests : request'[r] \in {request[r], Idle}
    BY <1>1, <2>1, NoRowTyped
  <2>4. QED
    BY <2>1, <2>2, <2>3, RowsStayKeeps DEF Stages
<1>6. QED
  BY <1>2, <1>3, <1>4, <1>5

\* What the commit of a seed does to the rows: all it has to insert, or nothing.
LEMMA SeedWrites ==
  ASSUME IInv, NEW p \in Replicas, SeedCommits(p)
  PROVE  /\ row' \in [Codes -> Row]
         /\ \A c \in Codes : Exists(c) => row'[c] = row[c]
         /\ \A c \in Codes : row'[c] # row[c] =>
              /\ row'[c].id # NoId
              /\ row'[c].zona # NoZona => row'[row'[c].zona].id # NoId
         /\ (\E c \in Codes : row'[c].id \in Replicas \X {0})
              => \A c \in SeedCodes : row'[c].id # NoId
<1>1. PICK missing : missing = replica[p].missing
  OBVIOUS
<1>2. /\ row' = IF Taken(missing) THEN row
                ELSE [c \in Codes |-> IF c \in missing THEN SeedRow(p, c) ELSE row[c]]
      /\ replica[p].stage = "rest"
  BY <1>1 DEF SeedCommits, At
<1>3. /\ row \in [Codes -> Row] /\ missing \in SUBSET SeedCodes /\ SeedCodes \subseteq Codes
      /\ \A c \in SeedCodes : Exists(c) \/ c \in missing
  BY <1>1, <1>2, CatalogueAssumption DEF IInv, TypeOK, SeedCovered, At
<1>4. CASE Taken(missing)
  <2>1. (\E c \in Codes : row[c].id \in Replicas \X {0}) => \A c \in SeedCodes : row[c].id # NoId
    BY DEF IInv, SeedIsWhole, Missing, Exists
  <2>2. QED
    BY <1>2, <1>3, <1>4, <2>1
<1>5. CASE ~Taken(missing)
  <2>1. /\ \A c \in missing : ~Exists(c) /\ row'[c] = SeedRow(p, c)
        /\ \A c \in Codes \ missing : row'[c] = row[c]
    BY <1>2, <1>3, <1>5 DEF Taken
  <2>2. row' \in [Codes -> Row]
    BY <1>2, <1>3, <1>5, SeedRowTyped
  <2>3. \A c \in Codes : Exists(c) => row'[c] = row[c]
    BY <2>1
  <2>4. \A c \in missing : row'[c].id # NoId
    BY <1>3, <2>1, SeedRowTyped
  <2>5. ASSUME NEW c \in Codes, row'[c] # row[c], row'[c].zona # NoZona
        PROVE  row'[row'[c].zona].id # NoId
    <3>1. c \in missing /\ row'[c].zona \in SeedCodes \cap Zonas
      BY <1>3, <2>1, <2>5, SeedRowTyped
    <3>2. Exists(row'[c].zona) \/ row'[c].zona \in missing
      BY <1>3, <3>1
    <3>3. QED
      BY <1>3, <2>3, <2>4, <3>1, <3>2 DEF Exists
  <2>6. \A c \in SeedCodes : row'[c].id # NoId
    BY <1>3, <2>3, <2>4 DEF Exists
  <2>7. QED
    BY <1>3, <2>1, <2>2, <2>3, <2>4, <2>5, <2>6
<1>6. QED
  BY <1>4, <1>5

LEMMA SeedCommitKeeps ==
  ASSUME IInv, NEW p \in Replicas, SeedCommits(p)
  PROVE  IInv'
<1>1. UNCHANGED <<request, asked, stops>> /\ Goes(p, "up", {})
  BY DEF SeedCommits
<1>2. /\ replica' \in [Replicas -> [stage: Stages, missing: SUBSET SeedCodes]]
      /\ replica'[p].stage = "up"
      /\ \A q \in Replicas : q # p => replica'[q] = replica[q]
  BY <1>1 DEF Goes, IInv, TypeOK, Stages
<1>3. \A c \in Codes : Exists(c) => row'[c] = row[c] /\ row'[c].id # NoId
  BY SeedWrites DEF Exists
<1>4. TypeOK'
  <2>1. ASSUME NEW b \in Barrios, row'[b].zona # NoZona
        PROVE  row'[row'[b].zona].id # NoId
    <3>1. b \in Codes /\ Zonas \subseteq Codes /\ row[b] \in Row
      BY DEF Codes, IInv, TypeOK
    <3>2. CASE row'[b] = row[b]
      BY <1>3, <2>1, <3>1, <3>2 DEF IInv, TypeOK, Row, Exists
    <3>3. CASE row'[b] # row[b]
      BY <2>1, <3>1, <3>3, SeedWrites
    <3>4. QED
      BY <3>2, <3>3
  <2>2. QED
    BY <1>1, <1>2, <2>1, SeedWrites DEF IInv, TypeOK, Exists
<1>5. UnitsConsistent'
  <2>1. ASSUME NEW q \in Requests, request[q] # Idle
        PROVE  LET u == request[q] IN
               /\ u.code \in Codes /\ u.new.id # NoId
               /\ IF u.old.id = NoId THEN u.new.id \in Requests \X (1..MaxRequests)
                  ELSE u.new.id = u.old.id /\ row'[u.code].id # NoId
               /\ u.code \in Barrios /\ u.new.zona # NoZona => row'[u.new.zona].id # NoId
    <3>1. PICK u : u = request[q]
      OBVIOUS
    <3>2. /\ u.code \in Codes /\ u.new.id # NoId
          /\ IF u.old.id = NoId THEN u.new.id \in Requests \X (1..MaxRequests)
             ELSE u.new.id = u.old.id /\ Exists(u.code)
          /\ u.code \in Barrios /\ u.new.zona # NoZona => Exists(u.new.zona)
          /\ u \in Unit
      BY <2>1, <3>1 DEF IInv, UnitsConsistent, TypeOK
    <3>3. u.new.zona # NoZona => u.new.zona \in Codes
      BY <3>2 DEF Unit, Row, Codes
    <3>4. QED
      BY <1>3, <3>1, <3>2, <3>3
  <2>2. QED
    BY <1>1, <2>1 DEF UnitsConsistent, Exists
<1>6. ZonasCovered'
  BY <1>2, <1>3 DEF IInv, ZonasCovered, Codes, Exists
<1>7. SeedCovered' /\ SeedIsWhole'
  <2>1. SeedCovered'
    BY <1>2, <1>3, CatalogueAssumption DEF IInv, SeedCovered, Exists, At
  <2>2. SeedIsWhole'
    BY SeedWrites DEF SeedIsWhole, Missing, Exists
  <2>3. QED
    BY <2>1, <2>2
<1>8. QED
  BY <1>4, <1>5, <1>6, <1>7 DEF IInv

-----------------------------------------------------------------------------
(* The invariant.                                                          *)

LEMMA InitHolds == Init => IInv
<1> SUFFICES ASSUME Init PROVE IInv
  OBVIOUS
<1>1. TypeOK
  BY NoRowTyped, CatalogueAssumption DEF Init, TypeOK, Stages, Codes
<1>2. UnitsConsistent /\ ZonasCovered
  BY DEF Init, UnitsConsistent, ZonasCovered
<1>3. SeedCovered /\ SeedIsWhole
  <2>1. NoId \notin Replicas \X {0}
    BY IdsDiffer DEF Inserters
  <2>2. QED
    BY <2>1, NoRowTyped DEF Init, SeedCovered, SeedIsWhole, At
<1>4. QED
  BY <1>1, <1>2, <1>3 DEF IInv

LEMMA NextKeeps == IInv /\ [Next]_vars => IInv'
<1> SUFFICES ASSUME IInv, [Next]_vars PROVE IInv'
  OBVIOUS
<1>1. ASSUME NEW r \in Requests, Serve(r) PROVE IInv'
  <2>1. TypeOK
    BY DEF IInv
  <2>2. QED
    BY <1>1, <2>1, ServeBegins, BeginKeeps, CommitKeeps
<1>2. ASSUME NEW p \in Replicas, Lifespan(p) \/ SeedFails(p) \/ Stop(p) PROVE IInv'
  BY <1>2, StartsKeep, SeedCommitKeeps DEF Lifespan
<1>3. CASE UNCHANGED vars
  BY <1>3 DEF vars, IInv, TypeOK, UnitsConsistent, ZonasCovered, SeedCovered, SeedIsWhole,
     Missing, Exists, At
<1>4. QED
  BY <1>1, <1>2, <1>3 DEF Next

\* The inductive invariant holds throughout.
LEMMA Invariant == Spec => []IInv
BY InitHolds, NextKeeps, PTL DEF Spec

\* Only commits of requests and of seeds write rows.
LEMMA NextCases ==
  ASSUME IInv, [Next]_vars
  PROVE  \/ UNCHANGED row
         \/ \E r \in Requests : Commit(r)
         \/ \E p \in Replicas : SeedCommits(p)
<1>1. ASSUME NEW r \in Requests, Serve(r) PROVE UNCHANGED row \/ Commit(r)
  <2>1. \A c, new : Begin(r, c, new) => UNCHANGED row
    BY DEF Begin
  <2>2. QED
    BY <1>1, <2>1, ServeBegins DEF IInv
<1>2. ASSUME NEW p \in Replicas, Lifespan(p) \/ SeedFails(p) \/ Stop(p)
      PROVE  UNCHANGED row \/ SeedCommits(p)
  BY <1>2 DEF Lifespan, StartReplica, SeedReads, SeedFlushes, SeedFails, Stop
<1>3. QED
  BY <1>1, <1>2 DEF Next, vars

-----------------------------------------------------------------------------
(* The properties.                                                         *)

\* The type invariant of the catalogues, the requests and the replicas; a barrio
\* never names a zona that does not exist, whatever PATCHes and seeds overlap.
THEOREM TypeCorrect == Spec => []TypeOK
BY Invariant, PTL DEF IInv

\* The seed is all there or not at all, for any number of replicas that seed,
\* fail, are refused or die at any step while requests are served (the one commit
\* of seeds/__main__.py, over reads that are stale by then).
THEOREM SeedsAreWhole == Spec => []SeedIsWhole
BY Invariant, PTL DEF IInv

\* A code that has a row keeps that row: no commit of a request that did not
\* find it, and no seed, puts another one in its place.
THEOREM CodesStay == Spec => CodesForever
<1>1. ASSUME IInv, [Next]_vars, NEW c \in Codes, Exists(c)
      PROVE  row'[c].id = row[c].id
  BY <1>1, NextCases, CommitWrites, SeedWrites
<1>2. IInv /\ [Next]_vars => [\A c \in Codes : Exists(c) => row'[c].id = row[c].id]_vars
  BY <1>1
<1>3. QED
  BY <1>2, Invariant, PTL DEF Spec, CodesForever

\* A column that a commit changes is one its PATCH asked to change, and gets the
\* value it asked for, whatever row the request had loaded; seeds change nothing
\* of a row that is there.
THEOREM PatchesStay == Spec => PatchesCompose
<1>1. ASSUME IInv, [Next]_vars, NEW c \in Codes, NEW k \in {"nombre", "activo", "zona"},
             Exists(c), row'[c][k] # row[c][k]
      PROVE  \E r \in Requests : LET u == request[r] IN
               u.code = c /\ request'[r] = Idle /\ u.old[k] # u.new[k] /\ row'[c][k] = u.new[k]
  <2>1. ASSUME NEW r \in Requests, Commit(r)
        PROVE  LET u == request[r] IN
               u.code = c /\ request'[r] = Idle /\ u.old[k] # u.new[k] /\ row'[c][k] = u.new[k]
    <3>1. PICK old, new : old = request[r].old /\ new = request[r].new
      OBVIOUS
    <3>2. /\ request[r].code = c /\ old \in Row /\ new \in Row /\ row[c] \in Row
          /\ row'[c] = Written(row[c], old, new)
      BY <1>1, <2>1, <3>1, CommitWrites DEF IInv, TypeOK
    <3>3. row'[c][k] = IF old[k] # new[k] THEN new[k] ELSE row[c][k]
      BY <3>2, WrittenTyped
    <3>4. request'[r] = Idle
      BY <1>1, <2>1 DEF Commit, IInv, TypeOK
    <3>5. QED
      BY <1>1, <3>1, <3>2, <3>3, <3>4
  <2>2. ASSUME NEW p \in Replicas, SeedCommits(p)
        PROVE  FALSE
    BY <1>1, <2>2, SeedWrites
  <2>3. QED
    BY <1>1, <2>1, <2>2, NextCases
<1>2. IInv /\ [Next]_vars
        => [\A c \in Codes : \A k \in {"nombre", "activo", "zona"} :
              Exists(c) /\ row'[c][k] # row[c][k]
                => \E r \in Requests : LET u == request[r] IN
                     u.code = c /\ request'[r] = Idle /\ u.old[k] # u.new[k]
                       /\ row'[c][k] = u.new[k]]_vars
  BY <1>1
<1>3. QED
  BY <1>2, Invariant, PTL DEF Spec, PatchesCompose

================================================================================
