--------------------------------- MODULE Geo ---------------------------------
(***************************************************************************)
(* Places: rings of vertices, the point-in-polygon test, and which         *)
(* division and which area a point belongs to.  Coordinates are integers   *)
(* here; the tests multiply across where the code divides floats.          *)
(***************************************************************************)
EXTENDS Integers, Sequences, FiniteSets

Lesser(a, b) == IF a < b THEN a ELSE b
Greater(a, b) == IF a < b THEN b ELSE a

(* NewPolygon: the closing vertex is dropped, fewer than three are refused. *)
Ring(vertices) ==
    IF Len(vertices) > 1 /\ Head(vertices) = vertices[Len(vertices)]
    THEN SubSeq(vertices, 1, Len(vertices) - 1) ELSE vertices

IsPolygon(vertices) == Len(Ring(vertices)) >= 3

Edges(vertices) ==
    LET ring == Ring(vertices) IN
    {<<ring[i], ring[IF i = 1 THEN Len(ring) ELSE i - 1]>> : i \in DOMAIN ring}

InBoundingBox(vertices, c) ==
    /\ \E i, j \in DOMAIN vertices : vertices[i].lat <= c.lat /\ c.lat <= vertices[j].lat
    /\ \E i, j \in DOMAIN vertices : vertices[i].lng <= c.lng /\ c.lng <= vertices[j].lng

Cross(a, b, c) == (c.lat - a.lat) * (b.lng - a.lng) - (c.lng - a.lng) * (b.lat - a.lat)

OnSegment(a, b, c) ==
    /\ Cross(a, b, c) = 0
    /\ Lesser(a.lat, b.lat) <= c.lat /\ c.lat <= Greater(a.lat, b.lat)
    /\ Lesser(a.lng, b.lng) <= c.lng /\ c.lng <= Greater(a.lng, b.lng)

OnBorder(vertices, c) == \E e \in Edges(vertices) : OnSegment(e[1], e[2], c)

RayMeetsBothEnds(vi, vj, c) ==
    /\ Lesser(vi.lat, vj.lat) <= c.lat /\ c.lat <= Greater(vi.lat, vj.lat) /\ vi.lat # vj.lat
    /\ IF vj.lat > vi.lat
       THEN (c.lng - vi.lng) * (vj.lat - vi.lat) < (c.lat - vi.lat) * (vj.lng - vi.lng)
       ELSE (c.lng - vi.lng) * (vj.lat - vi.lat) > (c.lat - vi.lat) * (vj.lng - vi.lng)

(* The ray cast east from c crosses the edge.  A vertex at c's own latitude *)
(* counts as below it, so that it is met by one of its edges, not by both.  *)
RayCrosses(vi, vj, c) ==
    /\ (vi.lat > c.lat) # (vj.lat > c.lat)
    /\ IF vj.lat > vi.lat
       THEN (c.lng - vi.lng) * (vj.lat - vi.lat) < (c.lat - vi.lat) * (vj.lng - vi.lng)
       ELSE (c.lng - vi.lng) * (vj.lat - vi.lat) > (c.lat - vi.lat) * (vj.lng - vi.lng)

Contains(vertices, c) ==
    /\ InBoundingBox(vertices, c)
    /\ \/ OnBorder(vertices, c)
       \/ Cardinality({e \in Edges(vertices) : RayCrosses(e[1], e[2], c)}) % 2 = 1

(* PostGIS's ST_Contains, which a point on the border does not satisfy.    *)
STContains(vertices, c) == Contains(vertices, c) /\ ~OnBorder(vertices, c)

(* DivisionContaining: no division is a refusal, outside_service_area.     *)
DivisionContaining(divisions, c, none) ==
    IF \E d \in divisions : STContains(d.boundary, c)
    THEN (CHOOSE d \in divisions : STContains(d.boundary, c)).code
    ELSE none

-----------------------------------------------------------------------------
(* Two rings that share an edge lose no place between them and take none   *)
(* that their union does not hold (polygon.go, Contains: a point on an     *)
(* edge is inside).  Every quadrilateral cut along a diagonal shows it.    *)
NoGapBetweenNeighbours(points) ==
    \A a, b, c, d \in points :
        Cross(a, c, b) > 0 /\ Cross(a, c, d) < 0 =>
            \A p \in points :
                Contains(<<a, b, c, d>>, p) <=> \/ Contains(<<a, b, c, a>>, p)
                                                \/ Contains(<<a, c, d, a>>, p)

(* Nor does a place lie in both, so that it does not matter in which order *)
(* the database tries the divisions.                                       *)
NoOverlapOfNeighbours(points) ==
    \A a, b, c, d \in points :
        Cross(a, c, b) > 0 /\ Cross(a, c, d) < 0 =>
            \A p \in points :
                ~(STContains(<<a, b, c, a>>, p) /\ STContains(<<a, c, d, a>>, p))
=============================================================================
