-------------------------- MODULE JsonWebTokenProofs --------------------------
(***************************************************************************)
(* Proofs about what a request for a token is made of, for trees of any      *)
(* size and names of any number: every node of the trees has one owner, and  *)
(* a token is signed over what is sent and leaves nothing behind.  Then the  *)
(* helpers it is made with, and the others that compute a result from their  *)
(* input, for inputs of any length.                                          *)
(***************************************************************************)
EXTENDS JsonWebToken, Codecs, FiniteSetTheorems, SequenceTheorems, WellFoundedInduction, TLAPS

-----------------------------------------------------------------------------
(* Trees, as a function from nodes to what they are.                       *)

\* Below, of any such function.
Reach(f, n) ==
    LET reached[k \in 0..Cardinality(DOMAIN f)] ==
            IF k = 0 THEN {n}
            ELSE LET before == reached[k - 1] IN before \cup UNION {f[m].children : m \in before}
    IN reached[Cardinality(DOMAIN f)]

WellFormed(f) == IsFiniteSet(DOMAIN f) /\ \A m \in DOMAIN f : f[m].children \subseteq DOMAIN f
TopsAreFree(f, tops) == tops \subseteq DOMAIN f /\ \A m \in DOMAIN f : f[m].children \cap tops = {}
ParentsAreUnique(f) == \A m, l \in DOMAIN f : \A c \in f[m].children : c \in f[l].children => m = l
AllReached(f, tops) == \A x \in DOMAIN f : \E r \in tops : x \in Reach(f, r)

\* Every node belongs to one tree, and every tree to one of the tops.
Forest(f, tops) == WellFormed(f) /\ TopsAreFree(f, tops) /\ ParentsAreUnique(f) /\ AllReached(f, tops)

-----------------------------------------------------------------------------
(* The inductive invariant.                                                *)

NodesTyped ==
    /\ nodes = [m \in Live |-> nodes[m]] /\ Live \subseteq 1..MaxNodes
    /\ \A m \in Live :
          nodes[m] = [kind |-> nodes[m].kind, name |-> nodes[m].name, children |-> nodes[m].children]

Trees == Forest(nodes, roots \cup lost) /\ roots \cap lost = {}

TreeInv == NodesTyped /\ Trees /\ LostSilently /\ NamesDistinct

\* What was added of the claims when a step comes.
HeaderDue == [typ |-> {}, alg |-> {"typ"}]
PayloadDue ==
    [iss |-> {}, sub |-> {"iss"}, aud |-> {"iss", "sub"}, iat |-> {"iss", "sub", "aud"},
     nbf |-> {"iss", "sub", "aud", "iat"}, exp |-> {"iss", "sub", "aud", "iat", "nbf"},
     schemas |-> {"iss", "sub", "aud", "iat", "nbf", "exp"},
     urn |-> {"iss", "sub", "aud", "iat", "nbf", "exp", "schemas"},
     ten |-> {"iss", "sub", "aud", "iat", "nbf", "exp", "schemas"},
     jti |-> {"iss", "sub", "aud", "iat", "nbf", "exp", "schemas", "ten"}]

PayloadSteps == PayloadClaimSet \cup {"urn"}
TextSteps == DOMAIN TokenSteps
WithHeader == HeaderClaimSet \cup {"identifier", "payload"} \cup PayloadSteps \cup TextSteps
WithPayload == PayloadSteps \cup TextSteps
Steps == {"idle", "header", "destroy", "request", "done"} \cup WithHeader

HeaderDueAt(step) == IF step \in HeaderClaimSet THEN HeaderDue[step] ELSE HeaderClaimSet
PayloadDueAt(step) == IF step \in PayloadSteps THEN PayloadDue[step] ELSE PayloadClaimSet

\* The claims in a node are those that are due, and all of them unless memory ran out.
ClaimsOf(f, n) == {f[c].name : c \in f[n].children}
HoldsClaims(f, hush, n, due) == n \in DOMAIN f /\ ClaimsOf(f, n) \subseteq due /\ (hush \/ ClaimsOf(f, n) = due)

\* The nodes of the token, which are all the program has to destroy, and the claims in them.
JwtInv ==
    /\ pc \in Steps
    /\ jwt = [header |-> jwt.header, payload |-> jwt.payload]
    /\ pc \in {"idle", "header", "request", "done"} => jwt = NoJwt
    /\ pc \in HeaderClaimSet \cup {"identifier", "payload"} => jwt.payload = 0
    /\ pc # "idle" => roots = {jwt.header, jwt.payload} \ {0}
    /\ pc \in WithHeader => HoldsClaims(nodes, silent, jwt.header, HeaderDueAt(pc))
    /\ pc \in HeaderClaimSet => nodes[jwt.header].kind = "object"
    /\ pc \in WithPayload => jwt.payload # jwt.header /\ HoldsClaims(nodes, silent, jwt.payload, PayloadDueAt(pc))
    /\ pc = "urn" => array \in Live \ {jwt.header, jwt.payload}

\* Who holds what of the texts.
HeldAt(step) ==
    CASE step \in {"idle", "header", "typ", "alg", "identifier", "header json", "done"} -> {}
      [] step \in {"payload"} \cup PayloadSteps -> {"jti"}
      [] step = "payload json" -> {"header"}
      [] step = "encode header" -> {"header", "payload"}
      [] step = "encode payload" -> {"header", "payload", "header64"}
      [] step = "join" -> {"header", "payload", "header64", "payload64"}
      [] step = "sign" -> {"header", "payload", "both"}
      [] step = "encode" -> {"header", "payload", "both", "hash"}
      [] step = "finish" -> {"header", "payload", "both", "signature"}
      [] step = "request" -> {"token"}
      [] OTHER -> {}

\* The texts there may be.
Jsons(hush, due) == {<<"json", claims>> : claims \in IF hush THEN SUBSET due ELSE {due}}
Boths(hush) ==
    {Joined(Encoded(header), Encoded(payload)) :
        header \in Jsons(hush, HeaderClaimSet), payload \in Jsons(hush, PayloadClaimSet)}
Tokens(hush) == {Joined(both, Encoded(Signed(both))) : both \in Boths(hush)}

TextsFit(all, hush) ==
    /\ "header" \in DOMAIN all => all["header"] \in Jsons(hush, HeaderClaimSet)
    /\ "payload" \in DOMAIN all => all["payload"] \in Jsons(hush, PayloadClaimSet)
    /\ "header64" \in DOMAIN all => all["header64"] = Encoded(all["header"])
    /\ "payload64" \in DOMAIN all => all["payload64"] = Encoded(all["payload"])
    /\ "both" \in DOMAIN all => all["both"] \in Boths(hush)
    /\ "hash" \in DOMAIN all => all["hash"] = Signed(all["both"])
    /\ "signature" \in DOMAIN all => all["signature"] = Encoded(Signed(all["both"]))
    /\ "token" \in DOMAIN all => all["token"] \in Tokens(hush)

TextInv ==
    /\ IF pc = "destroy" THEN DOMAIN texts \subseteq {"header", "payload", "token"} ELSE DOMAIN texts = HeldAt(pc)
    /\ TextsFit(texts, silent)
    /\ token # <<>> => pc = "done" /\ token[1] \in Tokens(silent)

IInv == TreeInv /\ JwtInv /\ TextInv

-----------------------------------------------------------------------------
(* What is below a node: the least set with the node that is closed under   *)
(* children.                                                               *)

\* What stands for induction here: a set of numbers that is not empty has a least one.
LEMMA Least ==
    ASSUME NEW T, T \subseteq Nat, T # {}
    PROVE  \E x \in T : \A y \in T : x <= y
<1>1. PICK x \in T : \A y \in T : ~(<<y, x>> \in OpToRel(<, Nat))
  BY WFMin, NatLessThanWellFounded
<1>2. \A y \in T : ~(y < x)
  BY <1>1 DEF OpToRel
<1>. QED BY <1>2

LEMMA Induction ==
    ASSUME NEW T, 0 \in T, \A k \in Nat : k \in T => k + 1 \in T
    PROVE  Nat \subseteq T
<1> SUFFICES ASSUME Nat \ T # {}
             PROVE  FALSE
  OBVIOUS
<1>1. PICK x \in Nat \ T : \A y \in Nat \ T : x <= y
  BY Least
<1>2. x # 0 /\ x - 1 \in Nat
  BY <1>1
<1>3. x - 1 \in T
  BY <1>1, <1>2
<1>. QED BY <1>1, <1>2, <1>3

Grown(f, S) == S \cup UNION {f[m].children : m \in S}

\* The recursive function behind Below.
IsLevels(g, f, n, depth) == g = [k \in 0..depth |-> IF k = 0 THEN {n} ELSE Grown(f, g[k - 1])]

LEMMA LevelsExist ==
    ASSUME NEW f, NEW n, NEW depth \in Nat
    PROVE  \E g : IsLevels(g, f, n, depth)
<1> DEFINE T == {d \in Nat : \E g : IsLevels(g, f, n, d)}
<1>1. 0 \in T
  <2> DEFINE g == [k \in 0..0 |-> {n}]
  <2>1. IsLevels(g, f, n, 0)
    BY DEF IsLevels
  <2>. QED BY <2>1
<1>2. ASSUME NEW d \in Nat, d \in T
      PROVE  d + 1 \in T
  <2>1. PICK h : IsLevels(h, f, n, d)
    BY <1>2
  <2> DEFINE Entry(g, k) == IF k = 0 THEN {n} ELSE Grown(f, g[k - 1])
             g == [k \in 0..(d + 1) |-> Entry(h, k)]
  <2>2. h = [k \in 0..d |-> Entry(h, k)]
    BY <2>1 DEF IsLevels
  <2>3. \A k \in 0..d : h[k] = Entry(h, k)
    BY <2>2
  <2>4. \A k \in 0..d : g[k] = h[k]
    <3>1. \A k \in 0..d : k \in 0..(d + 1)
      OBVIOUS
    <3>. QED BY <2>3, <3>1
  <2>5. \A k \in 0..(d + 1) : Entry(g, k) = Entry(h, k)
    <3>1. \A k \in 0..(d + 1) : k # 0 => k - 1 \in 0..d
      OBVIOUS
    <3> HIDE DEF g
    <3>. QED BY <2>4, <3>1
  <2>6. g = [k \in 0..(d + 1) |-> Entry(g, k)]
    BY <2>5
  <2>7. IsLevels(g, f, n, d + 1)
    BY <2>6 DEF IsLevels
  <2>. QED BY <2>7
<1>3. Nat \subseteq T
  <2> HIDE DEF T
  <2>. QED BY <1>1, <1>2, Induction
<1>. QED BY <1>3

\* The levels that Below goes through.
LEMMA ReachLevels ==
    ASSUME NEW f, NEW n, WellFormed(f)
    PROVE  \E g : /\ g[0] = {n}
                  /\ \A k \in 0..Cardinality(DOMAIN f) : k # 0 => g[k] = Grown(f, g[k - 1])
                  /\ Reach(f, n) = g[Cardinality(DOMAIN f)]
<1> DEFINE depth == Cardinality(DOMAIN f)
           g == CHOOSE h : IsLevels(h, f, n, depth)
<1>1. depth \in Nat
  BY FS_CardinalityType DEF WellFormed
<1>2. Reach(f, n) = g[depth]
  BY DEF Reach, IsLevels, Grown
<1>3. IsLevels(g, f, n, depth)
  BY <1>1, LevelsExist
<1>4. \A k \in 0..depth : g[k] = IF k = 0 THEN {n} ELSE Grown(f, g[k - 1])
  <2> HIDE DEF g
  <2>. QED BY <1>3 DEF IsLevels
<1>5. 0 \in 0..depth
  BY <1>1
<1> HIDE DEF g
<1>. QED BY <1>2, <1>4, <1>5

LEMMA ReachesItself ==
    ASSUME NEW f, NEW n, WellFormed(f)
    PROVE  n \in Reach(f, n)
<1> DEFINE depth == Cardinality(DOMAIN f)
<1>1. depth \in Nat
  BY FS_CardinalityType DEF WellFormed
<1>2. PICK g : /\ g[0] = {n}
               /\ \A k \in 0..depth : k # 0 => g[k] = Grown(f, g[k - 1])
               /\ Reach(f, n) = g[depth]
  BY ReachLevels
<1> DEFINE T == {k \in Nat : k <= depth => n \in g[k]}
<1> HIDE DEF depth
<1>3. 0 \in T
  BY <1>2
<1>4. \A k \in Nat : k \in T => k + 1 \in T
  <2> SUFFICES ASSUME NEW k \in Nat, k \in T, k + 1 <= depth
               PROVE  n \in g[k + 1]
    OBVIOUS
  <2>1. k <= depth /\ k + 1 \in 0..depth /\ k + 1 # 0 /\ (k + 1) - 1 = k
    BY <1>1
  <2>2. g[k + 1] = Grown(f, g[k])
    BY <1>2, <2>1
  <2>. QED BY <2>1, <2>2 DEF Grown
<1>5. Nat \subseteq T
  <2> HIDE DEF T
  <2>. QED BY <1>3, <1>4, Induction
<1>. QED BY <1>1, <1>2, <1>5

\* Nothing else than what is in every closed set.
LEMMA ReachIsLeast ==
    ASSUME NEW f, NEW n, WellFormed(f),
           NEW S, n \in S, \A m \in S : f[m].children \subseteq S
    PROVE  Reach(f, n) \subseteq S
<1> DEFINE depth == Cardinality(DOMAIN f)
<1>1. depth \in Nat
  BY FS_CardinalityType DEF WellFormed
<1>2. PICK g : /\ g[0] = {n}
               /\ \A k \in 0..depth : k # 0 => g[k] = Grown(f, g[k - 1])
               /\ Reach(f, n) = g[depth]
  BY ReachLevels
<1> DEFINE T == {k \in Nat : k <= depth => g[k] \subseteq S}
<1> HIDE DEF depth
<1>3. 0 \in T
  BY <1>2
<1>4. \A k \in Nat : k \in T => k + 1 \in T
  <2> SUFFICES ASSUME NEW k \in Nat, k \in T, k + 1 <= depth
               PROVE  g[k + 1] \subseteq S
    OBVIOUS
  <2>1. k <= depth /\ k + 1 \in 0..depth /\ k + 1 # 0 /\ (k + 1) - 1 = k
    BY <1>1
  <2>2. g[k + 1] = Grown(f, g[k])
    BY <1>2, <2>1
  <2>. QED BY <2>1, <2>2 DEF Grown
<1>5. Nat \subseteq T
  <2> HIDE DEF T
  <2>. QED BY <1>3, <1>4, Induction
<1>. QED BY <1>1, <1>2, <1>5

LEMMA ReachesNodes ==
    ASSUME NEW f, NEW n \in DOMAIN f, WellFormed(f)
    PROVE  Reach(f, n) \subseteq DOMAIN f
<1>1. \A m \in DOMAIN f : f[m].children \subseteq DOMAIN f
  BY DEF WellFormed
<1>. QED BY <1>1, ReachIsLeast

\* As many levels as there are nodes are enough: each adds a node, or nothing is left to add.
LEMMA ReachIsClosed ==
    ASSUME NEW f, NEW n \in DOMAIN f, WellFormed(f), NEW m \in Reach(f, n)
    PROVE  f[m].children \subseteq Reach(f, n)
<1> DEFINE depth == Cardinality(DOMAIN f)
<1>1. depth \in Nat /\ IsFiniteSet(DOMAIN f)
  BY FS_CardinalityType DEF WellFormed
<1>2. PICK g : /\ g[0] = {n}
               /\ \A k \in 0..depth : k # 0 => g[k] = Grown(f, g[k - 1])
               /\ Reach(f, n) = g[depth]
  BY ReachLevels
<1>2a. \A x \in DOMAIN f : f[x].children \subseteq DOMAIN f
  BY DEF WellFormed
<1> DEFINE T == {k \in Nat : k <= depth =>
                               /\ g[k] \subseteq DOMAIN f
                               /\ Grown(f, g[k]) = g[k] \/ Cardinality(g[k]) > k}
<1> HIDE DEF depth
<1>3. 0 \in T
  <2>1. Cardinality(g[0]) = 1
    BY <1>2, FS_Singleton
  <2>. QED BY <1>2, <2>1
<1>4. \A k \in Nat : k \in T => k + 1 \in T
  <2> SUFFICES ASSUME NEW k \in Nat, k \in T, k + 1 <= depth
               PROVE  /\ g[k + 1] \subseteq DOMAIN f
                      /\ Grown(f, g[k + 1]) = g[k + 1] \/ Cardinality(g[k + 1]) > k + 1
    OBVIOUS
  <2>1. k <= depth /\ k + 1 \in 0..depth /\ k + 1 # 0 /\ (k + 1) - 1 = k
    BY <1>1
  <2>2. g[k + 1] = Grown(f, g[k])
    BY <1>2, <2>1
  <2>3. g[k] \subseteq DOMAIN f
    BY <2>1
  <2>4. g[k] \subseteq g[k + 1] /\ g[k + 1] \subseteq DOMAIN f
    BY <2>2, <2>3, <1>2a DEF Grown
  <2>5. CASE Grown(f, g[k]) = g[k]
    BY <2>5, <2>2, <2>4
  <2>6. CASE Grown(f, g[k]) # g[k]
    <3>1. IsFiniteSet(g[k + 1]) /\ g[k] # g[k + 1]
      BY <2>4, <2>6, <2>2, <1>1, FS_Subset
    <3>2. Cardinality(g[k]) < Cardinality(g[k + 1])
      <4>1. PICK x \in g[k + 1] : x \notin g[k]
        BY <3>1, <2>4
      <4>2. g[k] \subseteq g[k + 1] \ {x}
        BY <4>1, <2>4
      <4>3. IsFiniteSet(g[k + 1] \ {x}) /\ Cardinality(g[k + 1] \ {x}) = Cardinality(g[k + 1]) - 1
        BY <3>1, <4>1, FS_RemoveElement
      <4>4. Cardinality(g[k]) <= Cardinality(g[k + 1] \ {x})
        BY <4>2, <4>3, FS_Subset
      <4>5. Cardinality(g[k + 1]) \in Nat /\ Cardinality(g[k]) \in Nat
        BY <3>1, <2>4, FS_Subset, FS_CardinalityType
      <4>. QED BY <4>3, <4>4, <4>5
    <3>3. Cardinality(g[k]) > k
      BY <2>1, <2>6
    <3>4. Cardinality(g[k + 1]) \in Nat /\ Cardinality(g[k]) \in Nat
      BY <3>1, <2>4, FS_Subset, FS_CardinalityType
    <3>. QED BY <2>4, <3>2, <3>3, <3>4
  <2>. QED BY <2>5, <2>6
<1>5. Nat \subseteq T
  <2> HIDE DEF T
  <2>. QED BY <1>3, <1>4, Induction
<1>6. g[depth] \subseteq DOMAIN f /\ (Grown(f, g[depth]) = g[depth] \/ Cardinality(g[depth]) > depth)
  BY <1>5, <1>1
<1>7. Cardinality(g[depth]) <= depth /\ Cardinality(g[depth]) \in Nat
  BY <1>6, <1>1, FS_Subset, FS_CardinalityType DEF depth
<1>8. Grown(f, g[depth]) = g[depth]
  BY <1>1, <1>6, <1>7
<1>. QED BY <1>2, <1>8 DEF Grown

LEMMA ReachInside ==
    ASSUME NEW f, NEW n \in DOMAIN f, WellFormed(f), NEW m \in Reach(f, n)
    PROVE  Reach(f, m) \subseteq Reach(f, n)
<1>1. \A x \in Reach(f, n) : f[x].children \subseteq Reach(f, n)
  BY ReachIsClosed
<1>. QED BY <1>1, ReachIsLeast

\* What is below a node and is not the node has its parent there.
LEMMA ReachedByParent ==
    ASSUME NEW f, NEW n \in DOMAIN f, WellFormed(f), NEW c \in Reach(f, n), c # n
    PROVE  \E m \in Reach(f, n) : c \in f[m].children
<1> SUFFICES ASSUME \A m \in Reach(f, n) : c \notin f[m].children
             PROVE  FALSE
  OBVIOUS
<1> DEFINE S == Reach(f, n) \ {c}
<1>1. n \in S
  BY ReachesItself
<1>2. \A m \in S : f[m].children \subseteq S
  BY ReachIsClosed
<1>3. Reach(f, n) \subseteq S
  BY <1>1, <1>2, ReachIsLeast
<1>. QED BY <1>3

\* Nodes that stay, with the children they had, reach what they reached.
LEMMA ReachGrows ==
    ASSUME NEW f, NEW h, NEW n \in DOMAIN f, WellFormed(f), WellFormed(h),
           \A m \in DOMAIN f : m \in DOMAIN h /\ f[m].children \subseteq h[m].children
    PROVE  Reach(f, n) \subseteq Reach(h, n)
<1> DEFINE S == Reach(h, n) \cap DOMAIN f
<1>1. n \in S
  BY ReachesItself
<1>2. \A m \in S : f[m].children \subseteq S
  <2> SUFFICES ASSUME NEW m \in S
               PROVE  f[m].children \subseteq S
    OBVIOUS
  <2>1. h[m].children \subseteq Reach(h, n)
    BY ReachIsClosed
  <2>2. f[m].children \subseteq DOMAIN f
    BY DEF WellFormed
  <2>. QED BY <2>1, <2>2
<1>3. Reach(f, n) \subseteq S
  BY <1>1, <1>2, ReachIsLeast
<1>. QED BY <1>3

-----------------------------------------------------------------------------
(* What the calls do to a forest.                                          *)

\* h has the nodes of f, with their children.
Includes(h, f) == \A m \in DOMAIN f : m \in DOMAIN h /\ h[m].children = f[m].children

LEMMA IncludesReach ==
    ASSUME NEW f, NEW h, NEW n \in DOMAIN f, WellFormed(f), WellFormed(h), Includes(h, f)
    PROVE  Reach(f, n) \subseteq Reach(h, n)
BY ReachGrows DEF Includes

\* Two forests beside each other.
LEMMA ForestUnion ==
    ASSUME NEW f, NEW A, Forest(f, A), NEW g, NEW B, Forest(g, B), DOMAIN f \cap DOMAIN g = {},
           NEW h, DOMAIN h = DOMAIN f \cup DOMAIN g, Includes(h, f), Includes(h, g)
    PROVE  Forest(h, A \cup B)
<1>1. WellFormed(f) /\ WellFormed(g)
  BY DEF Forest
<1>2. WellFormed(h)
  <2>1. IsFiniteSet(DOMAIN h)
    BY <1>1, FS_Union DEF WellFormed
  <2>2. \A m \in DOMAIN h : h[m].children \subseteq DOMAIN h
    BY <1>1 DEF WellFormed, Includes
  <2>. QED BY <2>1, <2>2 DEF WellFormed
<1>3. TopsAreFree(h, A \cup B)
  <2>1. A \subseteq DOMAIN f /\ B \subseteq DOMAIN g
    BY DEF Forest, TopsAreFree
  <2>2. \A m \in DOMAIN f : f[m].children \cap A = {} /\ f[m].children \cap B = {}
    BY <1>1, <2>1 DEF Forest, TopsAreFree, WellFormed
  <2>3. \A m \in DOMAIN g : g[m].children \cap A = {} /\ g[m].children \cap B = {}
    BY <1>1, <2>1 DEF Forest, TopsAreFree, WellFormed
  <2>4. \A m \in DOMAIN h : h[m].children \cap A = {} /\ h[m].children \cap B = {}
    BY <2>2, <2>3 DEF Includes
  <2>. QED BY <2>1, <2>4 DEF TopsAreFree
<1>4. ParentsAreUnique(h)
  <2> SUFFICES ASSUME NEW m \in DOMAIN h, NEW l \in DOMAIN h, NEW c \in h[m].children, c \in h[l].children
               PROVE  m = l
    BY DEF ParentsAreUnique
  <2>1. CASE c \in DOMAIN f
    <3>1. m \in DOMAIN f /\ l \in DOMAIN f
      BY <2>1, <1>1 DEF WellFormed, Includes
    <3>. QED BY <3>1 DEF Forest, ParentsAreUnique, Includes
  <2>2. CASE c \in DOMAIN g
    <3>1. m \in DOMAIN g /\ l \in DOMAIN g
      BY <2>2, <1>1 DEF WellFormed, Includes
    <3>. QED BY <3>1 DEF Forest, ParentsAreUnique, Includes
  <2>. QED BY <1>2, <2>1, <2>2 DEF WellFormed
<1>5. AllReached(h, A \cup B)
  <2> SUFFICES ASSUME NEW x \in DOMAIN h
               PROVE  \E r \in A \cup B : x \in Reach(h, r)
    BY DEF AllReached
  <2>1. A \subseteq DOMAIN f /\ B \subseteq DOMAIN g
    BY DEF Forest, TopsAreFree
  <2>2. CASE x \in DOMAIN f
    <3>1. PICK r \in A : x \in Reach(f, r)
      BY <2>2 DEF Forest, AllReached
    <3>. QED BY <3>1, <2>1, <1>1, <1>2, IncludesReach
  <2>3. CASE x \in DOMAIN g
    <3>1. PICK r \in B : x \in Reach(g, r)
      BY <2>3 DEF Forest, AllReached
    <3>. QED BY <3>1, <2>1, <1>1, <1>2, IncludesReach
  <2>. QED BY <2>2, <2>3
<1>. QED BY <1>2, <1>3, <1>4, <1>5 DEF Forest

\* A top becomes the child of a node that is not below it.
LEMMA ForestMoved ==
    ASSUME NEW f, NEW A, Forest(f, A), NEW n \in A, NEW p \in DOMAIN f, p \notin Reach(f, n),
           NEW h, DOMAIN h = DOMAIN f, h[p].children = f[p].children \cup {n},
           \A m \in DOMAIN f \ {p} : h[m].children = f[m].children
    PROVE  Forest(h, A \ {n})
<1>1. WellFormed(f) /\ A \subseteq DOMAIN f
  BY DEF Forest, TopsAreFree
<1>2. WellFormed(h)
  BY <1>1 DEF WellFormed
<1>3. TopsAreFree(h, A \ {n})
  BY DEF Forest, TopsAreFree
<1>4. ParentsAreUnique(h)
  <2> SUFFICES ASSUME NEW m \in DOMAIN f, NEW l \in DOMAIN f, NEW c, c \in h[m].children, c \in h[l].children
               PROVE  m = l
    BY DEF ParentsAreUnique
  <2>1. CASE c = n
    <3>1. \A x \in DOMAIN f : c \notin f[x].children
      BY <2>1 DEF Forest, TopsAreFree
    <3>. QED BY <3>1
  <2>2. CASE c # n
    <3>1. c \in f[m].children /\ c \in f[l].children
      BY <2>2
    <3>. QED BY <3>1 DEF Forest, ParentsAreUnique
  <2>. QED BY <2>1, <2>2
<1>5. \A x \in DOMAIN f : Reach(f, x) \subseteq Reach(h, x)
  <2>1. \A m \in DOMAIN f : m \in DOMAIN h /\ f[m].children \subseteq h[m].children
    OBVIOUS
  <2>. QED BY <2>1, <1>1, <1>2, ReachGrows
<1>6. AllReached(h, A \ {n})
  <2> SUFFICES ASSUME NEW x \in DOMAIN f
               PROVE  \E r \in A \ {n} : x \in Reach(h, r)
    BY DEF AllReached
  <2>1. PICK r \in A : x \in Reach(f, r)
    BY DEF Forest, AllReached
  <2>2. CASE r # n
    BY <2>1, <2>2, <1>1, <1>5
  <2>3. CASE r = n
    <3>1. PICK q \in A : p \in Reach(f, q)
      BY DEF Forest, AllReached
    <3>2. q # n /\ q \in DOMAIN h
      BY <3>1, <1>1
    <3>3. p \in Reach(h, q)
      BY <3>1, <1>1, <1>5
    <3>4. n \in Reach(h, q)
      BY <3>2, <3>3, <1>2, ReachIsClosed
    <3>5. x \in Reach(h, n)
      BY <2>1, <2>3, <1>1, <1>5
    <3>6. Reach(h, n) \subseteq Reach(h, q)
      BY <3>2, <3>4, <1>2, ReachInside
    <3>. QED BY <3>2, <3>5, <3>6
  <2>. QED BY <2>2, <2>3
<1>. QED BY <1>2, <1>3, <1>4, <1>6 DEF Forest

\* Trees go whole.
LEMMA ForestWithout ==
    ASSUME NEW f, NEW A, Forest(f, A), NEW R, R \subseteq A,
           NEW h, DOMAIN h = DOMAIN f \ UNION {Reach(f, r) : r \in R}, Includes(f, h)
    PROVE  Forest(h, A \ R)
<1> DEFINE U == UNION {Reach(f, r) : r \in R}
<1>1. WellFormed(f) /\ A \subseteq DOMAIN f /\ \A m \in DOMAIN f : f[m].children \cap A = {}
  BY DEF Forest, TopsAreFree
<1>2. \A m \in U : f[m].children \subseteq U
  BY <1>1, ReachIsClosed
<1>3. \A m \in DOMAIN f \ U : f[m].children \cap U = {}
  <2> SUFFICES ASSUME NEW m \in DOMAIN f, m \notin U, NEW c \in f[m].children, c \in U
               PROVE  FALSE
    OBVIOUS
  <2>1. PICK r \in R : c \in Reach(f, r)
    OBVIOUS
  <2>2. r \in DOMAIN f /\ c # r
    BY <1>1
  <2>3. PICK l \in Reach(f, r) : c \in f[l].children
    BY <2>1, <2>2, <1>1, ReachedByParent
  <2>4. l \in DOMAIN f
    BY <2>2, <1>1, ReachesNodes
  <2>5. l = m
    BY <2>3, <2>4 DEF Forest, ParentsAreUnique
  <2>. QED BY <2>3, <2>5
<1>4. WellFormed(h)
  <2>1. IsFiniteSet(DOMAIN h)
    BY <1>1, FS_Subset DEF WellFormed
  <2>2. \A m \in DOMAIN h : h[m].children \subseteq DOMAIN h
    BY <1>1, <1>3 DEF WellFormed, Includes
  <2>. QED BY <2>1, <2>2 DEF WellFormed
<1>5. TopsAreFree(h, A \ R)
  <2>1. \A a \in A : a \in U => a \in R
    <3> SUFFICES ASSUME NEW a \in A, NEW r \in R, a \in Reach(f, r), a # r
                 PROVE  FALSE
      OBVIOUS
    <3>1. PICK m \in Reach(f, r) : a \in f[m].children
      BY <1>1, ReachedByParent
    <3>2. m \in DOMAIN f
      BY <1>1, ReachesNodes
    <3>. QED BY <3>1, <3>2, <1>1
  <2>. QED BY <2>1, <1>1 DEF TopsAreFree, Includes
<1>6. ParentsAreUnique(h)
  BY DEF Forest, ParentsAreUnique, Includes
<1>7. AllReached(h, A \ R)
  <2> SUFFICES ASSUME NEW x \in DOMAIN f, x \notin U
               PROVE  \E r \in A \ R : x \in Reach(h, r)
    BY DEF AllReached
  <2>1. PICK r \in A : x \in Reach(f, r)
    BY DEF Forest, AllReached
  <2>2. r \notin R /\ r \in DOMAIN h
    BY <2>1, <1>5 DEF TopsAreFree
  <2> DEFINE T == Reach(h, r) \cup U
  <2>3. r \in T
    BY <1>4, ReachesItself
  <2>4. \A m \in T : f[m].children \subseteq T
    <3> SUFFICES ASSUME NEW m \in Reach(h, r)
                 PROVE  f[m].children \subseteq Reach(h, r)
      BY <1>2
    <3>1. m \in DOMAIN h
      BY <2>2, <1>4, ReachesNodes
    <3>2. h[m].children \subseteq Reach(h, r)
      BY <2>2, <1>4, ReachIsClosed
    <3>. QED BY <3>1, <3>2 DEF Includes
  <2>5. Reach(f, r) \subseteq T
    <3> HIDE DEF T
    <3>. QED BY <2>3, <2>4, <1>1, ReachIsLeast
  <2>. QED BY <2>1, <2>2, <2>5
<1>. QED BY <1>4, <1>5, <1>6, <1>7 DEF Forest

\* No node is below itself.
LEMMA NoCycle ==
    ASSUME NEW f, NEW A, Forest(f, A), NEW n \in DOMAIN f, NEW m \in Reach(f, n), n \in f[m].children
    PROVE  FALSE
<1>1. WellFormed(f) /\ A \subseteq DOMAIN f /\ \A x \in DOMAIN f : f[x].children \cap A = {}
  BY DEF Forest, TopsAreFree
<1>2. m \in DOMAIN f
  BY <1>1, ReachesNodes
<1>3. PICK r \in A : n \in Reach(f, r)
  BY DEF Forest, AllReached
<1>4. r \in DOMAIN f /\ r # n
  BY <1>1, <1>2
<1>5. r \notin Reach(f, n)
  <2> SUFFICES ASSUME r \in Reach(f, n)
               PROVE  FALSE
    OBVIOUS
  <2>1. PICK x \in Reach(f, n) : r \in f[x].children
    BY <1>1, <1>4, ReachedByParent
  <2>2. x \in DOMAIN f
    BY <1>1, ReachesNodes
  <2>. QED BY <2>1, <2>2, <1>1
<1> DEFINE S == Reach(f, r) \ Reach(f, n)
<1>6. r \in S
  BY <1>1, <1>5, ReachesItself
<1>7. \A y \in S : f[y].children \subseteq S
  <2> SUFFICES ASSUME NEW y \in Reach(f, r), y \notin Reach(f, n), NEW c \in f[y].children
               PROVE  c \in Reach(f, r) /\ c \notin Reach(f, n)
    OBVIOUS
  <2>1. c \in Reach(f, r) /\ y \in DOMAIN f
    BY <1>1, <1>4, ReachIsClosed, ReachesNodes
  <2>2. ASSUME c \in Reach(f, n)
        PROVE  FALSE
    <3>1. CASE c = n
      BY <3>1, <1>2, <2>1 DEF Forest, ParentsAreUnique
    <3>2. CASE c # n
      <4>1. PICK x \in Reach(f, n) : c \in f[x].children
        BY <2>2, <3>2, <1>1, ReachedByParent
      <4>2. x \in DOMAIN f
        BY <1>1, ReachesNodes
      <4>3. x = y
        BY <4>1, <4>2, <2>1 DEF Forest, ParentsAreUnique
      <4>. QED BY <4>1, <4>3
    <3>. QED BY <3>1, <3>2
  <2>. QED BY <2>1, <2>2
<1>8. Reach(f, r) \subseteq S
  <2> HIDE DEF S
  <2>. QED BY <1>6, <1>7, <1>1, ReachIsLeast
<1>9. n \in Reach(f, n)
  BY <1>1, ReachesItself
<1>. QED BY <1>3, <1>8, <1>9

\* A copy of what is below a node is a tree.
LEMMA ForestCopied ==
    ASSUME NEW f, NEW A, Forest(f, A), NEW n \in DOMAIN f, NEW copy,
           \A i, j \in Reach(f, n) : copy[i] = copy[j] => i = j,
           NEW h, DOMAIN h = {copy[i] : i \in Reach(f, n)},
           \A i \in Reach(f, n) : h[copy[i]].children = {copy[c] : c \in f[i].children}
    PROVE  Forest(h, {copy[n]})
<1> DEFINE D == Reach(f, n)
<1>1. WellFormed(f) /\ D \subseteq DOMAIN f /\ n \in D /\ \A i \in D : f[i].children \subseteq D
  <2>1. WellFormed(f)
    BY DEF Forest
  <2>. QED BY <2>1, ReachesNodes, ReachesItself, ReachIsClosed
<1>1a. DOMAIN h = {copy[i] : i \in D} /\ \A i \in D : h[copy[i]].children = {copy[c] : c \in f[i].children}
  OBVIOUS
<1>1b. \A i, j \in D : copy[i] = copy[j] => i = j
  OBVIOUS
<1>1c. \A i \in D : n \notin f[i].children
  BY NoCycle
<1>1d. \A i, j \in D : \A c \in f[i].children : c \in f[j].children => i = j
  BY <1>1 DEF Forest, ParentsAreUnique
<1> HIDE DEF D
<1>2. WellFormed(h)
  <2>1. IsFiniteSet(D)
    BY <1>1, FS_Subset DEF WellFormed
  <2>2. IsFiniteSet(DOMAIN h)
    <3> DEFINE c == [i \in D |-> copy[i]]
    <3>1. c \in Surjection(D, DOMAIN h)
      BY <1>1a DEF Surjection
    <3>. QED BY <2>1, <3>1, FS_Surjection
  <2>3. \A m \in DOMAIN h : h[m].children \subseteq DOMAIN h
    <3>1. \A i \in D : {copy[c] : c \in f[i].children} \subseteq {copy[c] : c \in D}
      BY <1>1
    <3>2. \A i \in D : h[copy[i]].children \subseteq DOMAIN h
      BY <1>1a, <3>1
    <3>. QED BY <1>1a, <3>2
  <2>. QED BY <2>2, <2>3 DEF WellFormed
<1>3. TopsAreFree(h, {copy[n]})
  <2>1. ASSUME NEW i \in D, copy[n] \in h[copy[i]].children
        PROVE  FALSE
    <3>1. PICK c \in f[i].children : copy[c] = copy[n]
      BY <2>1, <1>1a
    <3>2. c = n
      BY <3>1, <1>1, <1>1b
    <3>. QED BY <3>1, <3>2, <1>1c
  <2>. QED BY <2>1, <1>1, <1>1a DEF TopsAreFree
<1>4. ParentsAreUnique(h)
  <2> SUFFICES ASSUME NEW i \in D, NEW j \in D, NEW x, x \in h[copy[i]].children, x \in h[copy[j]].children
               PROVE  i = j
    BY <1>1a DEF ParentsAreUnique
  <2>1. PICK c \in f[i].children : x = copy[c]
    BY <1>1a
  <2>2. PICK d \in f[j].children : x = copy[d]
    BY <1>1a
  <2>3. c = d
    BY <2>1, <2>2, <1>1, <1>1b
  <2>. QED BY <2>1, <2>2, <2>3, <1>1d
<1>5. AllReached(h, {copy[n]})
  <2> DEFINE T == {i \in D : copy[i] \in Reach(h, copy[n])}
  <2>0. copy[n] \in DOMAIN h
    BY <1>1, <1>1a
  <2>1. n \in T
    BY <1>1, <1>2, <2>0, ReachesItself
  <2>2. \A m \in T : f[m].children \subseteq T
    <3> SUFFICES ASSUME NEW m \in D, copy[m] \in Reach(h, copy[n]), NEW c \in f[m].children
                 PROVE  c \in D /\ copy[c] \in Reach(h, copy[n])
      OBVIOUS
    <3>1. h[copy[m]].children \subseteq Reach(h, copy[n])
      BY <1>2, <2>0, ReachIsClosed
    <3>. QED BY <3>1, <1>1, <1>1a
  <2>3. D \subseteq T
    <3> HIDE DEF T
    <3>. QED BY <2>1, <2>2, <1>1, ReachIsLeast DEF D
  <2>. QED BY <2>3, <1>1a DEF AllReached
<1>. QED BY <1>2, <1>3, <1>4, <1>5 DEF Forest

-----------------------------------------------------------------------------
(* New nodes.                                                              *)

LEMMA MinIsIn ==
    ASSUME NEW S, S \subseteq 1..MaxNodes, S # {}
    PROVE  Min(S) \in S /\ \A y \in S : Min(S) <= y
<1>1. MaxNodes \in Nat
  BY JsonTreeAssumption
<1>2. \E x \in S : \A y \in S : x <= y
  <2>1. \A y \in 1..MaxNodes : y \in Nat
    BY <1>1
  <2>2. S \subseteq Nat
    BY <2>1
  <2>. QED BY <2>2, Least
<1>. QED BY <1>2 DEF Min

LEMMA MaxIsIn ==
    ASSUME NEW S, S \subseteq 1..MaxNodes, S # {}
    PROVE  Max(S) \in S /\ \A y \in S : y <= Max(S)
<1>1. MaxNodes \in Nat
  BY JsonTreeAssumption
<1> DEFINE T == {k \in Nat : MaxNodes - k \in S}
<1>2. T # {} /\ T \subseteq Nat
  <2>1. PICK y \in S : TRUE
    OBVIOUS
  <2>2. MaxNodes - y \in Nat /\ MaxNodes - (MaxNodes - y) = y
    BY <1>1
  <2>. QED BY <2>1, <2>2
<1>3. PICK k \in T : \A j \in T : k <= j
  <2> HIDE DEF T
  <2>. QED BY <1>2, Least
<1>4. \A y \in S : MaxNodes - y \in T
  <2>1. \A y \in S : MaxNodes - y \in Nat /\ MaxNodes - (MaxNodes - y) = y
    BY <1>1
  <2>. QED BY <2>1
<1>5. MaxNodes - k \in S /\ \A y \in S : y <= MaxNodes - k
  BY <1>1, <1>3, <1>4
<1>6. \E x \in S : \A y \in S : x >= y
  <2>1. \A y \in S : MaxNodes - k >= y
    BY <1>1, <1>3, <1>5
  <2>. QED BY <2>1, <1>5
<1>7. Max(S) \in S /\ \A y \in S : Max(S) >= y
  BY <1>6 DEF Max
<1>8. S \subseteq Int /\ Max(S) \in Int
  <2>1. \A y \in 1..MaxNodes : y \in Int
    BY <1>1
  <2>. QED BY <2>1, <1>7
<1>. QED BY <1>7, <1>8

LEMMA UnusedAreFinite ==
    ASSUME NodesTyped
    PROVE  /\ IsFiniteSet(Live) /\ Cardinality(Live) \in Nat /\ IsFiniteSet(1..MaxNodes)
           /\ Cardinality(1..MaxNodes) = MaxNodes /\ MaxNodes \in Nat
           /\ Unused \subseteq 1..MaxNodes /\ IsFiniteSet(Unused)
           /\ \A k : Fresh(k) \subseteq Unused
<1>1. MaxNodes \in Nat
  BY JsonTreeAssumption
<1>2. IsFiniteSet(1..MaxNodes) /\ Cardinality(1..MaxNodes) = MaxNodes
  BY <1>1, FS_Interval
<1>3. Unused \subseteq 1..MaxNodes /\ \A k : Fresh(k) \subseteq Unused
  BY DEF Unused, Fresh
<1>4. Live \subseteq 1..MaxNodes
  BY DEF NodesTyped
<1>. QED BY <1>1, <1>2, <1>3, <1>4, FS_Subset, FS_CardinalityType

\* Where there is room for a node, there is a new one.
LEMMA FreshIsThere ==
    ASSUME NodesTyped, NEW k \in Nat, k > 0, CanMake(k)
    PROVE  Fresh(k) # {}
<1>1. Unused # {}
  <2> SUFFICES ASSUME Unused = {}
               PROVE  FALSE
    OBVIOUS
  <2>1. Live = 1..MaxNodes
    BY DEF Unused, NodesTyped
  <2>2. Cardinality(Live) = MaxNodes /\ MaxNodes \in Nat
    BY <2>1, UnusedAreFinite
  <2>. QED BY <2>2 DEF CanMake
<1>2. Min(Unused) \in Unused /\ \A y \in Unused : Min(Unused) <= y
  BY <1>1, UnusedAreFinite, MinIsIn
<1>3. {j \in Unused : j <= Min(Unused)} = {Min(Unused)}
  <2>1. \A j \in Unused : j \in Int
    BY UnusedAreFinite
  <2>. QED BY <1>2, <2>1
<1>4. Cardinality({j \in Unused : j <= Min(Unused)}) = 1
  BY <1>3, FS_Singleton
<1>5. Min(Unused) \in Fresh(k)
  BY <1>2, <1>4 DEF Fresh
<1>. QED BY <1>5

LEMMA NewNodeIsUnused ==
    ASSUME NodesTyped, CanMake(1)
    PROVE  NewNode \notin Live /\ NewNode \in 1..MaxNodes
<1>1. Fresh(1) # {} /\ Fresh(1) \subseteq Unused /\ Unused \subseteq 1..MaxNodes
  BY FreshIsThere, UnusedAreFinite
<1>2. Max(Fresh(1)) \in Fresh(1)
  BY <1>1, MaxIsIn
<1>. QED BY <1>1, <1>2 DEF NewNode, Unused

\* As many as are asked for, at most.
LEMMA FreshIsBounded ==
    ASSUME NodesTyped, NEW k \in Nat
    PROVE  IsFiniteSet(Fresh(k)) /\ Cardinality(Fresh(k)) <= k
<1>1. Fresh(k) \subseteq Unused /\ Unused \subseteq 1..MaxNodes /\ IsFiniteSet(Unused)
  BY UnusedAreFinite
<1>2. IsFiniteSet(Fresh(k))
  BY <1>1, FS_Subset
<1>3. CASE Fresh(k) = {}
  BY <1>2, <1>3, FS_EmptySet
<1>4. CASE Fresh(k) # {}
  <2> DEFINE most == Max(Fresh(k))
             upto == {j \in Unused : j <= most}
  <2>1. most \in Fresh(k) /\ \A y \in Fresh(k) : y <= most
    BY <1>1, <1>4, MaxIsIn
  <2>2. Cardinality(upto) <= k
    BY <2>1 DEF Fresh
  <2>3. Fresh(k) \subseteq upto
    BY <2>1, <1>1
  <2>4. IsFiniteSet(upto)
    BY <1>1, FS_Subset
  <2> HIDE DEF upto
  <2>5. Cardinality(Fresh(k)) <= Cardinality(upto)
    BY <2>3, <2>4, FS_Subset
  <2>6. Cardinality(Fresh(k)) \in Nat /\ Cardinality(upto) \in Nat
    BY <1>2, <2>4, FS_CardinalityType
  <2>. QED BY <1>2, <2>2, <2>5, <2>6
<1>. QED BY <1>3, <1>4

-----------------------------------------------------------------------------
(* What the invariant says.                                                *)

LEMMA BelowIsReach ==
    \A n : Below(n) = Reach(nodes, n)
BY DEF Below, Reach, Live

\* One owner of each: the program, nobody or the one parent.
LEMMA TreesAreOwned ==
    ASSUME TreeInv
    PROVE  OneOwner
<1>1. WellFormed(nodes) /\ TopsAreFree(nodes, roots \cup lost) /\ ParentsAreUnique(nodes)
      /\ AllReached(nodes, roots \cup lost) /\ roots \cap lost = {}
  BY DEF TreeInv, Trees, Forest
<1> SUFFICES ASSUME NEW n \in Live
             PROVE  Owners(n) = 1 /\ nodes[n].children \subseteq Live
  BY DEF OneOwner
<1>2. nodes[n].children \subseteq Live
  BY <1>1 DEF WellFormed, Live
<1>3. CASE n \in roots \cup lost
  <2>1. Parents(n) = {}
    BY <1>1, <1>3 DEF TopsAreFree, Parents, Live
  <2>2. Cardinality(Parents(n)) = 0
    BY <2>1, FS_EmptySet
  <2>. QED BY <1>1, <1>2, <1>3, <2>2 DEF Owners
<1>4. CASE n \notin roots \cup lost
  <2>1. PICK r \in roots \cup lost : n \in Reach(nodes, r)
    BY <1>1 DEF AllReached, Live
  <2>2. PICK m \in Reach(nodes, r) : n \in nodes[m].children
    BY <1>1, <1>4, <2>1, ReachedByParent DEF TopsAreFree
  <2>3. m \in Live
    BY <1>1, <2>1, <2>2, ReachesNodes DEF TopsAreFree, Live
  <2>4. Parents(n) = {m}
    BY <1>1, <2>2, <2>3 DEF ParentsAreUnique, Parents, Live
  <2>5. Cardinality(Parents(n)) = 1
    BY <2>4, FS_Singleton
  <2>. QED BY <1>2, <1>4, <2>5 DEF Owners
<1>. QED BY <1>3, <1>4

LEMMA TreesAreSoundThen ==
    ASSUME TreeInv
    PROVE  TreesAreSound
BY TreesAreOwned DEF TreesAreSound, TreeInv

\* A record with other children.
LEMMA WithChildren ==
    ASSUME NEW x, x = [kind |-> x.kind, name |-> x.name, children |-> x.children], NEW S
    PROVE  [x EXCEPT !.children = S] = [kind |-> x.kind, name |-> x.name, children |-> S]
OBVIOUS

LEMMA WithName ==
    ASSUME NEW x, x = [kind |-> x.kind, name |-> x.name, children |-> x.children], NEW name
    PROVE  [x EXCEPT !.name = name] = [kind |-> x.kind, name |-> name, children |-> x.children]
OBVIOUS

-----------------------------------------------------------------------------
(* The calls keep it.                                                      *)

\* No two members of one name.
Distinct(f, n) ==
    f[n].kind = "object" =>
        \A c, d \in f[n].children :
            c # d /\ NoName \notin {f[c].name, f[d].name} => Fold[f[c].name] # Fold[f[d].name]

LEMMA NamesAreDistinct ==
    NamesDistinct <=> \A n \in Live \ parsed : Distinct(nodes, n)
BY DEF NamesDistinct, Distinct

LEMMA DistinctKept ==
    ASSUME NEW f, NEW h, NEW n, NEW m, Distinct(f, n), h[m].kind = f[n].kind, h[m].children = f[n].children,
           \A c \in f[n].children : h[c].name = f[c].name
    PROVE  Distinct(h, m)
BY DEF Distinct

IsNode(x) == x = [kind |-> x.kind, name |-> x.name, children |-> x.children]

LEMMA NodesAreTyped ==
    NodesTyped <=> /\ nodes = [m \in Live |-> nodes[m]] /\ Live \subseteq 1..MaxNodes
                   /\ \A m \in Live : IsNode(nodes[m])
BY DEF NodesTyped, IsNode

LEMMA NodesAreTypedNext ==
    NodesTyped' <=> /\ nodes' = [m \in Live' |-> nodes'[m]] /\ Live' \subseteq 1..MaxNodes
                    /\ \A m \in Live' : IsNode(nodes'[m])
BY DEF NodesTyped, IsNode, Live

LEMMA NewNodeKeepsNodes ==
    ASSUME NodesTyped, CanMake(1), NEW kind, NEW name, nodes' = WithNode(NewNode, Node(kind, name))
    PROVE  /\ NodesTyped'
           /\ NewNode \notin Live /\ NewNode \in 1..MaxNodes /\ Live' = Live \cup {NewNode}
           /\ nodes'[NewNode] = Node(kind, name)
           /\ \A m \in Live : m # NewNode /\ nodes'[m] = nodes[m]
<1>1. NewNode \notin Live /\ NewNode \in 1..MaxNodes
  BY NewNodeIsUnused
<1>2. Live \subseteq 1..MaxNodes /\ \A m \in Live : IsNode(nodes[m])
  BY NodesAreTyped
<1> DEFINE new == NewNode
<1> HIDE DEF new
<1>3. nodes' = [m \in Live \cup {new} |-> IF m = new THEN Node(kind, name) ELSE nodes[m]]
  BY DEF WithNode, new
<1>4. Live' = Live \cup {new} /\ nodes' = [m \in Live' |-> nodes'[m]]
  <2>1. DOMAIN nodes' = Live \cup {new}
    BY <1>3
  <2>2. nodes' = [m \in Live \cup {new} |-> nodes'[m]]
    BY <1>3
  <2>. QED BY <2>1, <2>2 DEF Live
<1>5. nodes'[new] = Node(kind, name) /\ \A m \in Live : m # new /\ nodes'[m] = nodes[m]
  BY <1>1, <1>3 DEF new
<1>6. IsNode(Node(kind, name))
  BY DEF Node, IsNode
<1>7. NodesTyped'
  BY <1>1, <1>2, <1>4, <1>5, <1>6, NodesAreTypedNext DEF new
<1>. QED BY <1>1, <1>4, <1>5, <1>7 DEF new

LEMMA AttachedKeepsNodes ==
    ASSUME NodesTyped, NEW parent \in Live, NEW n \in 1..MaxNodes, n # parent, NEW node, IsNode(node),
           nodes' = Attached(parent, n, node)
    PROVE  /\ NodesTyped' /\ Live' = Live \cup {n} /\ nodes'[n] = node
           /\ nodes'[parent].kind = nodes[parent].kind /\ nodes'[parent].name = nodes[parent].name
           /\ nodes'[parent].children = nodes[parent].children \cup {n}
           /\ \A m \in Live : m # n /\ m # parent => nodes'[m] = nodes[m]
<1>1. Live \subseteq 1..MaxNodes /\ \A m \in Live : IsNode(nodes[m])
  BY NodesAreTyped
<1> DEFINE new == [kind |-> nodes[parent].kind, name |-> nodes[parent].name,
                   children |-> nodes[parent].children \cup {n}]
<1>2. [nodes[parent] EXCEPT !.children = @ \cup {n}] = new
  BY <1>1, WithChildren DEF IsNode
<1>2a. IsNode(new) /\ new.kind = nodes[parent].kind /\ new.name = nodes[parent].name
       /\ new.children = nodes[parent].children \cup {n}
  BY DEF IsNode
<1> HIDE DEF new
<1>3. nodes' = [m \in Live \cup {n} |-> IF m = n THEN node ELSE IF m = parent THEN new ELSE nodes[m]]
  <2>1. \A m : m = parent => [nodes[m] EXCEPT !.children = @ \cup {n}] = new
    BY <1>2
  <2>. QED BY <2>1 DEF Attached
<1>4. Live' = Live \cup {n} /\ nodes' = [m \in Live' |-> nodes'[m]]
  <2>1. DOMAIN nodes' = Live \cup {n}
    BY <1>3
  <2>2. nodes' = [m \in Live \cup {n} |-> nodes'[m]]
    BY <1>3
  <2>. QED BY <2>1, <2>2 DEF Live
<1>5. nodes'[n] = node /\ nodes'[parent] = new /\ \A m \in Live : m # n /\ m # parent => nodes'[m] = nodes[m]
  BY <1>3
<1>6. \A m \in Live' : IsNode(nodes'[m])
  BY <1>1, <1>2a, <1>4, <1>5
<1>7. NodesTyped'
  BY <1>1, <1>4, <1>6, NodesAreTypedNext
<1>. QED BY <1>2a, <1>4, <1>5, <1>7

\* A forest of one node.
LEMMA OneNode ==
    ASSUME NEW n, NEW node, node.children = {}
    PROVE  LET g == [m \in {n} |-> node] IN Forest(g, {n}) /\ DOMAIN g = {n} /\ g[n].children = {}
<1> DEFINE g == [m \in {n} |-> node]
<1>1. DOMAIN g = {n} /\ g[n].children = {}
  OBVIOUS
<1> HIDE DEF g
<1>2. WellFormed(g)
  BY <1>1, FS_Singleton DEF WellFormed
<1>3. n \in Reach(g, n)
  BY <1>2, ReachesItself
<1>4. Forest(g, {n})
  BY <1>1, <1>2, <1>3 DEF Forest, TopsAreFree, ParentsAreUnique, AllReached
<1>. QED BY <1>1, <1>4 DEF g

LEMMA NewNodeIsTop ==
    ASSUME NEW f, NEW A, Forest(f, A), NEW n, n \notin DOMAIN f,
           NEW h, DOMAIN h = DOMAIN f \cup {n}, Includes(h, f), h[n].children = {}
    PROVE  Forest(h, A \cup {n})
<1> DEFINE g == [m \in {n} |-> h[n]]
<1>1. Forest(g, {n}) /\ DOMAIN g = {n} /\ g[n].children = {}
  BY OneNode
<1> HIDE DEF g
<1>2. Includes(h, g)
  BY <1>1 DEF Includes
<1>3. DOMAIN f \cap DOMAIN g = {} /\ DOMAIN h = DOMAIN f \cup DOMAIN g
  BY <1>1
<1>. QED BY <1>1, <1>2, <1>3, ForestUnion

LEMMA NewNodeIsChild ==
    ASSUME NEW f, NEW A, Forest(f, A), NEW n, n \notin DOMAIN f, NEW p \in DOMAIN f,
           NEW h, DOMAIN h = DOMAIN f \cup {n}, h[n].children = {}, h[p].children = f[p].children \cup {n},
           \A m \in DOMAIN f \ {p} : h[m].children = f[m].children
    PROVE  Forest(h, A)
<1> DEFINE g == [m \in DOMAIN f \cup {n} |-> IF m = n THEN h[n] ELSE f[m]]
<1>1. DOMAIN g = DOMAIN f \cup {n} /\ g[n].children = {} /\ \A m \in DOMAIN f : g[m] = f[m]
  OBVIOUS
<1> HIDE DEF g
<1>2. Includes(g, f)
  BY <1>1 DEF Includes
<1>3. Forest(g, A \cup {n})
  BY <1>1, <1>2, NewNodeIsTop
<1>4. WellFormed(g) /\ A \subseteq DOMAIN f
  BY <1>3 DEF Forest, TopsAreFree
<1>5. Reach(g, n) \subseteq {n}
  <2>1. \A m \in {n} : g[m].children \subseteq {n}
    BY <1>1
  <2>2. n \in {n}
    OBVIOUS
  <2>. QED BY <1>4, <2>1, <2>2, ReachIsLeast
<1>6. Forest(h, (A \cup {n}) \ {n})
  <2>1. p \notin Reach(g, n) /\ p \in DOMAIN g /\ n \in A \cup {n} /\ DOMAIN h = DOMAIN g
    BY <1>1, <1>5
  <2>2. h[p].children = g[p].children \cup {n} /\ \A m \in DOMAIN g \ {p} : h[m].children = g[m].children
    BY <1>1
  <2>. QED BY <1>3, <2>1, <2>2, ForestMoved
<1>7. A \subseteq DOMAIN f
  BY DEF Forest, TopsAreFree
<1>8. (A \cup {n}) \ {n} = A
  BY <1>7
<1>. QED BY <1>6, <1>8

LEMMA TreeParts ==
    ASSUME TreeInv
    PROVE  /\ Forest(nodes, roots \cup lost) /\ WellFormed(nodes) /\ roots \subseteq Live /\ lost \subseteq Live
           /\ roots \cap lost = {} /\ \A m \in Live : nodes[m].children \subseteq Live
           /\ NodesTyped /\ LostSilently /\ \A m \in Live \ parsed : Distinct(nodes, m)
<1>1. NodesTyped /\ LostSilently /\ Forest(nodes, roots \cup lost) /\ roots \cap lost = {}
  BY DEF TreeInv, Trees
<1>2. WellFormed(nodes) /\ roots \cup lost \subseteq Live
  BY <1>1 DEF Forest, TopsAreFree, Live
<1>3. \A m \in Live \ parsed : Distinct(nodes, m)
  BY NamesAreDistinct DEF TreeInv
<1>. QED BY <1>1, <1>2, <1>3 DEF WellFormed, Live

LEMMA TreePartsNext ==
    ASSUME NodesTyped', LostSilently', Forest(nodes', roots' \cup lost'), roots' \cap lost' = {},
           \A m \in Live' \ parsed' : Distinct(nodes', m)
    PROVE  TreeInv'
<1>1. NamesDistinct'
  BY DEF NamesDistinct, Distinct, Live
<1>2. Trees'
  BY DEF Trees
<1>. QED BY <1>1, <1>2 DEF TreeInv

LEMMA UnchangedTree ==
    ASSUME TreeInv, UNCHANGED <<nodes, roots, lost, silent, parsed>>
    PROVE  TreeInv'
BY DEF TreeInv, NodesTyped, Trees, LostSilently, NamesDistinct, Live

\* A new node that has no parent: of the program, or lost.
LEMMA NewTopKeeps ==
    ASSUME TreeInv, CanMake(1), NEW kind, nodes' = WithNode(NewNode, Node(kind, NoName)),
           roots' \cup lost' = (roots \cup lost) \cup {NewNode}, roots' \cap lost' = {},
           LostSilently', parsed' = parsed
    PROVE  TreeInv'
<1> DEFINE new == NewNode
           node == Node(kind, NoName)
<1>1. /\ Forest(nodes, roots \cup lost) /\ NodesTyped
      /\ \A m \in Live : nodes[m].children \subseteq Live
      /\ \A m \in Live \ parsed : Distinct(nodes, m)
  BY TreeParts
<1>2. NodesTyped' /\ new \notin Live /\ Live' = Live \cup {new} /\ nodes'[new] = node
      /\ \A m \in Live : m # new /\ nodes'[m] = nodes[m]
  BY <1>1, NewNodeKeepsNodes
<1>3. node.children = {}
  BY DEF Node
<1>4. roots' \cup lost' = (roots \cup lost) \cup {new}
  OBVIOUS
<1> HIDE DEF new, node
<1>5. Forest(nodes', (roots \cup lost) \cup {new})
  <2>1. Includes(nodes', nodes)
    BY <1>2 DEF Includes, Live
  <2>. QED BY <1>1, <1>2, <1>3, <2>1, NewNodeIsTop DEF Live
<1>6. \A m \in Live' \ parsed' : Distinct(nodes', m)
  <2> SUFFICES ASSUME NEW m \in Live', m \notin parsed
               PROVE  Distinct(nodes', m)
    OBVIOUS
  <2>1. CASE m = new
    BY <2>1, <1>2, <1>3 DEF Distinct
  <2>2. CASE m # new
    <3>1. m \in Live /\ Distinct(nodes, m) /\ nodes'[m] = nodes[m]
      BY <2>2, <1>1, <1>2
    <3>2. \A c \in nodes[m].children : nodes'[c] = nodes[c]
      BY <3>1, <1>1, <1>2
    <3>. QED BY <3>1, <3>2, DistinctKept
  <2>. QED BY <2>1, <2>2
<1>. QED BY <1>2, <1>4, <1>5, <1>6, TreePartsNext

LEMMA NewRootKeeps ==
    ASSUME TreeInv, CanMake(1), NEW kind, NewRoot(kind)
    PROVE  TreeInv'
<1>1. NewNode \notin lost /\ roots \cap lost = {} /\ LostSilently
  BY TreeParts, NewNodeIsUnused
<1>2. nodes' = WithNode(NewNode, Node(kind, NoName)) /\ roots' = roots \cup {NewNode} /\ lost' = lost
      /\ parsed' = parsed /\ silent' = silent
  BY DEF NewRoot
<1>3. roots' \cup lost' = (roots \cup lost) \cup {NewNode} /\ roots' \cap lost' = {}
  BY <1>1, <1>2
<1>4. LostSilently'
  BY <1>1, <1>2 DEF LostSilently
<1>. QED BY <1>2, <1>3, <1>4, NewTopKeeps

LEMMA NotAttachedKeeps ==
    ASSUME TreeInv, CanMake(1), NEW kind, NotAttached(kind)
    PROVE  TreeInv'
<1>1. NewNode \notin roots /\ roots \cap lost = {}
  BY TreeParts, NewNodeIsUnused
<1>2. nodes' = WithNode(NewNode, Node(kind, NoName)) /\ roots' = roots /\ lost' = lost \cup {NewNode}
      /\ parsed' = parsed /\ silent'
  BY DEF NotAttached
<1>3. roots' \cup lost' = (roots \cup lost) \cup {NewNode} /\ roots' \cap lost' = {}
  BY <1>1, <1>2
<1>4. LostSilently'
  BY <1>2 DEF LostSilently
<1>. QED BY <1>2, <1>3, <1>4, NewTopKeeps

\* A node is attached to an object where no member has its name, or to an array.
MayAttach(parent, name) == nodes[parent].kind = "object" => name = NoName \/ ~HasName(parent, name)

LEMMA AttachedIsDistinct ==
    ASSUME NEW parent \in Live, NEW n, NEW node, NEW h, Distinct(nodes, parent), MayAttach(parent, node.name),
           n \notin nodes[parent].children,
           h[parent].kind = nodes[parent].kind, h[parent].children = nodes[parent].children \cup {n},
           h[n].name = node.name, \A c \in nodes[parent].children : h[c].name = nodes[c].name
    PROVE  Distinct(h, parent)
<1> SUFFICES ASSUME nodes[parent].kind = "object",
                    NEW c \in nodes[parent].children \cup {n}, NEW d \in nodes[parent].children \cup {n},
                    c # d, h[c].name # NoName, h[d].name # NoName
             PROVE  Fold[h[c].name] # Fold[h[d].name]
  BY DEF Distinct
<1>1. node.name # NoName => \A e \in nodes[parent].children :
            nodes[e].name # NoName => Fold[nodes[e].name] # Fold[node.name]
  BY DEF MayAttach, HasName
<1>2. CASE c = n
  BY <1>1, <1>2
<1>3. CASE d = n
  BY <1>1, <1>3
<1>4. CASE c # n /\ d # n
  BY <1>4 DEF Distinct
<1>. QED BY <1>2, <1>3, <1>4

LEMMA NewChildKeeps ==
    ASSUME TreeInv, CanMake(1), NEW parent \in Live, NEW kind, NEW name, NewChild(parent, kind, name),
           MayAttach(parent, name)
    PROVE  TreeInv'
<1> DEFINE new == NewNode
           node == Node(kind, name)
<1>1. /\ Forest(nodes, roots \cup lost) /\ NodesTyped /\ roots \cap lost = {} /\ LostSilently
      /\ \A m \in Live : nodes[m].children \subseteq Live
      /\ \A m \in Live \ parsed : Distinct(nodes, m)
  BY TreeParts
<1>2. new \notin Live /\ new \in 1..MaxNodes
  BY <1>1, NewNodeIsUnused
<1>3. IsNode(node) /\ node.children = {} /\ node.name = name
  BY DEF Node, IsNode
<1>4. nodes' = Attached(parent, new, node) /\ UNCHANGED <<roots, lost, silent, parsed>>
  BY DEF NewChild
<1> HIDE DEF new, node
<1>5. /\ NodesTyped' /\ Live' = Live \cup {new} /\ nodes'[new] = node
      /\ nodes'[parent].kind = nodes[parent].kind /\ nodes'[parent].name = nodes[parent].name
      /\ nodes'[parent].children = nodes[parent].children \cup {new}
      /\ \A m \in Live : m # new /\ m # parent => nodes'[m] = nodes[m]
  BY <1>1, <1>2, <1>3, <1>4, AttachedKeepsNodes
<1>6. Forest(nodes', roots \cup lost)
  <2>1. new \notin DOMAIN nodes /\ parent \in DOMAIN nodes /\ DOMAIN nodes' = DOMAIN nodes \cup {new}
    BY <1>2, <1>5 DEF Live
  <2>2. /\ nodes'[new].children = {} /\ nodes'[parent].children = nodes[parent].children \cup {new}
        /\ \A m \in DOMAIN nodes \ {parent} : nodes'[m].children = nodes[m].children
    BY <1>2, <1>3, <1>5 DEF Live
  <2>3. Forest(nodes, roots \cup lost)
    BY <1>1
  <2>. QED BY ONLY <2>1, <2>2, <2>3, NewNodeIsChild, ZenonT(40)
<1>7. \A c \in Live : nodes'[c].name = nodes[c].name
  BY <1>2, <1>5
<1>8. \A m \in Live' \ parsed' : Distinct(nodes', m)
  <2> SUFFICES ASSUME NEW m \in Live', m \notin parsed
               PROVE  Distinct(nodes', m)
    BY <1>4
  <2>1. CASE m = new
    BY <2>1, <1>3, <1>5 DEF Distinct
  <2>2. CASE m = parent
    <3>1. Distinct(nodes, parent) /\ new \notin nodes[parent].children /\ nodes[parent].children \subseteq Live
      BY <2>2, <1>1, <1>2
    <3>2. MayAttach(parent, node.name) /\ nodes'[new].name = node.name
      BY <1>3, <1>5
    <3>. QED BY <2>2, <3>1, <3>2, <1>5, <1>7, AttachedIsDistinct
  <2>3. CASE m # new /\ m # parent
    <3>1. m \in Live /\ Distinct(nodes, m) /\ nodes'[m] = nodes[m]
      BY <2>3, <1>1, <1>5
    <3>2. \A c \in nodes[m].children : nodes'[c].name = nodes[c].name
      BY <3>1, <1>1, <1>7
    <3>. QED BY <3>1, <3>2, DistinctKept
  <2>. QED BY <2>1, <2>2, <2>3
<1>9. LostSilently'
  BY <1>1, <1>4 DEF LostSilently
<1>. QED BY <1>1, <1>4, <1>5, <1>6, <1>8, <1>9, TreePartsNext

LEMMA MovedKeeps ==
    ASSUME TreeInv, NEW parent \in Live, NEW child \in roots, parent \notin Below(child), NEW name,
           Moved(parent, child, name), MayAttach(parent, name)
    PROVE  TreeInv'
<1>1. /\ Forest(nodes, roots \cup lost) /\ WellFormed(nodes) /\ NodesTyped /\ roots \subseteq Live
      /\ roots \cap lost = {} /\ LostSilently /\ \A m \in Live : nodes[m].children \subseteq Live
      /\ \A m \in Live \ parsed : Distinct(nodes, m)
  BY TreeParts
<1>2. child \in Live /\ parent \notin Reach(nodes, child) /\ child \in 1..MaxNodes
  BY <1>1, BelowIsReach DEF NodesTyped
<1>3. child # parent
  BY <1>1, <1>2, ReachesItself
<1> DEFINE node == [nodes[child] EXCEPT !.name = name]
<1>4. node = [kind |-> nodes[child].kind, name |-> name, children |-> nodes[child].children]
  BY <1>1, <1>2, WithName DEF NodesTyped
<1>5. IsNode(node) /\ node.name = name /\ node.children = nodes[child].children /\ node.kind = nodes[child].kind
  <2> HIDE DEF node
  <2>. QED BY <1>4 DEF IsNode
<1>6. nodes' = Attached(parent, child, node) /\ roots' = roots \ {child} /\ UNCHANGED <<lost, silent, parsed>>
  BY DEF Moved
<1> HIDE DEF node
<1>7. /\ NodesTyped' /\ Live' = Live \cup {child} /\ nodes'[child] = node
      /\ nodes'[parent].kind = nodes[parent].kind /\ nodes'[parent].name = nodes[parent].name
      /\ nodes'[parent].children = nodes[parent].children \cup {child}
      /\ \A m \in Live : m # child /\ m # parent => nodes'[m] = nodes[m]
  BY <1>1, <1>2, <1>3, <1>5, <1>6, AttachedKeepsNodes
<1>7a. Live' = Live
  BY <1>2, <1>7
<1>8. Forest(nodes', (roots \cup lost) \ {child})
  <2>1. \A m \in Live \ {parent} : nodes'[m].children = nodes[m].children
    BY <1>5, <1>7
  <2>. QED BY <1>1, <1>2, <1>7, <1>7a, <2>1, ForestMoved DEF Live
<1>9. \A m \in Live : child \notin nodes[m].children
  BY <1>1 DEF Forest, TopsAreFree, Live
<1>10. \A c \in Live : c # child => nodes'[c].name = nodes[c].name
  BY <1>7
<1>11. \A m \in Live' \ parsed' : Distinct(nodes', m)
  <2> SUFFICES ASSUME NEW m \in Live, m \notin parsed
               PROVE  Distinct(nodes', m)
    BY <1>6, <1>7a
  <2>1. Distinct(nodes, m) /\ nodes[m].children \subseteq Live /\ child \notin nodes[m].children
    BY <1>1, <1>9
  <2>2. \A c \in nodes[m].children : nodes'[c].name = nodes[c].name
    BY <2>1, <1>10
  <2>3. CASE m = parent
    <3>1. MayAttach(parent, node.name) /\ nodes'[child].name = node.name
      BY <1>5, <1>7
    <3>. QED BY <2>1, <2>2, <2>3, <3>1, <1>7, AttachedIsDistinct
  <2>4. CASE m # parent
    <3>1. nodes'[m].kind = nodes[m].kind /\ nodes'[m].children = nodes[m].children
      BY <2>4, <1>5, <1>7
    <3>. QED BY <2>1, <2>2, <3>1, DistinctKept
  <2>. QED BY <2>3, <2>4
<1>12. LostSilently' /\ roots' \cap lost' = {} /\ roots' \cup lost' = (roots \cup lost) \ {child}
  BY <1>1, <1>6 DEF LostSilently
<1>. QED BY <1>7, <1>8, <1>11, <1>12, TreePartsNext

LEMMA GivenUpKeeps ==
    ASSUME TreeInv, NEW child \in roots, roots' = roots \ {child}, lost' = lost \cup {child}, silent',
           UNCHANGED <<nodes, parsed>>
    PROVE  TreeInv'
<1>1. /\ Forest(nodes, roots \cup lost) /\ NodesTyped /\ roots \cap lost = {}
      /\ \A m \in Live \ parsed : Distinct(nodes, m)
  BY TreeParts
<1>2. roots' \cup lost' = roots \cup lost /\ roots' \cap lost' = {}
  BY <1>1
<1>3. NodesTyped' /\ Live' = Live
  BY <1>1 DEF NodesTyped, Live
<1>4. LostSilently'
  BY DEF LostSilently
<1>5. Forest(nodes', roots' \cup lost')
  BY <1>1, <1>2
<1>6. \A m \in Live' \ parsed' : Distinct(nodes', m)
  BY <1>1, <1>3
<1>. QED BY <1>2, <1>3, <1>4, <1>5, <1>6, TreePartsNext

LEMMA RemovalKeeps ==
    ASSUME TreeInv, NEW R, R \subseteq roots,
           nodes' = [m \in Live \ UNION {Below(n) : n \in R} |-> nodes[m]], roots' = roots \ R,
           Live' \cap parsed \subseteq parsed', UNCHANGED <<lost, silent>>
    PROVE  TreeInv'
<1> DEFINE U == UNION {Reach(nodes, n) : n \in R}
<1>1. /\ Forest(nodes, roots \cup lost) /\ NodesTyped /\ roots \cap lost = {} /\ LostSilently
      /\ \A m \in Live \ parsed : Distinct(nodes, m)
  BY TreeParts
<1>2. UNION {Below(n) : n \in R} = U
  BY BelowIsReach
<1>3. nodes' = [m \in Live \ U |-> nodes[m]]
  BY <1>2
<1>4. Live' = Live \ U /\ \A m \in Live' : nodes'[m] = nodes[m]
  <2> HIDE DEF U
  <2>. QED BY <1>3 DEF Live
<1>5. NodesTyped'
  <2>1. nodes' = [m \in Live' |-> nodes'[m]]
    <3> HIDE DEF U
    <3>. QED BY <1>3, <1>4
  <2>2. Live' \subseteq 1..MaxNodes /\ \A m \in Live' : IsNode(nodes'[m])
    BY <1>1, <1>4, NodesAreTyped
  <2>. QED BY <2>1, <2>2, NodesAreTypedNext
<1>6. Forest(nodes', (roots \cup lost) \ R)
  <2>1. R \subseteq roots \cup lost
    OBVIOUS
  <2>2. DOMAIN nodes' = DOMAIN nodes \ UNION {Reach(nodes, r) : r \in R}
    BY <1>4 DEF Live
  <2>3. Includes(nodes, nodes')
    BY <1>4 DEF Includes, Live
  <2>. QED BY <1>1, <2>1, <2>2, <2>3, ForestWithout
<1>7. roots' \cap lost' = {} /\ roots' \cup lost' = (roots \cup lost) \ R
  BY <1>1
<1>8. \A m \in Live' \ parsed' : Distinct(nodes', m)
  <2> SUFFICES ASSUME NEW m \in Live', m \notin parsed'
               PROVE  Distinct(nodes', m)
    OBVIOUS
  <2>1. m \in Live /\ Distinct(nodes, m) /\ nodes'[m] = nodes[m]
    BY <1>1, <1>4
  <2>2. nodes'[m].children \subseteq Live'
    BY <1>6 DEF Forest, WellFormed, Live
  <2>3. \A c \in nodes[m].children : nodes'[c] = nodes[c]
    BY <2>1, <2>2, <1>4
  <2>. QED BY <2>1, <2>3, DistinctKept
<1>9. LostSilently'
  BY <1>1 DEF LostSilently
<1>. QED BY <1>5, <1>6, <1>7, <1>8, <1>9, TreePartsNext

\* New nodes, a tree of their own beside those there are.
LEMMA NewTreeKeeps ==
    ASSUME TreeInv, NEW g, NEW top, Forest(g, {top}), DOMAIN g \subseteq 1..MaxNodes \ Live,
           \A m \in DOMAIN g : IsNode(g[m]),
           nodes' = [m \in Live \cup DOMAIN g |-> IF m \in Live THEN nodes[m] ELSE g[m]],
           roots' = roots \cup {top}, parsed \subseteq parsed', UNCHANGED <<lost, silent>>,
           \A m \in DOMAIN g \ parsed' : Distinct(g, m)
    PROVE  TreeInv'
<1>1. /\ Forest(nodes, roots \cup lost) /\ NodesTyped /\ roots \cap lost = {} /\ LostSilently
      /\ lost \subseteq Live /\ \A m \in Live : nodes[m].children \subseteq Live
      /\ \A m \in Live \ parsed : Distinct(nodes, m)
  BY TreeParts
<1>2. Live' = Live \cup DOMAIN g /\ nodes' = [m \in Live' |-> nodes'[m]]
  BY DEF Live
<1>3. (\A m \in Live : nodes'[m] = nodes[m]) /\ (\A m \in DOMAIN g : nodes'[m] = g[m])
  OBVIOUS
<1>4. NodesTyped'
  BY <1>1, <1>2, <1>3, NodesAreTyped, NodesAreTypedNext
<1>5. Forest(nodes', (roots \cup lost) \cup {top})
  <2>1. Includes(nodes', nodes) /\ Includes(nodes', g)
    BY <1>2, <1>3 DEF Includes, Live
  <2>2. DOMAIN nodes \cap DOMAIN g = {} /\ DOMAIN nodes' = DOMAIN nodes \cup DOMAIN g
    BY <1>2 DEF Live
  <2>. QED BY <1>1, <2>1, <2>2, ForestUnion
<1>6. top \in DOMAIN g /\ WellFormed(g)
  BY DEF Forest, TopsAreFree
<1>7. roots' \cap lost' = {} /\ roots' \cup lost' = (roots \cup lost) \cup {top}
  BY <1>1, <1>6
<1>8. \A m \in Live' \ parsed' : Distinct(nodes', m)
  <2> SUFFICES ASSUME NEW m \in Live', m \notin parsed'
               PROVE  Distinct(nodes', m)
    OBVIOUS
  <2>1. CASE m \in Live
    <3>1. m \in Live /\ Distinct(nodes, m) /\ nodes'[m] = nodes[m]
      BY <2>1, <1>1, <1>3
    <3>2. \A c \in nodes[m].children : nodes'[c] = nodes[c]
      BY <3>1, <1>1, <1>3
    <3>. QED BY <3>1, <3>2, DistinctKept
  <2>2. CASE m \in DOMAIN g
    <3>1. Distinct(g, m) /\ nodes'[m] = g[m]
      BY <2>2, <1>3
    <3>2. \A c \in g[m].children : nodes'[c] = g[c]
      BY <2>2, <1>3, <1>6 DEF WellFormed
    <3>. QED BY <3>1, <3>2, DistinctKept
  <2>. QED BY <2>1, <2>2, <1>2
<1>9. LostSilently'
  BY <1>1 DEF LostSilently
<1>. QED BY <1>4, <1>5, <1>7, <1>8, <1>9, TreePartsNext

LEMMA ParseKeeps ==
    ASSUME TreeInv, CanMake(3), NEW first, NEW second, NEW ids, ids = Fresh(3), NEW top, top = Min(ids),
           nodes' = [m \in Live \cup ids |->
                        IF m \in Live THEN nodes[m]
                        ELSE IF m = top THEN [Node("object", NoName) EXCEPT !.children = ids \ {top}]
                        ELSE Node("string", IF m = Max(ids) THEN first ELSE second)],
           roots' = roots \cup {top}, parsed' = parsed \cup ids, UNCHANGED <<lost, silent>>
    PROVE  TreeInv'
<1>1. NodesTyped
  BY TreeParts
<1>2. ids # {} /\ ids \subseteq 1..MaxNodes \ Live /\ IsFiniteSet(ids)
  <2>1. ids # {} /\ ids \subseteq Unused /\ IsFiniteSet(Unused)
    BY <1>1, FreshIsThere, UnusedAreFinite
  <2>. QED BY <2>1, FS_Subset DEF Unused
<1>3. top \in ids
  BY <1>2, MinIsIn
<1> DEFINE root == [Node("object", NoName) EXCEPT !.children = ids \ {top}]
           member(m) == Node("string", IF m = Max(ids) THEN first ELSE second)
           g == [m \in ids |-> IF m = top THEN root ELSE member(m)]
<1>4. IsNode(root) /\ root.children = ids \ {top} /\ \A m : IsNode(member(m)) /\ member(m).children = {}
  BY DEF IsNode, Node
<1>5. nodes' = [m \in Live \cup ids |-> IF m \in Live THEN nodes[m] ELSE g[m]]
  OBVIOUS
<1> HIDE DEF root, member
<1>6. DOMAIN g = ids /\ g[top] = root /\ \A m \in ids \ {top} : g[m] = member(m)
  BY <1>3
<1> HIDE DEF g
<1>7. Forest(g, {top})
  <2>1. \A m \in ids \ {top} : g[m].children = {}
    BY <1>4, <1>6
  <2>2. g[top].children = ids \ {top}
    BY <1>4, <1>6
  <2>3. WellFormed(g)
    BY <1>2, <1>3, <1>6, <2>1, <2>2 DEF WellFormed
  <2>4. TopsAreFree(g, {top}) /\ ParentsAreUnique(g)
    BY <1>3, <1>6, <2>1, <2>2 DEF TopsAreFree, ParentsAreUnique
  <2>5. top \in Reach(g, top) /\ g[top].children \subseteq Reach(g, top)
    BY <1>3, <1>6, <2>3, ReachesItself, ReachIsClosed
  <2>6. AllReached(g, {top})
    BY <1>6, <2>2, <2>5 DEF AllReached
  <2>. QED BY <2>3, <2>4, <2>6 DEF Forest
<1>8. \A m \in DOMAIN g : IsNode(g[m])
  BY <1>4, <1>6
<1>9. \A m \in DOMAIN g \ parsed' : Distinct(g, m)
  BY <1>6
<1>10. nodes' = [m \in Live \cup DOMAIN g |-> IF m \in Live THEN nodes[m] ELSE g[m]]
  BY <1>5, <1>6
<1>11. DOMAIN g \subseteq 1..MaxNodes \ Live /\ parsed \subseteq parsed'
  BY <1>2, <1>6
<1>. QED BY <1>7, <1>8, <1>9, <1>10, <1>11, NewTreeKeeps

\* The numbers of the copies are all there are for them.
LEMMA CopiesAreFresh ==
    ASSUME TreeInv, NEW n \in Live, NEW copy \in [Below(n) -> Fresh(Cardinality(Below(n)))],
           \A i, j \in Below(n) : i < j => copy[i] < copy[j]
    PROVE  /\ \A i, j \in Below(n) : copy[i] = copy[j] => i = j
           /\ Fresh(Cardinality(Below(n))) = {copy[i] : i \in Below(n)}
<1> DEFINE D == Below(n)
           k == Cardinality(D)
           F == Fresh(k)
<1>1. NodesTyped /\ WellFormed(nodes)
  BY TreeParts
<1>2. D \subseteq Live /\ IsFiniteSet(D) /\ k \in Nat
  <2>1. D \subseteq Live
    BY <1>1, BelowIsReach, ReachesNodes DEF Live
  <2>. QED BY <1>1, <2>1, UnusedAreFinite, FS_Subset, FS_CardinalityType
<1>3. IsFiniteSet(F) /\ Cardinality(F) <= k /\ F \subseteq 1..MaxNodes /\ Cardinality(F) \in Nat
  BY <1>1, <1>2, FreshIsBounded, UnusedAreFinite, FS_CardinalityType
<1>3a. copy \in [D -> F] /\ \A i, j \in D : i < j => copy[i] < copy[j]
  OBVIOUS
<1> HIDE DEF D, F
<1>4. MaxNodes \in Nat
  BY JsonTreeAssumption
<1>5. \A i, j \in D : copy[i] = copy[j] => i = j
  <2> SUFFICES ASSUME NEW i \in D, NEW j \in D, copy[i] = copy[j], i # j
               PROVE  FALSE
    OBVIOUS
  <2>1. i \in 1..MaxNodes /\ j \in 1..MaxNodes /\ copy[i] \in 1..MaxNodes /\ copy[j] \in 1..MaxNodes
    BY <1>1, <1>2, <1>3, <1>3a DEF NodesTyped
  <2>2. i < j \/ j < i
    BY <1>4, <2>1
  <2>3. copy[i] < copy[j] \/ copy[j] < copy[i]
    BY <1>3a, <2>2
  <2>. QED BY <1>4, <2>1, <2>3
<1>6. copy \in Injection(D, F)
  BY <1>3a, <1>5 DEF Injection, IsInjective
<1>7. k <= Cardinality(F) /\ (k = Cardinality(F) => copy \in Surjection(D, F))
  BY <1>3, <1>6, FS_Injection
<1>8. k = Cardinality(F)
  BY <1>2, <1>3, <1>7
<1>9. F = {copy[i] : i \in D}
  BY <1>3a, <1>7, <1>8 DEF Surjection
<1>. QED BY <1>5, <1>9 DEF D, F

LEMMA CopyKeeps ==
    ASSUME TreeInv, NEW n \in Live, NEW k, k = Cardinality(Below(n)), NEW copy \in [Below(n) -> Fresh(k)],
           \A i, j \in Below(n) : i < j => copy[i] < copy[j],
           nodes' = [m \in Live \cup Fresh(k) |->
                        IF m \in Live THEN nodes[m]
                        ELSE LET i == CHOOSE i \in Below(n) : copy[i] = m
                             IN [nodes[i] EXCEPT !.children = {copy[c] : c \in nodes[i].children}]],
           roots' = roots \cup {copy[n]},
           parsed' = parsed \cup {copy[i] : i \in Below(n) \cap parsed}, UNCHANGED <<lost, silent>>
    PROVE  TreeInv'
<1> DEFINE D == Below(n)
           F == Fresh(k)
           first(m) == CHOOSE i \in D : copy[i] = m
           copied(i) == [nodes[i] EXCEPT !.children = {copy[c] : c \in nodes[i].children}]
           g == [m \in F |-> copied(first(m))]
<1>1. /\ Forest(nodes, roots \cup lost) /\ WellFormed(nodes) /\ NodesTyped
      /\ \A m \in Live \ parsed : Distinct(nodes, m)
  BY TreeParts
<1>2. (\A i, j \in D : copy[i] = copy[j] => i = j) /\ F = {copy[i] : i \in D}
  BY CopiesAreFresh
<1>3. D \subseteq Live /\ D = Reach(nodes, n) /\ \A i \in D : nodes[i].children \subseteq D
  <2>1. D = Reach(nodes, n) /\ n \in DOMAIN nodes
    BY BelowIsReach DEF Live
  <2>. QED BY <1>1, <2>1, ReachesNodes, ReachIsClosed DEF Live
<1>4. F \subseteq 1..MaxNodes \ Live
  BY <1>1, UnusedAreFinite DEF Unused
<1>5. nodes' = [m \in Live \cup F |-> IF m \in Live THEN nodes[m] ELSE copied(first(m))]
  OBVIOUS
<1>6. parsed' = parsed \cup {copy[i] : i \in D \cap parsed}
  OBVIOUS
<1> HIDE DEF D, F
<1>7. \A i \in D : copied(i) = [kind |-> nodes[i].kind, name |-> nodes[i].name,
                                children |-> {copy[c] : c \in nodes[i].children}]
  <2> SUFFICES ASSUME NEW i \in D
               PROVE  copied(i) = [kind |-> nodes[i].kind, name |-> nodes[i].name,
                                   children |-> {copy[c] : c \in nodes[i].children}]
    OBVIOUS
  <2>1. nodes[i] = [kind |-> nodes[i].kind, name |-> nodes[i].name, children |-> nodes[i].children]
    BY <1>1, <1>3 DEF NodesTyped
  <2>. QED BY <2>1, WithChildren
<1>8. \A i \in D : IsNode(copied(i)) /\ copied(i).kind = nodes[i].kind /\ copied(i).name = nodes[i].name
                   /\ copied(i).children = {copy[c] : c \in nodes[i].children}
  <2> HIDE DEF copied
  <2>. QED BY <1>7 DEF IsNode
<1> HIDE DEF copied
<1>9. \A i \in D : first(copy[i]) = i
  BY <1>2
<1> HIDE DEF first
<1>10. DOMAIN g = F /\ \A i \in D : g[copy[i]] = copied(i)
  BY <1>2, <1>9
<1>11. nodes' = [m \in Live \cup DOMAIN g |-> IF m \in Live THEN nodes[m] ELSE g[m]]
  BY <1>5
<1> HIDE DEF g
<1>12. Forest(g, {copy[n]})
  <2>1. \A i, j \in Reach(nodes, n) : copy[i] = copy[j] => i = j
    BY <1>2, <1>3
  <2>2. DOMAIN g = {copy[i] : i \in Reach(nodes, n)}
    BY <1>2, <1>3, <1>10
  <2>3. \A i \in Reach(nodes, n) : g[copy[i]].children = {copy[c] : c \in nodes[i].children}
    BY <1>3, <1>8, <1>10
  <2>4. n \in DOMAIN nodes /\ Forest(nodes, roots \cup lost)
    BY <1>1 DEF Live
  <2>. QED BY ONLY <2>1, <2>2, <2>3, <2>4, ForestCopied
<1>13. \A m \in DOMAIN g : IsNode(g[m])
  BY <1>2, <1>8, <1>10
<1>14. \A m \in DOMAIN g \ parsed' : Distinct(g, m)
  <2> SUFFICES ASSUME NEW i \in D, copy[i] \notin parsed'
               PROVE  Distinct(g, copy[i])
    BY <1>2, <1>10
  <2>1. i \notin parsed /\ Distinct(nodes, i)
    BY <1>1, <1>3, <1>6
  <2>2. g[copy[i]].kind = nodes[i].kind /\ g[copy[i]].children = {copy[c] : c \in nodes[i].children}
    BY <1>8, <1>10
  <2>3. \A c \in nodes[i].children : c \in D /\ g[copy[c]].name = nodes[c].name
    BY <1>3, <1>8, <1>10
  <2> SUFFICES ASSUME nodes[i].kind = "object", NEW c \in nodes[i].children, NEW d \in nodes[i].children,
                      copy[c] # copy[d], g[copy[c]].name # NoName, g[copy[d]].name # NoName
               PROVE  Fold[g[copy[c]].name] # Fold[g[copy[d]].name]
    BY <2>2 DEF Distinct
  <2>4. c # d /\ nodes[c].name # NoName /\ nodes[d].name # NoName
    BY <2>3
  <2>5. Fold[nodes[c].name] # Fold[nodes[d].name]
    BY <2>1, <2>4 DEF Distinct
  <2>. QED BY <2>3, <2>5
<1>15. DOMAIN g \subseteq 1..MaxNodes \ Live /\ parsed \subseteq parsed'
  BY <1>4, <1>6, <1>10
<1>. QED BY <1>11, <1>12, <1>13, <1>14, <1>15, NewTreeKeeps

\* A call says no and does nothing.
Refused == answer' # "OK" /\ UNCHANGED <<nodes, roots, lost, silent, parsed>>

\* What becomes of a start or an addition.
LEMMA StartInEnds ==
    ASSUME NEW parent, NEW kind, NEW name, StartIn(parent, kind, name)
    PROVE  \/ Refused
           \/ CanMake(1) /\ NewChild(parent, kind, name) /\ MayAttach(parent, name)
           \/ CanMake(1) /\ NotAttached(kind)
BY DEF StartIn, Fails, Refused, MayAttach

LEMMA AddToEnds ==
    ASSUME NEW parent, NEW kind, NEW name, AddTo(parent, kind, name)
    PROVE  \/ Refused
           \/ NotAdded
           \/ CanMake(1) /\ NewChild(parent, kind, name) /\ MayAttach(parent, name)
BY DEF AddTo, Fails, Refused, MayAttach

LEMMA NotAddedKeeps ==
    ASSUME TreeInv, NotAdded
    PROVE  TreeInv'
BY DEF NotAdded, TreeInv, NodesTyped, Trees, LostSilently, NamesDistinct, Live

LEMMA StartInKeeps ==
    ASSUME TreeInv, NEW parent \in Live, NEW kind, NEW name, StartIn(parent, kind, name)
    PROVE  TreeInv'
<1>1. CASE Refused
  BY <1>1, UnchangedTree DEF Refused
<1>2. CASE CanMake(1) /\ NewChild(parent, kind, name) /\ MayAttach(parent, name)
  BY <1>2, NewChildKeeps
<1>3. CASE CanMake(1) /\ NotAttached(kind)
  BY <1>3, NotAttachedKeeps
<1>. QED BY <1>1, <1>2, <1>3, StartInEnds

LEMMA AddToKeeps ==
    ASSUME TreeInv, NEW parent \in Live, NEW kind, NEW name, AddTo(parent, kind, name)
    PROVE  TreeInv'
<1>1. CASE Refused
  BY <1>1, UnchangedTree DEF Refused
<1>2. CASE CanMake(1) /\ NewChild(parent, kind, name) /\ MayAttach(parent, name)
  BY <1>2, NewChildKeeps
<1>3. CASE NotAdded
  BY <1>3, NotAddedKeeps
<1>. QED BY <1>1, <1>2, <1>3, AddToEnds

LEMMA InitializeKeeps ==
    ASSUME TreeInv, NEW kind, Initialize(kind)
    PROVE  TreeInv'
<1>1. CASE Fails("OUT_OF_MEMORY")
  BY <1>1, UnchangedTree DEF Fails
<1>2. CASE CanMake(1) /\ NewRoot(kind)
  BY <1>2, NewRootKeeps
<1>. QED BY <1>1, <1>2 DEF Initialize

LEMMA AddObjectKeeps ==
    ASSUME TreeInv, NEW parent \in Live, NEW name, NEW child, AddObject(parent, name, child)
    PROVE  TreeInv'
<1>1. child \in roots /\ parent \notin Below(child)
  BY DEF AddObject
<1>2. CASE HasName(parent, name)
  BY <1>2, UnchangedTree DEF AddObject, Fails
<1>3. CASE ~HasName(parent, name) /\ Moved(parent, child, name)
  BY <1>1, <1>3, MovedKeeps DEF MayAttach
<1>4. CASE /\ ~HasName(parent, name)
           /\ roots' = roots \ {child} /\ lost' = lost \cup {child} /\ silent' = TRUE
           /\ answer' = "OK" /\ UNCHANGED <<nodes, parsed>>
  BY <1>1, <1>4, GivenUpKeeps
<1>. QED BY <1>2, <1>3, <1>4 DEF AddObject

LEMMA AddItemToArrayKeeps ==
    ASSUME TreeInv, NEW holder \in Live, NEW child, AddItemToArray(holder, child)
    PROVE  TreeInv'
<1>1. child \in roots /\ holder \notin Below(child) /\ nodes[holder].kind = "array"
      /\ Moved(holder, child, nodes[child].name)
  BY DEF AddItemToArray
<1>2. \A name : MayAttach(holder, name)
  BY <1>1 DEF MayAttach
<1>. QED BY <1>1, <1>2, MovedKeeps

LEMMA DuplicateKeeps ==
    ASSUME TreeInv, NEW n \in Live, Duplicate(n)
    PROVE  TreeInv'
<1>1. CASE Fails("OUT_OF_MEMORY")
  BY <1>1, UnchangedTree DEF Fails
<1>2. CASE ~Fails("OUT_OF_MEMORY")
  <2> DEFINE k == Cardinality(Below(n))
             Copied(copy) ==
                /\ \A i, j \in Below(n) : i < j => copy[i] < copy[j]
                /\ nodes' = [m \in Live \cup Fresh(k) |->
                                IF m \in Live THEN nodes[m]
                                ELSE LET i == CHOOSE i \in Below(n) : copy[i] = m
                                     IN [nodes[i] EXCEPT !.children = {copy[c] : c \in nodes[i].children}]]
                /\ roots' = roots \cup {copy[n]}
                /\ parsed' = parsed \cup {copy[i] : i \in Below(n) \cap parsed}
                /\ answer' = "OK" /\ UNCHANGED <<lost, silent>>
  <2>1. \E copy \in [Below(n) -> Fresh(k)] : Copied(copy)
    BY <1>2 DEF Duplicate
  <2>2. PICK copy \in [Below(n) -> Fresh(k)] : Copied(copy)
    BY <2>1
  <2>. QED BY <2>2, CopyKeeps
<1>. QED BY <1>1, <1>2

LEMMA ParseStepKeeps ==
    ASSUME TreeInv, Parse
    PROVE  TreeInv'
<1>1. CASE Fails("FAIL")
  BY <1>1, UnchangedTree DEF Fails
<1>2. CASE ~Fails("FAIL")
  <2>1. CanMake(3) /\ UNCHANGED <<lost, silent>>
    BY <1>2 DEF Parse
  <2>2. PICK first, second \in Names :
             LET ids == Fresh(3)
                 top == Min(ids)
             IN /\ nodes' = [m \in Live \cup ids |->
                                IF m \in Live THEN nodes[m]
                                ELSE IF m = top THEN [Node("object", NoName) EXCEPT !.children = ids \ {top}]
                                ELSE Node("string", IF m = Max(ids) THEN first ELSE second)]
                /\ roots' = roots \cup {top} /\ parsed' = parsed \cup ids
    BY <1>2 DEF Parse
  <2> DEFINE ids == Fresh(3)
             top == Min(ids)
  <2>3. /\ nodes' = [m \in Live \cup ids |->
                        IF m \in Live THEN nodes[m]
                        ELSE IF m = top THEN [Node("object", NoName) EXCEPT !.children = ids \ {top}]
                        ELSE Node("string", IF m = Max(ids) THEN first ELSE second)]
        /\ roots' = roots \cup {top} /\ parsed' = parsed \cup ids
    BY <2>2
  <2>. QED BY <2>1, <2>3, ParseKeeps
<1>. QED BY <1>1, <1>2

LEMMA DestroyKeeps ==
    ASSUME TreeInv, NEW n, Destroy(n)
    PROVE  TreeInv'
<1>1. {n} \subseteq roots /\ roots' = roots \ {n} /\ UNCHANGED <<lost, silent>>
  BY DEF Destroy
<1>2. Below(n) = UNION {Below(m) : m \in {n}}
  OBVIOUS
<1>3. nodes' = [m \in Live \ UNION {Below(k) : k \in {n}} |-> nodes[m]]
  BY <1>2 DEF Destroy, Released
<1>4. Live' = Live \ Below(n)
  <2>1. nodes' = [m \in Live \ Below(n) |-> nodes[m]]
    BY DEF Destroy, Released
  <2>. QED BY <2>1 DEF Live
<1>5. Live' \cap parsed \subseteq parsed'
  BY <1>4 DEF Destroy, Released
<1>. QED BY <1>1, <1>3, <1>5, RemovalKeeps

LEMMA TreeStepKeeps ==
    ASSUME TreeInv, TreeStep
    PROVE  TreeInv'
<1>1. Holders \subseteq Live
  BY DEF Holders
<1>2. ASSUME NEW kind \in Containers, Initialize(kind)
      PROVE  TreeInv'
  BY <1>2, InitializeKeeps
<1>3. CASE Parse
  BY <1>3, ParseStepKeeps
<1>4. ASSUME NEW n \in Live, NEW name, NEW kind, Start(n, kind, name)
      PROVE  TreeInv'
  BY <1>4, StartInKeeps DEF Start
<1>5. ASSUME NEW n \in Live, NEW name, NEW kind, Add(n, kind, name)
      PROVE  TreeInv'
  BY <1>5, AddToKeeps DEF Add
<1>6. ASSUME NEW n \in Live, NEW name, NEW child, AddObject(n, name, child)
      PROVE  TreeInv'
  BY <1>6, AddObjectKeeps
<1>7. ASSUME NEW n \in Live, NEW name, GetObjectItem(n, name)
      PROVE  TreeInv'
  BY <1>7, UnchangedTree DEF GetObjectItem, Answers
<1>8. ASSUME NEW n \in Live, GetArrayItem(n) \/ GetString(n) \/ TreeToString(n)
      PROVE  TreeInv'
  BY <1>8, UnchangedTree DEF GetArrayItem, GetString, TreeToString, Answers
<1>9. ASSUME NEW n \in Live, NEW child, AddItemToArray(n, child)
      PROVE  TreeInv'
  BY <1>9, AddItemToArrayKeeps
<1>10. ASSUME NEW n \in Live, Duplicate(n)
       PROVE  TreeInv'
  BY <1>10, DuplicateKeeps
<1>11. ASSUME NEW n, Destroy(n)
       PROVE  TreeInv'
  BY <1>11, DestroyKeeps
<1>. QED BY ONLY TreeStep, <1>1, <1>2, <1>3, <1>4, <1>5, <1>6, <1>7, <1>8, <1>9, <1>10, <1>11
            DEF TreeStep

-----------------------------------------------------------------------------
(* The claims of a token.                                                  *)

Grew(node, name, hush) ==
    /\ \A n, due : n # node /\ HoldsClaims(nodes, silent, n, due) => HoldsClaims(nodes', hush, n, due)
    /\ \A due : HoldsClaims(nodes, silent, node, due) => HoldsClaims(nodes', hush, node, due \cup {name})

LEMMA HoldsKept ==
    ASSUME NEW f, NEW h, NEW hush, NEW more, NEW n, NEW due, HoldsClaims(f, hush, n, due), hush => more,
           n \in DOMAIN h, h[n].children = f[n].children, \A c \in f[n].children : h[c].name = f[c].name
    PROVE  HoldsClaims(h, more, n, due)
BY DEF HoldsClaims, ClaimsOf

\* A new node without a parent.
LEMMA NewTopKeepsClaims ==
    ASSUME TreeInv, CanMake(1), NEW kind, nodes' = WithNode(NewNode, Node(kind, NoName)), silent => silent'
    PROVE  /\ \A n, due : HoldsClaims(nodes, silent, n, due) => HoldsClaims(nodes', silent', n, due)
           /\ HoldsClaims(nodes', silent', NewNode, {}) /\ nodes'[NewNode].kind = kind
           /\ NewNode \in Live' /\ NewNode \notin Live /\ NewNode # 0
<1> DEFINE new == NewNode
           node == Node(kind, NoName)
<1>1. NodesTyped /\ \A m \in Live : nodes[m].children \subseteq Live
  BY TreeParts
<1>2. new \notin Live /\ new \in 1..MaxNodes /\ Live' = Live \cup {new} /\ nodes'[new] = node
      /\ \A m \in Live : m # new /\ nodes'[m] = nodes[m]
  BY <1>1, NewNodeKeepsNodes
<1>3. node.children = {} /\ node.kind = kind
  BY DEF Node
<1>4. new # 0
  BY <1>2, JsonTreeAssumption
<1> HIDE DEF new, node
<1>5. ASSUME NEW n, NEW due, HoldsClaims(nodes, silent, n, due)
      PROVE  HoldsClaims(nodes', silent', n, due)
  <2>1. n \in Live
    BY <1>5 DEF HoldsClaims, Live
  <2>2. n \in DOMAIN nodes' /\ nodes'[n].children = nodes[n].children
    BY <2>1, <1>2 DEF Live
  <2>3. \A c \in nodes[n].children : nodes'[c].name = nodes[c].name
    BY <2>1, <1>1, <1>2
  <2>. QED BY <1>5, <2>2, <2>3, HoldsKept
<1>6. HoldsClaims(nodes', silent', new, {})
  <2>1. ClaimsOf(nodes', new) = {}
    BY <1>2, <1>3 DEF ClaimsOf
  <2>. QED BY <2>1, <1>2 DEF HoldsClaims, Live
<1>. QED BY <1>2, <1>3, <1>4, <1>5, <1>6 DEF new

LEMMA NewChildGrows ==
    ASSUME TreeInv, CanMake(1), NEW parent \in Live, NEW kind, NEW name, NewChild(parent, kind, name)
    PROVE  /\ Grew(parent, name, silent') /\ NewNode \in Live' /\ NewNode \notin Live
           /\ nodes'[parent].kind = nodes[parent].kind
<1> DEFINE new == NewNode
           node == Node(kind, name)
<1>1. NodesTyped /\ \A m \in Live : nodes[m].children \subseteq Live
  BY TreeParts
<1>2. new \notin Live /\ new \in 1..MaxNodes
  BY <1>1, NewNodeIsUnused
<1>3. IsNode(node) /\ node.name = name
  BY DEF Node, IsNode
<1>4. nodes' = Attached(parent, new, node) /\ silent' = silent
  BY DEF NewChild
<1> HIDE DEF new, node
<1>5. /\ Live' = Live \cup {new} /\ nodes'[new] = node
      /\ nodes'[parent].kind = nodes[parent].kind /\ nodes'[parent].name = nodes[parent].name
      /\ nodes'[parent].children = nodes[parent].children \cup {new}
      /\ \A m \in Live : m # new /\ m # parent => nodes'[m] = nodes[m]
  BY <1>1, <1>2, <1>3, <1>4, AttachedKeepsNodes
<1>6. \A c \in Live : nodes'[c].name = nodes[c].name
  BY <1>2, <1>5
<1>7. ASSUME NEW n, NEW due, n # parent, HoldsClaims(nodes, silent, n, due)
      PROVE  HoldsClaims(nodes', silent', n, due)
  <2>1. n \in Live
    BY <1>7 DEF HoldsClaims, Live
  <2>2. n \in DOMAIN nodes' /\ nodes'[n].children = nodes[n].children
    BY <2>1, <1>2, <1>5, <1>7 DEF Live
  <2>3. \A c \in nodes[n].children : nodes'[c].name = nodes[c].name
    BY <2>1, <1>1, <1>6
  <2>. QED BY <1>4, <1>7, <2>2, <2>3, HoldsKept
<1>8. ASSUME NEW due, HoldsClaims(nodes, silent, parent, due)
      PROVE  HoldsClaims(nodes', silent', parent, due \cup {name})
  <2>1. ClaimsOf(nodes', parent) = ClaimsOf(nodes, parent) \cup {name}
    <3>1. \A c \in nodes[parent].children : nodes'[c].name = nodes[c].name
      BY <1>1, <1>6
    <3>2. nodes'[new].name = name
      BY <1>3, <1>5
    <3>. QED BY <3>1, <3>2, <1>5 DEF ClaimsOf
  <2>2. parent \in DOMAIN nodes'
    BY <1>5 DEF Live
  <2>. QED BY <1>4, <1>8, <2>1, <2>2 DEF HoldsClaims
<1>. QED BY <1>2, <1>5, <1>7, <1>8 DEF Grew, new

LEMMA NotAddedGrows ==
    ASSUME NEW parent, NEW name, NotAdded
    PROVE  Grew(parent, name, silent')
BY DEF NotAdded, Grew, HoldsClaims

LEMMA AddToGrows ==
    ASSUME TreeInv, NEW parent \in Live, NEW kind, NEW name, AddTo(parent, kind, name), answer' = "OK"
    PROVE  /\ Grew(parent, name, silent') /\ roots' = roots /\ Live \subseteq Live'
           /\ nodes'[parent].kind = nodes[parent].kind
<1>1. CASE NotAdded
  BY <1>1, NotAddedGrows DEF NotAdded, Live
<1>2. CASE CanMake(1) /\ NewChild(parent, kind, name)
  <2>1. Live \subseteq Live'
    <3>1. nodes' = Attached(parent, NewNode, Node(kind, name))
      BY <1>2 DEF NewChild
    <3>. QED BY <3>1 DEF Attached, Live
  <2>. QED BY <1>2, <2>1, NewChildGrows DEF NewChild
<1>. QED BY <1>1, <1>2, AddToEnds DEF Refused

LEMMA StartInGrows ==
    ASSUME TreeInv, NEW parent \in Live, NEW kind, NEW name, StartIn(parent, kind, name), answer' = "OK"
    PROVE  Grew(parent, name, silent') /\ roots' = roots /\ NewNode \in Live' /\ NewNode \notin Live
<1>1. CASE CanMake(1) /\ NotAttached(kind)
  <2>1. nodes' = WithNode(NewNode, Node(kind, NoName)) /\ silent' /\ roots' = roots
    BY <1>1 DEF NotAttached
  <2>2. /\ \A n, due : HoldsClaims(nodes, silent, n, due) => HoldsClaims(nodes', silent', n, due)
        /\ NewNode \in Live' /\ NewNode \notin Live
    BY <1>1, <2>1, NewTopKeepsClaims
  <2>3. \A due : HoldsClaims(nodes', silent', parent, due) => HoldsClaims(nodes', silent', parent, due \cup {name})
    BY <2>1 DEF HoldsClaims
  <2>. QED BY <2>1, <2>2, <2>3 DEF Grew
<1>2. CASE CanMake(1) /\ NewChild(parent, kind, name)
  BY <1>2, NewChildGrows DEF NewChild
<1>. QED BY <1>1, <1>2, StartInEnds DEF Refused

LEMMA InitializeKeepsClaims ==
    ASSUME TreeInv, NEW kind, Initialize(kind), answer' = "OK"
    PROVE  /\ \A n, due : HoldsClaims(nodes, silent, n, due) => HoldsClaims(nodes', silent', n, due)
           /\ HoldsClaims(nodes', silent', NewNode, {}) /\ nodes'[NewNode].kind = kind
           /\ NewNode \notin Live /\ NewNode # 0 /\ roots' = roots \cup {NewNode}
<1>1. CanMake(1) /\ NewRoot(kind)
  BY DEF Initialize, Fails
<1>2. nodes' = WithNode(NewNode, Node(kind, NoName)) /\ silent' = silent /\ roots' = roots \cup {NewNode}
  BY <1>1 DEF NewRoot
<1>. QED BY <1>1, <1>2, NewTopKeepsClaims

-----------------------------------------------------------------------------
(* The steps of a token keep the nodes and the claims in them.             *)

LEMMA TextStepsAre ==
    /\ DOMAIN TokenSteps = {"header json", "payload json", "encode header", "encode payload", "join", "sign",
                            "encode", "finish"}
    /\ TextSteps = DOMAIN TokenSteps
BY DEF TokenSteps, TextSteps

LEMMA HeaderOrder ==
    \A s \in HeaderClaimSet :
        Following[s] \in {"alg", "identifier"} /\ HeaderDueAt(Following[s]) = HeaderDueAt(s) \cup {s}
<1>1. Following["typ"] = "alg" /\ Following["alg"] = "identifier"
  BY DEF Following
<1>2. HeaderDueAt("typ") = {} /\ HeaderDueAt("alg") = {"typ"} /\ HeaderDueAt("identifier") = {"typ", "alg"}
  BY DEF HeaderDueAt, HeaderDue, HeaderClaimSet
<1>. QED BY <1>1, <1>2 DEF HeaderClaimSet

LEMMA PayloadFollows ==
    /\ Following["iss"] = "sub" /\ Following["sub"] = "aud" /\ Following["aud"] = "iat"
    /\ Following["iat"] = "nbf" /\ Following["nbf"] = "exp" /\ Following["exp"] = "schemas"
    /\ Following["schemas"] = "urn" /\ Following["urn"] = "ten" /\ Following["ten"] = "jti"
    /\ Following["jti"] = "header json"
BY DEF Following

LEMMA PayloadOrder ==
    \A s \in PayloadClaimSet :
        /\ Following[s] \in PayloadSteps \cup {"header json"}
        /\ Following[s] = "urn" => s = "schemas"
        /\ Following[s] = "header json" <=> s = "jti"
        /\ PayloadDueAt(Following[s]) = PayloadDueAt(s) \cup {s}
<1>1. /\ PayloadDueAt("iss") = {} /\ PayloadDueAt("sub") = {"iss"} /\ PayloadDueAt("aud") = {"iss", "sub"}
      /\ PayloadDueAt("iat") = {"iss", "sub", "aud"}
      /\ PayloadDueAt("nbf") = {"iss", "sub", "aud", "iat"}
      /\ PayloadDueAt("exp") = {"iss", "sub", "aud", "iat", "nbf"}
      /\ PayloadDueAt("schemas") = {"iss", "sub", "aud", "iat", "nbf", "exp"}
      /\ PayloadDueAt("urn") = {"iss", "sub", "aud", "iat", "nbf", "exp", "schemas"}
      /\ PayloadDueAt("ten") = {"iss", "sub", "aud", "iat", "nbf", "exp", "schemas"}
      /\ PayloadDueAt("jti") = {"iss", "sub", "aud", "iat", "nbf", "exp", "schemas", "ten"}
  BY DEF PayloadDueAt, PayloadDue, PayloadSteps, PayloadClaimSet
<1>2. PayloadDueAt("header json") = {"iss", "sub", "aud", "iat", "nbf", "exp", "schemas", "ten", "jti"}
  BY DEF PayloadDueAt, PayloadSteps, PayloadClaimSet
<1> SUFFICES ASSUME NEW s \in PayloadClaimSet
             PROVE  /\ Following[s] \in PayloadSteps \cup {"header json"}
                    /\ Following[s] = "urn" => s = "schemas"
                    /\ Following[s] = "header json" <=> s = "jti"
                    /\ PayloadDueAt(Following[s]) = PayloadDueAt(s) \cup {s}
  OBVIOUS
<1>3. CASE s = "iss" BY <1>1, <1>3, PayloadFollows DEF PayloadSteps, PayloadClaimSet
<1>4. CASE s = "sub" BY <1>1, <1>4, PayloadFollows DEF PayloadSteps, PayloadClaimSet
<1>5. CASE s = "aud" BY <1>1, <1>5, PayloadFollows DEF PayloadSteps, PayloadClaimSet
<1>6. CASE s = "iat" BY <1>1, <1>6, PayloadFollows DEF PayloadSteps, PayloadClaimSet
<1>7. CASE s = "nbf" BY <1>1, <1>7, PayloadFollows DEF PayloadSteps, PayloadClaimSet
<1>8. CASE s = "exp" BY <1>1, <1>8, PayloadFollows DEF PayloadSteps, PayloadClaimSet
<1>9. CASE s = "schemas" BY <1>1, <1>9, PayloadFollows DEF PayloadSteps, PayloadClaimSet
<1>10. CASE s = "ten" BY <1>1, <1>10, PayloadFollows DEF PayloadSteps, PayloadClaimSet
<1>11. CASE s = "jti" BY <1>1, <1>2, <1>11, PayloadFollows DEF PayloadSteps, PayloadClaimSet
<1>. QED BY <1>3, <1>4, <1>5, <1>6, <1>7, <1>8, <1>9, <1>10, <1>11 DEF PayloadClaimSet

LEMMA JwtDestroyed ==
    ASSUME JwtInv, pc # "idle", pc' = "destroy", UNCHANGED <<jwt, roots>>
    PROVE  JwtInv'
<1>1. pc' \notin {"idle", "header", "request", "done", "identifier", "payload", "urn"} \cup HeaderClaimSet
      /\ pc' \notin WithHeader /\ pc' \notin WithPayload /\ pc' \in Steps
  BY TextStepsAre DEF HeaderClaimSet, WithHeader, WithPayload, PayloadSteps, PayloadClaimSet, Steps
<1>. QED BY <1>1 DEF JwtInv

LEMMA CreateHeaderKeepsJwt ==
    ASSUME TreeInv, JwtInv, CreateHeader
    PROVE  JwtInv'
<1>1. jwt = NoJwt /\ roots = {} /\ pc = "header"
  BY DEF JwtInv, CreateHeader, NoJwt
<1>2. CASE answer' # "OK"
  <2>1. pc' = "destroy" /\ UNCHANGED <<jwt, roots>>
    BY <1>2 DEF CreateHeader, Initialize, Fails, NewRoot
  <2>. QED BY <1>1, <2>1, JwtDestroyed
<1>3. CASE answer' = "OK"
  <2>1. Initialize("object") /\ pc' = "typ" /\ jwt' = [jwt EXCEPT !.header = NewNode]
    BY <1>1, <1>3 DEF CreateHeader, Following
  <2>2. HoldsClaims(nodes', silent', NewNode, {}) /\ nodes'[NewNode].kind = "object" /\ NewNode # 0
        /\ roots' = roots \cup {NewNode}
    BY <1>3, <2>1, InitializeKeepsClaims
  <2>3. jwt'.header = NewNode /\ jwt'.payload = 0 /\ jwt' = [header |-> jwt'.header, payload |-> jwt'.payload]
    BY <1>1, <2>1 DEF NoJwt
  <2>4. roots' = {jwt'.header, jwt'.payload} \ {0}
    BY <1>1, <2>2, <2>3
  <2>5. HeaderDueAt("typ") = {} /\ "typ" \notin WithPayload /\ "typ" \in Steps
    BY TextStepsAre
    DEF HeaderDueAt, HeaderDue, HeaderClaimSet, WithPayload, PayloadSteps, PayloadClaimSet, Steps, WithHeader
  <2>. QED BY <2>1, <2>2, <2>3, <2>4, <2>5 DEF JwtInv
<1>. QED BY <1>2, <1>3

\* A claim that is not there yet can be added to the header.
LEMMA HeaderClaimIsNew ==
    ASSUME JwtInv, pc \in HeaderClaimSet
    PROVE  pc # NoName /\ ~HasName(jwt.header, pc)
<1>1. HoldsClaims(nodes, silent, jwt.header, HeaderDueAt(pc))
  BY DEF JwtInv, WithHeader
<1>2. HeaderDueAt(pc) \subseteq HeaderClaimSet /\ pc \notin HeaderDueAt(pc)
  <2>1. HeaderDueAt("typ") = {} /\ HeaderDueAt("alg") = {"typ"}
    BY DEF HeaderDueAt, HeaderDue, HeaderClaimSet
  <2>. QED BY <2>1 DEF HeaderClaimSet
<1>3. \A c \in nodes[jwt.header].children : nodes[c].name \in HeaderClaimSet /\ nodes[c].name # pc
  BY <1>1, <1>2 DEF HoldsClaims, ClaimsOf
<1>4. \A claim \in HeaderClaimSet : claim \in DOMAIN Fold /\ Fold[claim] = claim
  BY ClaimsAssumption
<1>. QED BY <1>3, <1>4, JsonTreeAssumption DEF HasName

LEMMA AddHeaderClaimKeepsJwt ==
    ASSUME TreeInv, JwtInv, AddHeaderClaim
    PROVE  JwtInv'
<1>1. /\ pc \in HeaderClaimSet /\ AddTo(jwt.header, "string", pc) /\ pc' = Following[pc] /\ jwt' = jwt
      /\ pc # "idle" /\ jwt.payload = 0 /\ roots = {jwt.header, jwt.payload} \ {0}
      /\ HoldsClaims(nodes, silent, jwt.header, HeaderDueAt(pc)) /\ nodes[jwt.header].kind = "object"
  BY DEF JwtInv, AddHeaderClaim, HeaderClaimSet, WithHeader
<1>2. jwt.header \in Live
  BY <1>1 DEF HoldsClaims, Live
<1>3. roots' = roots
  BY <1>1, AddToEnds DEF Refused, NotAdded, NewChild
<1>4. pc' \in {"alg", "identifier"} /\ HeaderDueAt(pc') = HeaderDueAt(pc) \cup {pc}
  BY <1>1, HeaderOrder
<1>5. HoldsClaims(nodes', silent', jwt.header, HeaderDueAt(pc')) /\ nodes'[jwt.header].kind = "object"
  <2>1. answer' = "OK"
    BY <1>1, HeaderClaimIsNew DEF AddTo, NotAdded, NewChild
  <2>. QED BY <1>1, <1>2, <1>4, <2>1, AddToGrows DEF Grew
<1>6. pc' \notin WithPayload /\ pc' \in Steps /\ pc' \notin {"idle", "header", "request", "done", "urn"}
  BY <1>4, TextStepsAre DEF WithPayload, PayloadSteps, PayloadClaimSet, Steps, WithHeader,
     HeaderClaimSet
<1>7. jwt' = [header |-> jwt'.header, payload |-> jwt'.payload] /\ jwt'.payload = 0
      /\ roots' = {jwt'.header, jwt'.payload} \ {0} /\ HoldsClaims(nodes', silent', jwt'.header, HeaderDueAt(pc'))
      /\ nodes'[jwt'.header].kind = "object"
  BY <1>1, <1>3, <1>5 DEF JwtInv
<1>. QED BY <1>6, <1>7 DEF JwtInv

LEMMA GenerateJtiKeepsJwt ==
    ASSUME JwtInv, GenerateJti
    PROVE  JwtInv'
<1>1. pc = "identifier" /\ pc # "idle" /\ UNCHANGED <<treeVars, jwt>>
  BY DEF GenerateJti
<1>2. CASE pc' = "destroy"
  BY <1>1, <1>2, JwtDestroyed DEF treeVars
<1>3. CASE pc' # "destroy"
  <2>1. pc' = "payload"
    BY <1>1, <1>3 DEF GenerateJti, Following
  <2>2. HeaderDueAt("identifier") = HeaderDueAt("payload") /\ "identifier" \in WithHeader
        /\ "payload" \notin WithPayload /\ "payload" \in Steps
    BY TextStepsAre
    DEF HeaderDueAt, HeaderClaimSet, WithHeader, WithPayload, PayloadSteps, PayloadClaimSet, Steps
  <2>3. jwt.payload = 0 /\ roots = {jwt.header, jwt.payload} \ {0}
        /\ HoldsClaims(nodes, silent, jwt.header, HeaderDueAt("payload"))
        /\ jwt = [header |-> jwt.header, payload |-> jwt.payload]
    BY <1>1, <2>2 DEF JwtInv
  <2>. QED BY <1>1, <2>1, <2>2, <2>3 DEF JwtInv, treeVars, HeaderClaimSet
<1>. QED BY <1>2, <1>3

LEMMA CreatePayloadKeepsJwt ==
    ASSUME TreeInv, JwtInv, CreatePayload
    PROVE  JwtInv'
<1>1. /\ pc = "payload" /\ pc # "idle" /\ jwt.payload = 0 /\ roots = {jwt.header, jwt.payload} \ {0}
      /\ jwt = [header |-> jwt.header, payload |-> jwt.payload]
      /\ HoldsClaims(nodes, silent, jwt.header, HeaderDueAt(pc))
  BY DEF JwtInv, CreatePayload, WithHeader
<1>2. CASE answer' # "OK"
  <2>1. pc' = "destroy" /\ UNCHANGED <<jwt, roots>>
    BY <1>2 DEF CreatePayload, Initialize, Fails, NewRoot
  <2>. QED BY <1>1, <2>1, JwtDestroyed
<1>3. CASE answer' = "OK"
  <2>1. Initialize("object") /\ pc' = "iss" /\ jwt' = [jwt EXCEPT !.payload = NewNode]
    BY <1>1, <1>3 DEF CreatePayload, Following
  <2>2. /\ \A n, due : HoldsClaims(nodes, silent, n, due) => HoldsClaims(nodes', silent', n, due)
        /\ HoldsClaims(nodes', silent', NewNode, {}) /\ NewNode \notin Live /\ NewNode # 0
        /\ roots' = roots \cup {NewNode}
    BY <1>3, <2>1, InitializeKeepsClaims
  <2>3. jwt.header \in Live /\ jwt.header # NewNode
    BY <1>1, <2>2 DEF HoldsClaims, Live
  <2>4. jwt'.header = jwt.header /\ jwt'.payload = NewNode
        /\ jwt' = [header |-> jwt'.header, payload |-> jwt'.payload]
    BY <1>1, <2>1
  <2>5. roots' = {jwt'.header, jwt'.payload} \ {0}
    BY <1>1, <2>2, <2>4
  <2>6. HeaderDueAt("payload") = HeaderDueAt("iss") /\ PayloadDueAt("iss") = {} /\ "iss" \in Steps
        /\ "iss" \notin HeaderClaimSet
    BY DEF HeaderDueAt, HeaderClaimSet, PayloadDueAt, PayloadDue, PayloadSteps, PayloadClaimSet,
       Steps, WithHeader
  <2>7. HoldsClaims(nodes', silent', jwt'.header, HeaderDueAt("iss"))
    BY <1>1, <2>2, <2>4, <2>6
  <2>8. HoldsClaims(nodes', silent', jwt'.payload, PayloadDueAt("iss")) /\ jwt'.payload # jwt'.header
    BY <2>2, <2>3, <2>4, <2>6
  <2>. QED BY <2>1, <2>4, <2>5, <2>6, <2>7, <2>8 DEF JwtInv
<1>. QED BY <1>2, <1>3

LEMMA AddPayloadClaimKeepsJwt ==
    ASSUME TreeInv, JwtInv, AddPayloadClaim
    PROVE  JwtInv'
<1>1. /\ pc \in PayloadSteps /\ pc # "idle" /\ pc \in WithHeader /\ pc \in WithPayload /\ jwt' = jwt
      /\ pc \notin HeaderClaimSet
  BY DEF AddPayloadClaim, PayloadSteps, PayloadClaimSet, WithHeader, WithPayload, HeaderClaimSet
<1>2. /\ roots = {jwt.header, jwt.payload} \ {0} /\ jwt = [header |-> jwt.header, payload |-> jwt.payload]
      /\ jwt.payload # jwt.header /\ HoldsClaims(nodes, silent, jwt.payload, PayloadDueAt(pc))
      /\ HoldsClaims(nodes, silent, jwt.header, HeaderClaimSet)
      /\ pc = "urn" => array \in Live \ {jwt.header, jwt.payload}
  BY <1>1 DEF JwtInv, HeaderDueAt
<1>3. jwt.header \in Live /\ jwt.payload \in Live
  BY <1>2 DEF HoldsClaims, Live
<1>4. CASE answer' # "OK"
  <2>1. pc' = "destroy"
    BY <1>4 DEF AddPayloadClaim
  <2>2. UNCHANGED <<jwt, roots>>
    BY <1>1 DEF AddPayloadClaim, StartIn, AddTo, Fails, NotAdded, NotAttached, NewChild
  <2>. QED BY <1>1, <2>1, <2>2, JwtDestroyed
<1>5. CASE answer' = "OK"
  <2>0. pc' = Following[pc] /\ (pc = "schemas" => array' = NewNode)
    BY <1>5 DEF AddPayloadClaim
  <2>1. CASE pc = "urn"
    <3>1. AddTo(array, "string", NoName) /\ array \in Live \ {jwt.header, jwt.payload}
      BY <1>2, <2>1 DEF AddPayloadClaim
    <3>2. Grew(array, NoName, silent') /\ roots' = roots
      BY <1>5, <3>1, AddToGrows
    <3>3. HoldsClaims(nodes', silent', jwt.payload, PayloadDueAt(pc)) /\ HoldsClaims(nodes', silent', jwt.header, HeaderClaimSet)
      BY <1>2, <3>1, <3>2 DEF Grew
    <3>4. pc' = "ten" /\ PayloadDueAt("urn") = PayloadDueAt("ten") /\ HeaderDueAt("ten") = HeaderClaimSet
          /\ "ten" \in Steps /\ "ten" \notin HeaderClaimSet
      BY <2>0, <2>1, PayloadFollows
      DEF PayloadDueAt, PayloadDue, PayloadSteps, PayloadClaimSet, HeaderDueAt, HeaderClaimSet, Steps, WithHeader
    <3>. QED BY <1>1, <1>2, <2>1, <3>2, <3>3, <3>4 DEF JwtInv
  <2>2. CASE pc \in PayloadClaimSet
    <3>1. /\ Grew(jwt.payload, pc, silent') /\ roots' = roots
          /\ pc = "schemas" => NewNode \in Live' /\ NewNode \notin Live
      <4>1. CASE pc = "schemas"
        <5>1. StartIn(jwt.payload, "array", pc)
          BY <4>1 DEF AddPayloadClaim
        <5>. QED BY <1>3, <1>5, <5>1, StartInGrows
      <4>2. CASE pc # "schemas"
        <5>1. AddTo(jwt.payload, "string", pc)
          BY <2>2, <4>2 DEF AddPayloadClaim, PayloadClaimSet
        <5>. QED BY <1>3, <1>5, <4>2, <5>1, AddToGrows
      <4>. QED BY <4>1, <4>2
    <3>2. /\ pc' \in PayloadSteps \cup {"header json"} /\ (pc' = "urn" => pc = "schemas")
          /\ PayloadDueAt(pc') = PayloadDueAt(pc) \cup {pc}
      BY <2>0, <2>2, PayloadOrder
    <3>3. HeaderDueAt(pc') = HeaderClaimSet /\ pc' \in Steps /\ pc' \notin HeaderClaimSet
          /\ pc' \notin {"idle", "header", "request", "done", "identifier", "payload"}
      BY <3>2, TextStepsAre DEF PayloadSteps, PayloadClaimSet, HeaderDueAt, HeaderClaimSet,
         Steps, WithHeader
    <3>4. HoldsClaims(nodes', silent', jwt.payload, PayloadDueAt(pc')) /\ HoldsClaims(nodes', silent', jwt.header, HeaderClaimSet)
      BY <1>2, <3>1, <3>2 DEF Grew
    <3>5. pc' = "urn" => array' \in Live' \ {jwt.header, jwt.payload}
      BY <1>3, <2>0, <3>1, <3>2
    <3>. QED BY <1>1, <1>2, <3>1, <3>3, <3>4, <3>5 DEF JwtInv
  <2>. QED BY <1>1, <2>1, <2>2 DEF PayloadSteps
<1>. QED BY <1>4, <1>5

LEMMA NextTexts ==
    \A s \in DOMAIN TokenSteps : TokenSteps[s].next \in DOMAIN TokenSteps \cup {"destroy"}
BY DEF TokenSteps, Step

LEMMA TokenStepKeepsJwt ==
    ASSUME JwtInv, TokenStep
    PROVE  JwtInv'
<1>1. pc \in DOMAIN TokenSteps /\ UNCHANGED <<treeVars, jwt, array>> /\ pc' \in DOMAIN TokenSteps \cup {"destroy"}
  BY NextTexts DEF TokenStep
<1>2. pc \in WithHeader /\ pc \in WithPayload /\ pc # "idle"
      /\ HeaderDueAt(pc) = HeaderClaimSet /\ PayloadDueAt(pc) = PayloadClaimSet
  BY <1>1, TextStepsAre
  DEF WithHeader, WithPayload, HeaderDueAt, HeaderClaimSet, PayloadDueAt, PayloadSteps, PayloadClaimSet
<1>3. CASE pc' = "destroy"
  BY <1>1, <1>2, <1>3, JwtDestroyed DEF treeVars
<1>4. CASE pc' \in DOMAIN TokenSteps
  <2>1. /\ HeaderDueAt(pc') = HeaderClaimSet /\ PayloadDueAt(pc') = PayloadClaimSet
        /\ pc' \notin {"idle", "header", "request", "done", "identifier", "payload", "urn"}
        /\ pc' \notin HeaderClaimSet /\ pc' \in Steps
    BY <1>4, TextStepsAre
    DEF HeaderDueAt, HeaderClaimSet, PayloadDueAt, PayloadSteps, PayloadClaimSet, Steps, WithHeader
  <2>2. /\ roots = {jwt.header, jwt.payload} \ {0} /\ jwt = [header |-> jwt.header, payload |-> jwt.payload]
        /\ jwt.payload # jwt.header /\ HoldsClaims(nodes, silent, jwt.payload, PayloadClaimSet)
        /\ HoldsClaims(nodes, silent, jwt.header, HeaderClaimSet)
    BY <1>2 DEF JwtInv
  <2>. QED BY <1>1, <2>1, <2>2 DEF JwtInv, treeVars
<1>. QED BY <1>1, <1>3, <1>4

LEMMA JwtEnded ==
    ASSUME pc' \in {"done", "request"}, jwt' = NoJwt, roots' = {}
    PROVE  JwtInv'
<1>1. /\ pc' \notin {"identifier", "payload", "urn"} \cup HeaderClaimSet
      /\ pc' \notin WithHeader /\ pc' \notin WithPayload /\ pc' \in Steps
  BY TextStepsAre DEF HeaderClaimSet, WithHeader, WithPayload, PayloadSteps, PayloadClaimSet, Steps
<1>2. jwt' = [header |-> jwt'.header, payload |-> jwt'.payload] /\ roots' = {jwt'.header, jwt'.payload} \ {0}
  BY DEF NoJwt
<1>. QED BY <1>1, <1>2 DEF JwtInv

LEMMA JwtNotYet ==
    ASSUME pc' \in {"idle", "header"}, jwt' = NoJwt, pc' = "header" => roots' = {}
    PROVE  JwtInv'
<1>1. /\ pc' \notin {"identifier", "payload", "urn"} \cup HeaderClaimSet
      /\ pc' \notin WithHeader /\ pc' \notin WithPayload /\ pc' \in Steps
  BY TextStepsAre DEF HeaderClaimSet, WithHeader, WithPayload, PayloadSteps, PayloadClaimSet, Steps
<1>2. jwt' = [header |-> jwt'.header, payload |-> jwt'.payload] /\ {jwt'.header, jwt'.payload} \ {0} = {}
  BY DEF NoJwt
<1>. QED BY <1>1, <1>2 DEF JwtInv

LEMMA OthersKeepJwt ==
    ASSUME TreeInv, JwtInv,
           \/ JwtInitialize \/ JwtDestroy \/ ComposeRequest
           \/ pc = "idle" /\ TreeStep /\ UNCHANGED jwtVars
    PROVE  JwtInv'
<1>1. CASE JwtInitialize
  <2>1. roots = {} /\ jwt = NoJwt
    BY <1>1, TreeParts DEF JwtInitialize, JwtInv
  <2>2. roots' = {} /\ jwt' = NoJwt
    BY <1>1, <2>1 DEF JwtInitialize, treeVars
  <2>. QED BY <1>1, <2>2, JwtEnded, JwtNotYet DEF JwtInitialize
<1>2. CASE JwtDestroy
  BY <1>2, JwtEnded DEF JwtDestroy
<1>3. CASE ComposeRequest
  <2>1. roots = {} /\ jwt = NoJwt
    BY <1>3 DEF ComposeRequest, JwtInv, NoJwt
  <2>. QED BY <1>3, <2>1, JwtEnded DEF ComposeRequest, treeVars
<1>4. CASE pc = "idle" /\ TreeStep /\ UNCHANGED jwtVars
  <2>1. pc' = "idle" /\ jwt' = NoJwt
    BY <1>4 DEF JwtInv, jwtVars
  <2>. QED BY <2>1, JwtNotYet
<1>. QED BY <1>1, <1>2, <1>3, <1>4

-----------------------------------------------------------------------------
(* The steps of a token keep the texts.                                    *)

LEMMA FewTextsFit ==
    ASSUME NEW all, DOMAIN all \subseteq {"jti"}, NEW hush
    PROVE  TextsFit(all, hush)
<1>1. /\ "header" \notin DOMAIN all /\ "payload" \notin DOMAIN all /\ "header64" \notin DOMAIN all
      /\ "payload64" \notin DOMAIN all /\ "both" \notin DOMAIN all /\ "hash" \notin DOMAIN all
      /\ "signature" \notin DOMAIN all /\ "token" \notin DOMAIN all
  OBVIOUS
<1>. QED BY <1>1 DEF TextsFit

LEMMA NoTextsYet ==
    ASSUME token' = <<>>, DOMAIN texts' \subseteq {"jti"},
           IF pc' = "destroy" THEN DOMAIN texts' = {} ELSE DOMAIN texts' = HeldAt(pc')
    PROVE  TextInv'
<1>1. TextsFit(texts', silent')
  BY FewTextsFit
<1>. QED BY <1>1 DEF TextInv

LEMMA HeldEarly ==
    /\ HeldAt("idle") = {} /\ HeldAt("header") = {} /\ HeldAt("done") = {} /\ HeldAt("identifier") = {}
    /\ \A s \in HeaderClaimSet : HeldAt(s) = {}
    /\ HeldAt("payload") = {"jti"} /\ HeldAt("header json") = {}
    /\ \A s \in PayloadSteps : HeldAt(s) = {"jti"}
<1>1. /\ HeldAt("idle") = {} /\ HeldAt("header") = {} /\ HeldAt("done") = {} /\ HeldAt("identifier") = {}
      /\ HeldAt("payload") = {"jti"} /\ HeldAt("header json") = {}
  BY DEF HeldAt, PayloadSteps, PayloadClaimSet
<1>2. \A s \in HeaderClaimSet : HeldAt(s) = {}
  <2>1. HeldAt("typ") = {} /\ HeldAt("alg") = {}
    BY DEF HeldAt, PayloadSteps, PayloadClaimSet
  <2>. QED BY <2>1 DEF HeaderClaimSet
<1>3. \A s \in PayloadSteps : HeldAt(s) = {"jti"}
  BY DEF HeldAt, PayloadSteps, PayloadClaimSet
<1>. QED BY <1>1, <1>2, <1>3

LEMMA EarlyStepsKeepTexts ==
    ASSUME TextInv,
           \/ JwtInitialize \/ CreateHeader \/ AddHeaderClaim \/ GenerateJti \/ CreatePayload \/ AddPayloadClaim
           \/ pc = "idle" /\ UNCHANGED jwtVars
    PROVE  TextInv'
<1>1. ASSUME pc # "destroy", pc # "done"
      PROVE  DOMAIN texts = HeldAt(pc) /\ token = <<>>
  BY <1>1 DEF TextInv
<1>2. CASE JwtInitialize
  <2>1. DOMAIN texts' = {} /\ token' = <<>> /\ pc' \in {"done", "header"}
    BY <1>1, <1>2, HeldEarly DEF JwtInitialize
  <2>. QED BY <2>1, HeldEarly, NoTextsYet
<1>3. CASE CreateHeader
  <2>1. DOMAIN texts' = {} /\ token' = <<>>
    BY <1>1, <1>3, HeldEarly DEF CreateHeader
  <2>2. pc' \in {"destroy", "typ"}
    BY <1>3 DEF CreateHeader, Following
  <2>. QED BY <2>1, <2>2, HeldEarly, NoTextsYet DEF HeaderClaimSet
<1>4. CASE AddHeaderClaim
  <2>1. DOMAIN texts' = {} /\ token' = <<>>
    BY <1>1, <1>4, HeldEarly DEF AddHeaderClaim, HeaderClaimSet
  <2>2. pc' \in {"alg", "identifier"}
    BY <1>4, HeaderOrder DEF AddHeaderClaim
  <2>. QED BY <2>1, <2>2, HeldEarly, NoTextsYet DEF HeaderClaimSet
<1>5. CASE GenerateJti
  <2>1. DOMAIN texts = {} /\ token' = <<>>
    BY <1>1, <1>5, HeldEarly DEF GenerateJti
  <2>2. CASE pc' = "destroy" /\ UNCHANGED texts
    BY <2>1, <2>2, NoTextsYet
  <2>3. CASE pc' = Following[pc] /\ texts' = Made("jti", <<"guid">>)
    <3>1. pc' = "payload"
      BY <1>5, <2>3 DEF GenerateJti, Following
    <3>2. DOMAIN texts' = {"jti"}
      BY <2>1, <2>3 DEF Made
    <3>. QED BY <2>1, <3>1, <3>2, HeldEarly, NoTextsYet
  <2>. QED BY <1>5, <2>2, <2>3 DEF GenerateJti
<1>6. CASE CreatePayload
  <2>1. DOMAIN texts = {"jti"} /\ token' = <<>>
    BY <1>1, <1>6, HeldEarly DEF CreatePayload
  <2>2. CASE pc' = "destroy" /\ PayloadFailed
    <3>1. DOMAIN texts' = {}
      BY <2>1, <2>2 DEF PayloadFailed, Free
    <3>. QED BY <2>1, <2>2, <3>1, NoTextsYet
  <2>3. CASE pc' = Following[pc] /\ UNCHANGED texts
    <3>1. pc' = "iss"
      BY <1>6, <2>3 DEF CreatePayload, Following
    <3>2. "iss" \in PayloadSteps
      BY DEF PayloadSteps, PayloadClaimSet
    <3>. QED BY <2>1, <2>3, <3>1, <3>2, HeldEarly, NoTextsYet
  <2>. QED BY <1>6, <2>2, <2>3 DEF CreatePayload
<1>7. CASE AddPayloadClaim
  <2>1. DOMAIN texts = {"jti"} /\ token' = <<>> /\ pc \in PayloadSteps
    <3>1. pc \in PayloadSteps /\ pc # "destroy" /\ pc # "done"
      BY <1>7 DEF AddPayloadClaim, PayloadSteps, PayloadClaimSet
    <3>. QED BY <1>1, <1>7, <3>1, HeldEarly DEF AddPayloadClaim
  <2>2. CASE pc' = "destroy" /\ PayloadFailed
    <3>1. DOMAIN texts' = {}
      BY <2>1, <2>2 DEF PayloadFailed, Free
    <3>. QED BY <2>1, <2>2, <3>1, NoTextsYet
  <2>3. CASE pc' = Following[pc] /\ texts' = IF pc = "jti" THEN Free({"jti"}) ELSE texts
    <3>1. CASE pc = "jti"
      <4>1. pc' = "header json" /\ DOMAIN texts' = {}
        BY <2>1, <2>3, <3>1, PayloadFollows DEF Free
      <4>. QED BY <2>1, <4>1, HeldEarly, NoTextsYet
    <3>2. CASE pc # "jti"
      <4>1. pc' \in PayloadSteps
        <5>1. CASE pc = "urn"
          BY <2>3, <5>1, PayloadFollows DEF PayloadSteps, PayloadClaimSet
        <5>2. CASE pc \in PayloadClaimSet
          BY <2>3, <3>2, <5>2, PayloadOrder
        <5>. QED BY <2>1, <5>1, <5>2 DEF PayloadSteps
      <4>2. pc' # "destroy"
        BY <4>1 DEF PayloadSteps, PayloadClaimSet
      <4>. QED BY <2>1, <2>3, <3>2, <4>1, <4>2, HeldEarly, NoTextsYet
    <3>. QED BY <3>1, <3>2
  <2>. QED BY <1>7, <2>2, <2>3 DEF AddPayloadClaim
<1>8. CASE pc = "idle" /\ UNCHANGED jwtVars
  <2>1. DOMAIN texts' = {} /\ token' = <<>> /\ pc' = "idle"
    BY <1>1, <1>8, HeldEarly DEF jwtVars
  <2>. QED BY <2>1, HeldEarly, NoTextsYet
<1>. QED BY <1>2, <1>3, <1>4, <1>5, <1>6, <1>7, <1>8

LEMMA TextMade ==
    ASSUME NEW name, NEW text, NEW freed, name \notin freed, NEW made, made = Made(name, text),
           texts' = [t \in DOMAIN made \ freed |-> made[t]]
    PROVE  /\ DOMAIN texts' = (DOMAIN texts \cup {name}) \ freed /\ texts'[name] = text
           /\ \A t \in DOMAIN texts \ freed : t # name => texts'[t] = texts[t]
<1>1. made = [t \in DOMAIN texts \cup {name} |-> IF t = name THEN text ELSE texts[t]]
  BY DEF Made
<1>2. DOMAIN made = DOMAIN texts \cup {name} /\ made[name] = text
      /\ \A t \in DOMAIN texts : t # name => made[t] = texts[t]
  BY <1>1
<1>3. DOMAIN texts' = DOMAIN made \ freed /\ \A t \in DOMAIN made \ freed : texts'[t] = made[t]
  OBVIOUS
<1>. QED BY ONLY <1>2, <1>3, name \notin freed

LEMMA TextsFreed ==
    ASSUME NEW names, texts' = Free(names), NEW hush, TextsFit(texts, hush),
           {"header64", "payload64", "both", "hash", "signature"} \cap DOMAIN texts \subseteq names
    PROVE  TextsFit(texts', hush)
<1>1. DOMAIN texts' = DOMAIN texts \ names /\ \A t \in DOMAIN texts' : texts'[t] = texts[t]
  BY DEF Free
<1>. QED BY <1>1 DEF TextsFit

LEMMA HeldLate ==
    /\ HeldAt("header json") = {} /\ HeldAt("payload json") = {"header"}
    /\ HeldAt("encode header") = {"header", "payload"}
    /\ HeldAt("encode payload") = {"header", "payload", "header64"}
    /\ HeldAt("join") = {"header", "payload", "header64", "payload64"}
    /\ HeldAt("sign") = {"header", "payload", "both"}
    /\ HeldAt("encode") = {"header", "payload", "both", "hash"}
    /\ HeldAt("finish") = {"header", "payload", "both", "signature"}
    /\ HeldAt("request") = {"token"} /\ HeldAt("done") = {}
BY DEF HeldAt, PayloadSteps, PayloadClaimSet

LEMMA TokenStepsAre ==
    /\ TokenSteps["header json"] = Step("header", {}, {}, "payload json")
    /\ TokenSteps["payload json"] = Step("payload", {}, {}, "encode header")
    /\ TokenSteps["encode header"] = Step("header64", {}, {}, "encode payload")
    /\ TokenSteps["encode payload"] = Step("payload64", {}, {"header64"}, "join")
    /\ TokenSteps["join"] = Step("both", {"header64", "payload64"}, {"header64", "payload64"}, "sign")
    /\ TokenSteps["sign"] = Step("hash", {}, {"both"}, "encode")
    /\ TokenSteps["encode"] = Step("signature", {"hash"}, {"hash", "both"}, "finish")
    /\ TokenSteps["finish"] = Step("token", {"both", "signature"}, {"both", "signature"}, "destroy")
BY DEF TokenSteps

LEMMA StepParts ==
    ASSUME NEW makes, NEW frees, NEW freesFailing, NEW next
    PROVE  LET step == Step(makes, frees, freesFailing, next)
           IN step.makes = makes /\ step.frees = frees /\ step.freesFailing = freesFailing /\ step.next = next
BY DEF Step

TextIsMade(makes, frees, next) ==
    /\ DOMAIN texts' = (DOMAIN texts \cup {makes}) \ frees /\ texts'[makes] = Text(pc)
    /\ \A t \in DOMAIN texts \ frees : t # makes => texts'[t] = texts[t]
    /\ pc' = next

\* How a step of a token ends.
LEMMA TokenStepEnds ==
    ASSUME TokenStep, NEW makes, NEW frees, NEW freesFailing, NEW next,
           TokenSteps[pc] = Step(makes, frees, freesFailing, next), makes \notin frees
    PROVE  \/ TextIsMade(makes, frees, next)
           \/ texts' = Free(freesFailing) /\ pc' = "destroy"
<1> DEFINE step == TokenSteps[pc]
           made == Made(step.makes, Text(pc))
<1>1. step.makes = makes /\ step.frees = frees /\ step.freesFailing = freesFailing /\ step.next = next
  BY StepParts
<1>2. CASE texts' = [t \in DOMAIN made \ step.frees |-> made[t]] /\ pc' = step.next
  <2>1. made = Made(makes, Text(pc))
    BY <1>1
  <2>2. texts' = [t \in DOMAIN made \ frees |-> made[t]]
    BY <1>1, <1>2
  <2> HIDE DEF made
  <2>. QED BY <1>1, <1>2, <2>1, <2>2, TextMade DEF TextIsMade
<1>3. CASE texts' = Free(step.freesFailing) /\ pc' = "destroy"
  BY <1>1, <1>3
<1>. QED BY <1>2, <1>3 DEF TokenStep

LEMMA TokenStepFailed ==
    ASSUME TextInv, pc # "destroy", token = <<>>, token' = token, silent' = silent, pc' = "destroy",
           NEW names, texts' = Free(names), DOMAIN texts \ names \subseteq {"header", "payload"}
    PROVE  TextInv'
<1>1. TextsFit(texts, silent)
  BY DEF TextInv
<1>2. TextsFit(texts', silent)
  BY <1>1, TextsFreed
<1>3. DOMAIN texts' \subseteq {"header", "payload"}
  BY DEF Free
<1>. QED BY <1>2, <1>3 DEF TextInv

LEMMA TokenStepKeepsTexts ==
    ASSUME JwtInv, TextInv, TokenStep
    PROVE  TextInv'
<1>1. pc \in DOMAIN TokenSteps /\ silent' = silent /\ token' = token
  BY DEF TokenStep, treeVars
<1>2. pc # "destroy" /\ pc # "done" /\ DOMAIN texts = HeldAt(pc) /\ token = <<>> /\ TextsFit(texts, silent)
  BY <1>1, TextStepsAre DEF TextInv
<1>3. HoldsClaims(nodes, silent, jwt.header, HeaderClaimSet) /\ HoldsClaims(nodes, silent, jwt.payload, PayloadClaimSet)
  <2>1. pc \in WithHeader /\ pc \in WithPayload
        /\ HeaderDueAt(pc) = HeaderClaimSet /\ PayloadDueAt(pc) = PayloadClaimSet
    BY <1>1, TextStepsAre
    DEF WithHeader, WithPayload, HeaderDueAt, HeaderClaimSet, PayloadDueAt, PayloadSteps, PayloadClaimSet
  <2>. QED BY <2>1 DEF JwtInv
<1>4. \A n, due : HoldsClaims(nodes, silent, n, due) => <<"json", Claims(n)>> \in Jsons(silent, due)
  BY DEF HoldsClaims, Jsons, Claims, ClaimsOf
<1>5. ASSUME pc' # "destroy", DOMAIN texts' = HeldAt(pc'), TextsFit(texts', silent)
      PROVE  TextInv'
  BY <1>1, <1>2, <1>5 DEF TextInv
<1>6. CASE pc = "header json"
  <2>1. CASE texts' = Free({}) /\ pc' = "destroy"
    BY <1>1, <1>2, <1>6, <2>1, HeldLate, TokenStepFailed
  <2>2. CASE TextIsMade("header", {}, "payload json")
    <3>1. Text(pc) = <<"json", Claims(jwt.header)>>
      BY <1>6 DEF Text
    <3>1a. Text(pc) \in Jsons(silent, HeaderClaimSet)
      BY <1>3, <1>4, <3>1
    <3>2. DOMAIN texts' = {"header"} /\ texts'["header"] \in Jsons(silent, HeaderClaimSet)
      BY <1>2, <1>6, <2>2, <3>1a, HeldLate DEF TextIsMade
    <3>3. TextsFit(texts', silent)
      BY <3>2 DEF TextsFit
    <3>. QED BY <1>5, <2>2, <3>2, <3>3, HeldLate DEF TextIsMade
  <2>3. TokenSteps[pc] = Step("header", {}, {}, "payload json") /\ "header" \notin {}
    BY <1>6, TokenStepsAre
  <2>. QED BY <2>1, <2>2, <2>3, TokenStepEnds
<1>7. CASE pc = "payload json"
  <2>1. CASE texts' = Free({}) /\ pc' = "destroy"
    BY <1>1, <1>2, <1>7, <2>1, HeldLate, TokenStepFailed
  <2>2. CASE TextIsMade("payload", {}, "encode header")
    <3>1. Text(pc) = <<"json", Claims(jwt.payload)>>
      BY <1>7 DEF Text
    <3>1a. Text(pc) \in Jsons(silent, PayloadClaimSet)
      BY <1>3, <1>4, <3>1
    <3>2. DOMAIN texts' = {"header", "payload"} /\ texts'["payload"] \in Jsons(silent, PayloadClaimSet)
          /\ texts'["header"] = texts["header"] /\ "header" \in DOMAIN texts
      BY <1>2, <1>7, <2>2, <3>1a, HeldLate DEF TextIsMade
    <3>3. TextsFit(texts', silent)
      BY <1>2, <3>2 DEF TextsFit
    <3>. QED BY <1>5, <2>2, <3>2, <3>3, HeldLate DEF TextIsMade
  <2>3. TokenSteps[pc] = Step("payload", {}, {}, "encode header") /\ "payload" \notin {}
    BY <1>7, TokenStepsAre
  <2>. QED BY <2>1, <2>2, <2>3, TokenStepEnds
<1>8. CASE pc = "encode header"
  <2>1. CASE texts' = Free({}) /\ pc' = "destroy"
    BY <1>1, <1>2, <1>8, <2>1, HeldLate, TokenStepFailed
  <2>2. CASE TextIsMade("header64", {}, "encode payload")
    <3>1. Text(pc) = Encoded(texts["header"])
      BY <1>8 DEF Text
    <3>2. DOMAIN texts' = {"header", "payload", "header64"} /\ texts'["header64"] = Encoded(texts'["header"])
          /\ texts'["header"] = texts["header"] /\ texts'["payload"] = texts["payload"]
          /\ "header" \in DOMAIN texts /\ "payload" \in DOMAIN texts
      BY <1>2, <1>8, <2>2, <3>1, HeldLate DEF TextIsMade
    <3>3. TextsFit(texts', silent)
      BY <1>2, <3>2 DEF TextsFit
    <3>. QED BY <1>5, <2>2, <3>2, <3>3, HeldLate DEF TextIsMade
  <2>3. TokenSteps[pc] = Step("header64", {}, {}, "encode payload") /\ "header64" \notin {}
    BY <1>8, TokenStepsAre
  <2>. QED BY <2>1, <2>2, <2>3, TokenStepEnds
<1>9. CASE pc = "encode payload"
  <2>1. CASE texts' = Free({"header64"}) /\ pc' = "destroy"
    BY <1>1, <1>2, <1>9, <2>1, HeldLate, TokenStepFailed
  <2>2. CASE TextIsMade("payload64", {}, "join")
    <3>1. Text(pc) = Encoded(texts["payload"])
      BY <1>9 DEF Text
    <3>2. DOMAIN texts' = {"header", "payload", "header64", "payload64"}
          /\ texts'["payload64"] = Encoded(texts'["payload"])
          /\ texts'["header"] = texts["header"] /\ texts'["payload"] = texts["payload"]
          /\ texts'["header64"] = texts["header64"]
          /\ "header" \in DOMAIN texts /\ "payload" \in DOMAIN texts /\ "header64" \in DOMAIN texts
      BY <1>2, <1>9, <2>2, <3>1, HeldLate DEF TextIsMade
    <3>3. TextsFit(texts', silent)
      BY <1>2, <3>2 DEF TextsFit
    <3>. QED BY <1>5, <2>2, <3>2, <3>3, HeldLate DEF TextIsMade
  <2>3. TokenSteps[pc] = Step("payload64", {}, {"header64"}, "join") /\ "payload64" \notin {}
    BY <1>9, TokenStepsAre
  <2>. QED BY <2>1, <2>2, <2>3, TokenStepEnds
<1>10. CASE pc = "join"
  <2>1. CASE texts' = Free({"header64", "payload64"}) /\ pc' = "destroy"
    BY <1>1, <1>2, <1>10, <2>1, HeldLate, TokenStepFailed
  <2>2. CASE TextIsMade("both", {"header64", "payload64"}, "sign")
    <3>1. Text(pc) = Joined(texts["header64"], texts["payload64"])
      BY <1>10 DEF Text
    <3>2. /\ DOMAIN texts' = {"header", "payload", "both"}
          /\ texts'["header"] = texts["header"] /\ texts'["payload"] = texts["payload"]
          /\ "header" \in DOMAIN texts /\ "payload" \in DOMAIN texts
          /\ "header64" \in DOMAIN texts /\ "payload64" \in DOMAIN texts
          /\ texts'["both"] = Text(pc)
      BY <1>2, <1>10, <2>2, HeldLate DEF TextIsMade
    <3>3. /\ texts["header"] \in Jsons(silent, HeaderClaimSet) /\ texts["payload"] \in Jsons(silent, PayloadClaimSet)
          /\ texts["header64"] = Encoded(texts["header"]) /\ texts["payload64"] = Encoded(texts["payload"])
      BY <1>2, <3>2 DEF TextsFit
    <3>4. texts'["both"] \in Boths(silent)
      BY <3>1, <3>2, <3>3 DEF Boths
    <3>5. TextsFit(texts', silent)
      BY <3>2, <3>3, <3>4 DEF TextsFit
    <3>. QED BY <1>5, <2>2, <3>2, <3>5, HeldLate DEF TextIsMade
  <2>3. TokenSteps[pc] = Step("both", {"header64", "payload64"}, {"header64", "payload64"}, "sign")
        /\ "both" \notin {"header64", "payload64"}
    BY <1>10, TokenStepsAre
  <2>. QED BY <2>1, <2>2, <2>3, TokenStepEnds
<1>11. CASE pc = "sign"
  <2>1. CASE texts' = Free({"both"}) /\ pc' = "destroy"
    BY <1>1, <1>2, <1>11, <2>1, HeldLate, TokenStepFailed
  <2>2. CASE TextIsMade("hash", {}, "encode")
    <3>1. Text(pc) = Signed(texts["both"])
      BY <1>11 DEF Text, SignedText
    <3>2. /\ DOMAIN texts' = {"header", "payload", "both", "hash"}
          /\ texts'["hash"] = Signed(texts'["both"])
          /\ texts'["header"] = texts["header"] /\ texts'["payload"] = texts["payload"]
          /\ texts'["both"] = texts["both"]
          /\ "header" \in DOMAIN texts /\ "payload" \in DOMAIN texts /\ "both" \in DOMAIN texts
      BY <1>2, <1>11, <2>2, <3>1, HeldLate DEF TextIsMade
    <3>3. TextsFit(texts', silent)
      BY <1>2, <3>2 DEF TextsFit
    <3>. QED BY <1>5, <2>2, <3>2, <3>3, HeldLate DEF TextIsMade
  <2>3. TokenSteps[pc] = Step("hash", {}, {"both"}, "encode") /\ "hash" \notin {}
    BY <1>11, TokenStepsAre
  <2>. QED BY <2>1, <2>2, <2>3, TokenStepEnds
<1>12. CASE pc = "encode"
  <2>1. CASE texts' = Free({"hash", "both"}) /\ pc' = "destroy"
    BY <1>1, <1>2, <1>12, <2>1, HeldLate, TokenStepFailed
  <2>2. CASE TextIsMade("signature", {"hash"}, "finish")
    <3>1. Text(pc) = Encoded(texts["hash"])
      BY <1>12 DEF Text
    <3>2. /\ DOMAIN texts' = {"header", "payload", "both", "signature"}
          /\ texts'["signature"] = Encoded(texts["hash"])
          /\ texts'["header"] = texts["header"] /\ texts'["payload"] = texts["payload"]
          /\ texts'["both"] = texts["both"]
          /\ "header" \in DOMAIN texts /\ "payload" \in DOMAIN texts /\ "both" \in DOMAIN texts
          /\ "hash" \in DOMAIN texts
      BY <1>2, <1>12, <2>2, <3>1, HeldLate DEF TextIsMade
    <3>3. TextsFit(texts', silent)
      BY <1>2, <3>2 DEF TextsFit
    <3>. QED BY <1>5, <2>2, <3>2, <3>3, HeldLate DEF TextIsMade
  <2>3. TokenSteps[pc] = Step("signature", {"hash"}, {"hash", "both"}, "finish") /\ "signature" \notin {"hash"}
    BY <1>12, TokenStepsAre
  <2>. QED BY <2>1, <2>2, <2>3, TokenStepEnds
<1>13. CASE pc = "finish"
  <2>1. CASE texts' = Free({"both", "signature"}) /\ pc' = "destroy"
    BY <1>1, <1>2, <1>13, <2>1, HeldLate, TokenStepFailed
  <2>2. CASE TextIsMade("token", {"both", "signature"}, "destroy")
    <3>1. Text(pc) = Joined(texts["both"], texts["signature"])
      BY <1>13 DEF Text
    <3>2. /\ DOMAIN texts' = {"header", "payload", "token"}
          /\ texts'["header"] = texts["header"] /\ texts'["payload"] = texts["payload"]
          /\ "header" \in DOMAIN texts /\ "payload" \in DOMAIN texts /\ "both" \in DOMAIN texts
          /\ "signature" \in DOMAIN texts /\ texts'["token"] = Text(pc)
      BY <1>2, <1>13, <2>2, HeldLate DEF TextIsMade
    <3>3. /\ texts["header"] \in Jsons(silent, HeaderClaimSet) /\ texts["payload"] \in Jsons(silent, PayloadClaimSet)
          /\ texts["both"] \in Boths(silent) /\ texts["signature"] = Encoded(Signed(texts["both"]))
      BY <1>2, <3>2 DEF TextsFit
    <3>4. texts'["token"] \in Tokens(silent)
      BY <3>1, <3>2, <3>3 DEF Tokens
    <3>5. TextsFit(texts', silent)
      BY <3>2, <3>3, <3>4 DEF TextsFit
    <3>. QED BY <1>1, <1>2, <2>2, <3>2, <3>5 DEF TextInv, TextIsMade
  <2>3. TokenSteps[pc] = Step("token", {"both", "signature"}, {"both", "signature"}, "destroy")
        /\ "token" \notin {"both", "signature"}
    BY <1>13, TokenStepsAre
  <2>. QED BY <2>1, <2>2, <2>3, TokenStepEnds
<1>. QED BY <1>1, <1>6, <1>7, <1>8, <1>9, <1>10, <1>11, <1>12, <1>13, TextStepsAre

LEMMA LastStepsKeepTexts ==
    ASSUME TextInv, JwtDestroy \/ ComposeRequest
    PROVE  TextInv'
<1>1. CASE JwtDestroy
  <2>1. pc = "destroy" /\ silent' = silent /\ token' = token /\ texts' = Free({"header", "payload"})
        /\ pc' = IF "token" \in DOMAIN texts THEN "request" ELSE "done"
    BY <1>1 DEF JwtDestroy
  <2>2. DOMAIN texts \subseteq {"header", "payload", "token"} /\ TextsFit(texts, silent) /\ token = <<>>
    BY <2>1 DEF TextInv
  <2>3. DOMAIN texts' = DOMAIN texts \cap {"token"}
    BY <2>1, <2>2 DEF Free
  <2>4. TextsFit(texts', silent)
    BY <2>1, <2>2, TextsFreed
  <2>5. DOMAIN texts' = HeldAt(pc') /\ pc' # "destroy"
    <3>1. CASE "token" \in DOMAIN texts
      <4>1. pc' = "request" /\ DOMAIN texts' = {"token"}
        BY <2>1, <2>3, <3>1
      <4>. QED BY ONLY <4>1, HeldLate
    <3>2. CASE "token" \notin DOMAIN texts
      <4>1. pc' = "done" /\ DOMAIN texts' = {}
        BY <2>1, <2>3, <3>2
      <4>. QED BY ONLY <4>1, HeldLate
    <3>. QED BY <3>1, <3>2
  <2>. QED BY <2>1, <2>2, <2>4, <2>5 DEF TextInv
<1>2. CASE ComposeRequest
  <2>1. pc = "request" /\ silent' = silent /\ texts' = Free({"token"}) /\ pc' = "done"
        /\ (token' = <<texts["token"]>> \/ token' = token)
    BY <1>2 DEF ComposeRequest, treeVars
  <2>2. DOMAIN texts = {"token"} /\ texts["token"] \in Tokens(silent) /\ token = <<>>
    BY <2>1, HeldLate DEF TextInv, TextsFit
  <2>3. DOMAIN texts' = {}
    BY <2>1, <2>2 DEF Free
  <2>4. TextsFit(texts', silent')
    BY <2>3, FewTextsFit
  <2>5. token' # <<>> => token'[1] \in Tokens(silent')
    BY <2>1, <2>2
  <2>. QED BY <2>1, <2>3, <2>4, <2>5, HeldLate DEF TextInv
<1>. QED BY <1>1, <1>2

-----------------------------------------------------------------------------
(* The theorems.                                                           *)

LEMMA EmptyForest ==
    ASSUME NEW f, DOMAIN f = {}
    PROVE  Forest(f, {})
<1>1. IsFiniteSet(DOMAIN f)
  BY FS_EmptySet
<1>. QED BY <1>1 DEF Forest, WellFormed, TopsAreFree, ParentsAreUnique, AllReached

LEMMA InitHolds ==
    Init => IInv
<1> SUFFICES ASSUME Init
             PROVE  IInv
  OBVIOUS
<1>1. nodes = << >> /\ Live = {} /\ roots \cup lost = {} /\ roots \cap lost = {} /\ ~silent /\ lost = {}
  BY DEF Init, TreeInit, Live
<1>2. nodes = [m \in Live |-> nodes[m]]
  BY <1>1
<1>3. NodesTyped
  BY <1>1, <1>2 DEF NodesTyped
<1>4. Trees
  BY <1>1, EmptyForest DEF Trees, Live
<1>5. TreeInv
  BY <1>1, <1>3, <1>4 DEF TreeInv, LostSilently, NamesDistinct
<1>6. JwtInv
  <2>1. pc = "idle" /\ jwt = NoJwt
    BY DEF Init
  <2>2. /\ "idle" \notin {"identifier", "payload", "urn"} \cup HeaderClaimSet
        /\ "idle" \notin WithHeader /\ "idle" \notin WithPayload /\ "idle" \in Steps
    BY TextStepsAre DEF HeaderClaimSet, WithHeader, WithPayload, PayloadSteps, PayloadClaimSet,
       Steps
  <2>. QED BY <2>1, <2>2 DEF JwtInv, NoJwt
<1>7. TextInv
  <2>1. pc = "idle" /\ DOMAIN texts = {} /\ token = <<>>
    BY DEF Init
  <2>2. TextsFit(texts, silent)
    BY <2>1, FewTextsFit
  <2>. QED BY <2>1, <2>2, HeldEarly DEF TextInv
<1>. QED BY <1>5, <1>6, <1>7 DEF IInv

\* The composition of a token keeps the trees.
LEMMA JwtStepsKeepTrees ==
    ASSUME TreeInv, JwtInv,
           \/ JwtInitialize \/ CreateHeader \/ AddHeaderClaim \/ GenerateJti \/ CreatePayload \/ AddPayloadClaim
           \/ TokenStep \/ JwtDestroy \/ ComposeRequest
    PROVE  TreeInv'
<1>1. CASE UNCHANGED treeVars
  BY <1>1, UnchangedTree DEF treeVars
<1>2. CASE CreateHeader \/ CreatePayload
  BY <1>2, InitializeKeeps DEF CreateHeader, CreatePayload
<1>3. CASE AddHeaderClaim
  <2>1. jwt.header \in Live
    BY <1>3 DEF AddHeaderClaim, JwtInv, WithHeader, HoldsClaims, Live
  <2>. QED BY <1>3, <2>1, AddToKeeps DEF AddHeaderClaim
<1>4. CASE AddPayloadClaim
  <2>1. jwt.payload \in Live /\ (pc = "urn" => array \in Live)
    BY <1>4 DEF AddPayloadClaim, JwtInv, WithPayload, PayloadSteps, HoldsClaims, Live
  <2>2. CASE pc = "urn"
    <3>1. AddTo(array, "string", NoName)
      BY <1>4, <2>2 DEF AddPayloadClaim
    <3>. QED BY <2>1, <2>2, <3>1, AddToKeeps
  <2>3. CASE pc # "urn"
    <3>1. StartIn(jwt.payload, "array", pc) \/ AddTo(jwt.payload, "string", pc)
      BY <1>4, <2>3 DEF AddPayloadClaim
    <3>. QED BY <2>1, <3>1, AddToKeeps, StartInKeeps
  <2>. QED BY <2>2, <2>3
<1>5. CASE JwtDestroy
  <2>1. /\ nodes' = [m \in Live \ UNION {Below(n) : n \in roots} |-> nodes[m]] /\ roots' = {}
        /\ UNCHANGED <<lost, silent, parsed>>
    BY <1>5 DEF JwtDestroy
  <2>2. roots' = roots \ roots /\ Live' \cap parsed \subseteq parsed' /\ UNCHANGED <<lost, silent>>
    BY <2>1
  <2>. QED BY <2>1, <2>2, RemovalKeeps
<1>. QED BY <1>1, <1>2, <1>3, <1>4, <1>5 DEF JwtInitialize, GenerateJti, TokenStep, ComposeRequest

LEMMA Unchanged ==
    ASSUME IInv, UNCHANGED vars
    PROVE  IInv'
<1>1. TreeInv'
  BY UnchangedTree DEF IInv, vars, treeVars
<1>2. JwtInv'
  BY DEF IInv, vars, treeVars, jwtVars, JwtInv, Live
<1>3. TextInv'
  BY DEF IInv, vars, treeVars, jwtVars, TextInv
<1>. QED BY <1>1, <1>2, <1>3 DEF IInv

LEMMA StepHolds ==
    IInv /\ [Next]_vars => IInv'
<1> SUFFICES ASSUME IInv, [Next]_vars
             PROVE  IInv'
  OBVIOUS
<1>1. TreeInv /\ JwtInv /\ TextInv
  BY DEF IInv
<1>2. CASE UNCHANGED vars
  BY <1>2, Unchanged
<1>3. CASE pc = "idle" /\ TreeStep /\ UNCHANGED jwtVars
  <2>1. TreeInv'
    BY <1>1, <1>3, TreeStepKeeps
  <2>2. JwtInv'
    BY <1>1, <1>3, OthersKeepJwt
  <2>3. TextInv'
    BY <1>1, <1>3, EarlyStepsKeepTexts
  <2>. QED BY <2>1, <2>2, <2>3 DEF IInv
<1>4. CASE \/ JwtInitialize \/ CreateHeader \/ AddHeaderClaim \/ GenerateJti \/ CreatePayload \/ AddPayloadClaim
           \/ TokenStep \/ JwtDestroy \/ ComposeRequest
  <2>1. TreeInv'
    BY <1>1, <1>4, JwtStepsKeepTrees
  <2>2. JwtInv'
    BY <1>1, <1>4, CreateHeaderKeepsJwt, AddHeaderClaimKeepsJwt, GenerateJtiKeepsJwt,
       CreatePayloadKeepsJwt,
       AddPayloadClaimKeepsJwt, TokenStepKeepsJwt, OthersKeepJwt
  <2>3. TextInv'
    BY <1>1, <1>4, EarlyStepsKeepTexts, TokenStepKeepsTexts, LastStepsKeepTexts
  <2>. QED BY <2>1, <2>2, <2>3 DEF IInv
<1>. QED BY <1>2, <1>3, <1>4 DEF Next

\* The inductive invariant holds whatever the program does with its trees and wherever a
\* token breaks off (json_util.c, jwt.c).
THEOREM TokenInvariance ==
    Spec => []IInv
BY InitHolds, StepHolds, PTL DEF Spec

\* Every node has one owner, none is lost unless memory ran out, and no member hides
\* another: no sequence of the calls of json_util.c frees a node twice or leaks one.
THEOREM TreesStaySound ==
    Spec => []TreesAreSound
<1>1. IInv => TreesAreSound
  BY TreesAreSoundThen DEF IInv
<1>. QED BY <1>1, TokenInvariance, PTL

\* Wherever _compose_token_request... ends, its texts are freed and its trees are destroyed
\* (the error paths of jwt.c).
THEOREM TokenEndsClean ==
    Spec => []TokenClean
<1>1. IInv => TokenClean
  <2> SUFFICES ASSUME IInv, pc = "done"
               PROVE  DOMAIN texts = {} /\ roots = {} /\ Live = UNION {Below(n) : n \in lost}
    BY DEF TokenClean
  <2>1. DOMAIN texts = {}
    BY HeldLate DEF IInv, TextInv
  <2>2. roots = {}
    BY DEF IInv, JwtInv, NoJwt
  <2>3. Forest(nodes, lost) /\ WellFormed(nodes) /\ lost \subseteq Live
    BY <2>2, TreeParts DEF IInv
  <2>4. \A x \in Live : \E n \in lost : x \in Below(n)
    BY <2>3, BelowIsReach DEF Forest, AllReached, Live
  <2>5. \A n \in lost : Below(n) \subseteq Live
    BY <2>3, BelowIsReach, ReachesNodes DEF Live
  <2>. QED BY <2>1, <2>2, <2>4, <2>5
<1>. QED BY <1>1, TokenInvariance, PTL

\* What is signed is what is sent: the two parts of the token are the claims that are due,
\* all of them unless memory ran out (_join_with_dot, _calculate_signature of jwt.c).
THEOREM TokenIsSigned ==
    Spec => []TokenSigned
<1>1. IInv => TokenSigned
  <2> SUFFICES ASSUME IInv, token # <<>>
               PROVE  TokenSigned
    BY DEF TokenSigned
  <2>1. token[1] \in Tokens(silent)
    BY DEF IInv, TextInv
  <2>2. PICK header \in Jsons(silent, HeaderClaimSet), payload \in Jsons(silent, PayloadClaimSet) :
            token[1] = Joined(Joined(Encoded(header), Encoded(payload)),
                              Encoded(Signed(Joined(Encoded(header), Encoded(payload)))))
    BY <2>1 DEF Tokens, Boths
  <2>3. PICK hclaims : header = <<"json", hclaims>> /\ hclaims \subseteq HeaderClaimSet
                       /\ (silent \/ hclaims = HeaderClaimSet)
    BY DEF Jsons
  <2>4. PICK pclaims : payload = <<"json", pclaims>> /\ pclaims \subseteq PayloadClaimSet
                       /\ (silent \/ pclaims = PayloadClaimSet)
    BY DEF Jsons
  <2>5. token[1][2] = Joined(Encoded(header), Encoded(payload))
    BY <2>2 DEF Joined
  <2>6. token[1][2][2][2][2] = hclaims /\ token[1][2][3][2][2] = pclaims
    BY <2>3, <2>4, <2>5 DEF Joined, Encoded
  <2>. QED BY <2>2, <2>3, <2>4, <2>5, <2>6 DEF TokenSigned
<1>. QED BY <1>1, TokenInvariance, PTL

-----------------------------------------------------------------------------
(* base64.c                                                                *)

\* The two tables are inverse to each other, and no character of theirs is the padding.
LEMMA TablesAgree ==
    ASSUME NEW i \in Sextet, NEW table \in {"plain", "url"}
    PROVE  /\ DecodeTable(table, EncodeTable(table, i)) = i
           /\ EncodeTable(table, i) # PADDING_CHAR
<1>1. CASE table = "plain"
  BY <1>1, SMT DEF DecodeTable, EncodeTable, Sextet, PADDING_CHAR, Invalid
<1>2. CASE table = "url"
  BY <1>2, SMT DEF DecodeTable, EncodeTable, Sextet, PADDING_CHAR, Invalid
<1> QED
  BY <1>1, <1>2

\* What is left of a number below 2^24 when six, twelve or eighteen bits are taken off.
LEMMA Quotients ==
    ASSUME NEW a \in Sextet, NEW b \in Sextet, NEW c \in Sextet, NEW d \in Sextet,
           NEW n, n = ((a * 64 + b) * 64 + c) * 64 + d
    PROVE  /\ n % 64 = d
           /\ n \div 64 = (a * 64 + b) * 64 + c
           /\ n \div 4096 = a * 64 + b
           /\ n \div 262144 = a
<1>1. n % 64 = d
  BY SMT DEF Sextet
<1>2. n \div 64 = (a * 64 + b) * 64 + c
  BY SMT DEF Sextet
<1>3. n \div 4096 = a * 64 + b
  BY SMT DEF Sextet
<1>4. n \div 262144 = a
  BY SMT DEF Sextet
<1> QED
  BY <1>1, <1>2, <1>3, <1>4, SMT

\* Six bits of a number of four sextets are one of them.
LEMMA SextetsOfValue ==
    ASSUME NEW a \in Sextet, NEW b \in Sextet, NEW c \in Sextet, NEW d \in Sextet,
           NEW n, n = Value(a, b, c, d)
    PROVE  /\ SextetOf(n, 0) = a
           /\ SextetOf(n, 1) = b
           /\ SextetOf(n, 2) = c
           /\ SextetOf(n, 3) = d
<1>1. /\ n % 64 = d
      /\ n \div 64 = (a * 64 + b) * 64 + c
      /\ n \div 4096 = a * 64 + b
      /\ n \div 262144 = a
  BY Quotients, SMT DEF Value
<1>2. SextetOf(n, 0) = a % 64
  BY <1>1, SMT DEF SextetOf, Shifted
<1>3. SextetOf(n, 1) = (a * 64 + b) % 64
  BY <1>1, SMT DEF SextetOf, Shifted
<1>4. SextetOf(n, 2) = ((a * 64 + b) * 64 + c) % 64
  BY <1>1, SMT DEF SextetOf, Shifted
<1>5. n \in Int
  BY SMT DEF Value, Sextet
<1>6. SextetOf(n, 3) = d
  BY <1>1, <1>5, SMT DEF SextetOf, Shifted
<1>7. a % 64 = a /\ (a * 64 + b) % 64 = b /\ ((a * 64 + b) * 64 + c) % 64 = c
  BY SMT DEF Sextet
<1> QED
  BY <1>2, <1>3, <1>4, <1>6, <1>7, SMT

\* Every number of 24 bits is made of four sextets.
LEMMA HasSextets ==
    ASSUME NEW n \in Nat, n < 16777216
    PROVE  \E a, b, c, d \in Sextet : n = Value(a, b, c, d)
<1>1. PICK p \in Nat, d \in Sextet : p < 262144 /\ n = p * 64 + d
  <2>1. n \div 64 \in Nat /\ n \div 64 < 262144 /\ n % 64 \in Sextet /\ n = 64 * (n \div 64) + (n % 64)
    BY SMT DEF Sextet
  <2> QED
    BY <2>1, SMT
<1>2. PICK q \in Nat, c \in Sextet : q < 4096 /\ p = q * 64 + c
  <2>1. p \div 64 \in Nat /\ p \div 64 < 4096 /\ p % 64 \in Sextet /\ p = 64 * (p \div 64) + (p % 64)
    BY <1>1, SMT DEF Sextet
  <2> QED
    BY <2>1, SMT
<1>3. PICK a \in Sextet, b \in Sextet : q = a * 64 + b
  <2>1. q \div 64 \in Sextet /\ q % 64 \in Sextet /\ q = 64 * (q \div 64) + (q % 64)
    BY <1>2, SMT DEF Sextet
  <2> QED
    BY <2>1, SMT
<1> QED
  BY <1>1, <1>2, <1>3, SMT DEF Value

\* The four sextets of a group make up its bits again.
LEMMA SextetsMakeGroup ==
    ASSUME NEW n \in Nat, n < 16777216
    PROVE  /\ \A place \in 0..3 : SextetOf(n, place) \in Sextet
           /\ Value(SextetOf(n, 0), SextetOf(n, 1), SextetOf(n, 2), SextetOf(n, 3)) = n
<1>1. PICK a \in Sextet, b \in Sextet, c \in Sextet, d \in Sextet : n = Value(a, b, c, d)
  BY HasSextets, SMT
<1>2. SextetOf(n, 0) = a /\ SextetOf(n, 1) = b /\ SextetOf(n, 2) = c /\ SextetOf(n, 3) = d
  BY <1>1, SextetsOfValue, SMT
<1>3. \A place \in 0..3 : place = 0 \/ place = 1 \/ place = 2 \/ place = 3
  BY SMT
<1> QED
  BY <1>1, <1>2, <1>3, SMT

\* The bytes of a group are what it was composed of.
LEMMA GroupHasItsBytes ==
    ASSUME NEW a \in Byte, NEW b \in Byte, NEW c \in Byte
    PROVE  /\ Group(a, b, c) \in Nat /\ Group(a, b, c) < 16777216
           /\ ByteOf(Group(a, b, c), 0) = a
           /\ ByteOf(Group(a, b, c), 1) = b
           /\ ByteOf(Group(a, b, c), 2) = c
<1>1. Group(a, b, c) \in Nat /\ Group(a, b, c) < 16777216
  BY SMT DEF Group, Byte
<1>2. ByteOf(Group(a, b, c), 0) = a
  BY SMT DEF Group, ByteOf, Byte
<1>3. ByteOf(Group(a, b, c), 1) = b
  <2>1. Group(a, b, c) \div 256 = a * 256 + b
    BY SMT DEF Group, Byte
  <2>2. (a * 256 + b) % 256 = b
    BY SMT DEF Byte
  <2> QED
    BY <2>1, <2>2, SMT DEF ByteOf
<1>4. ByteOf(Group(a, b, c), 2) = c
  BY SMT DEF Group, ByteOf, Byte
<1> QED
  BY <1>1, <1>2, <1>3, <1>4, SMT

\* _encode_with_table and _decode_quantum on one group: three bytes become four characters
\* of the alphabet, and these the three bytes again.
THEOREM GroupRoundTrip ==
    ASSUME NEW table \in {"plain", "url"}, NEW a \in Byte, NEW b \in Byte, NEW c \in Byte
    PROVE  LET Char(place) == EncodeTable(table, SextetOf(Group(a, b, c), place))
               value == Value(DecodeTable(table, Char(0)), DecodeTable(table, Char(1)),
                              DecodeTable(table, Char(2)), DecodeTable(table, Char(3)))
           IN  /\ \A place \in 0..3 : Char(place) # PADDING_CHAR
               /\ ByteOf(value, 0) = a /\ ByteOf(value, 1) = b /\ ByteOf(value, 2) = c
<1> DEFINE n == Group(a, b, c)
           Char(place) == EncodeTable(table, SextetOf(n, place))
<1>1. n \in Nat /\ n < 16777216 /\ ByteOf(n, 0) = a /\ ByteOf(n, 1) = b /\ ByteOf(n, 2) = c
  BY GroupHasItsBytes, SMT
<1> HIDE DEF n
<1>2. /\ \A place \in 0..3 : SextetOf(n, place) \in Sextet
      /\ Value(SextetOf(n, 0), SextetOf(n, 1), SextetOf(n, 2), SextetOf(n, 3)) = n
  BY <1>1, SextetsMakeGroup, SMT
<1>3. \A place \in 0..3 : DecodeTable(table, Char(place)) = SextetOf(n, place) /\ Char(place) # PADDING_CHAR
  BY <1>2, TablesAgree
<1>4. 0 \in 0..3 /\ 1 \in 0..3 /\ 2 \in 0..3 /\ 3 \in 0..3
  BY SMT
<1>5. /\ DecodeTable(table, Char(0)) = SextetOf(n, 0) /\ DecodeTable(table, Char(1)) = SextetOf(n, 1)
      /\ DecodeTable(table, Char(2)) = SextetOf(n, 2) /\ DecodeTable(table, Char(3)) = SextetOf(n, 3)
  BY <1>3, <1>4
<1>6. Value(DecodeTable(table, Char(0)), DecodeTable(table, Char(1)),
            DecodeTable(table, Char(2)), DecodeTable(table, Char(3))) = n
  <2> HIDE DEF Char
  <2> QED
    BY <1>2, <1>5
<1> QED
  BY <1>1, <1>3, <1>6 DEF n

-----------------------------------------------------------------------------
(* base64.c, from the first byte to the last.                              *)

Tables == {"plain", "url"}

\* The quantums of n bytes, and how many bytes the last of them lacks.
Quantums(n) == (n \div INPUT_GROUP_SIZE) + (IF n % INPUT_GROUP_SIZE = 0 THEN 0 ELSE 1)
Missing(n) == IF n % INPUT_GROUP_SIZE = 0 THEN 0 ELSE INPUT_GROUP_SIZE - (n % INPUT_GROUP_SIZE)

LEMMA QuantumsOf ==
    ASSUME NEW n \in Nat
    PROVE  /\ Quantums(n) \in Nat /\ Missing(n) \in 0..2
           /\ n = 3 * Quantums(n) - Missing(n)
           /\ Missing(n) # 0 => n % 3 = 3 - Missing(n)
           /\ EncodedLength(n) = 4 * Quantums(n)
<1>1. n \div 3 \in Nat /\ n % 3 \in 0..2 /\ n = 3 * (n \div 3) + (n % 3)
  BY SMT
<1>. QED BY <1>1, SMT DEF Quantums, Missing, EncodedLength, INPUT_GROUP_SIZE, QUANTUM_SIZE

\* What is not between bounds is counted by what is.
LEMMA SameLength ==
    ASSUME NEW m \in Nat, NEW n \in Nat, 1..m = 1..n
    PROVE  m = n
<1>1. m > n => m \in 1..m /\ m \notin 1..n
  BY SMT
<1>2. n > m => n \in 1..n /\ n \notin 1..m
  BY SMT
<1>. QED BY <1>1, <1>2, SMT

LEMMA LengthOfFunction ==
    ASSUME NEW n \in Nat, NEW f, DOMAIN f = 1..n, f = [k \in 1..n |-> f[k]]
    PROVE  Len(f) = n
<1> DEFINE S == {f[k] : k \in 1..n}
<1>1. f \in [1..n -> S]
  OBVIOUS
<1>2. f \in Seq(S)
  <2> HIDE DEF S
  <2>. QED BY <1>1, SeqDef
<1>3. Len(f) \in Nat /\ DOMAIN f = 1..Len(f)
  <2> HIDE DEF S
  <2>. QED BY <1>2, LenProperties
<1>. QED BY <1>3, SameLength

\* The group of bytes a quantum stands for, with zeros for those that are not there.
GroupOf(data, q) == Group(At(data, 3 * q), At(data, 3 * q + 1), At(data, 3 * q + 2))

LEMMA Characters ==
    ASSUME NEW table, NEW data \in Seq(Byte), NEW q \in 0..Quantums(Len(data)) - 1, NEW p \in 0..3
    PROVE  /\ 4 * q + p + 1 \in 1..4 * Quantums(Len(data))
           /\ Encode(table, data)[4 * q + p + 1] =
                 IF q = Quantums(Len(data)) - 1 /\ p > 3 - Missing(Len(data))
                 THEN PADDING_CHAR ELSE EncodeTable(table, SextetOf(GroupOf(data, q), p))
<1> DEFINE L == Len(data)
           k == 4 * q + p + 1
<1>1. L \in Nat
  BY LenProperties
<1>2. /\ Quantums(L) \in Nat /\ Missing(L) \in 0..2 /\ L = 3 * Quantums(L) - Missing(L)
      /\ Missing(L) # 0 => L % 3 = 3 - Missing(L)
      /\ EncodedLength(L) = 4 * Quantums(L)
  BY <1>1, QuantumsOf
<1>3. k \in 1..4 * Quantums(L)
  BY <1>2, SMT
<1>4. (k - 1) \div 4 = q /\ (k - 1) % 4 = p
  BY SMT
<1>5. Pads(data, 3 * q, p) <=> q = Quantums(L) - 1 /\ p > 3 - Missing(L)
  <2>1. Pads(data, 3 * q, p) <=> 3 * q + 3 > L /\ p > L % 3
    BY DEF Pads, INPUT_GROUP_SIZE
  <2>2. CASE Missing(L) = 0
    BY <1>2, <2>1, <2>2, SMT
  <2>3. CASE Missing(L) # 0
    <3>1. L % 3 = 3 - Missing(L)
      BY <1>2, <2>3
    <3>2. 3 * q + 3 > L <=> q = Quantums(L) - 1
      BY <1>2, <2>3, SMT
    <3>. QED BY <2>1, <3>1, <3>2
  <2>. QED BY <2>2, <2>3
<1>6. ((k - 1) \div 4) * 3 = 3 * q
  BY <1>4, SMT
<1> HIDE DEF k
<1>7. Encode(table, data)[k] =
        IF Pads(data, 3 * q, p) THEN PADDING_CHAR ELSE EncodeTable(table, SextetOf(GroupOf(data, q), p))
  BY <1>2, <1>3, <1>4, <1>6 DEF Encode, GroupOf, QUANTUM_SIZE, INPUT_GROUP_SIZE
<1>. QED BY <1>3, <1>5, <1>7 DEF k

LEMMA LengthOfText ==
    ASSUME NEW table, NEW data \in Seq(Byte)
    PROVE  /\ Len(Encode(table, data)) = 4 * Quantums(Len(data))
           /\ DOMAIN Encode(table, data) = 1..4 * Quantums(Len(data))
<1>1. Len(data) \in Nat
  BY LenProperties
<1>2. Quantums(Len(data)) \in Nat /\ EncodedLength(Len(data)) = 4 * Quantums(Len(data))
  BY <1>1, QuantumsOf
<1>3. 4 * Quantums(Len(data)) \in Nat
  BY <1>2, SMT
<1> DEFINE T == Encode(table, data)
<1>4. DOMAIN T = 1..4 * Quantums(Len(data)) /\ T = [k \in 1..4 * Quantums(Len(data)) |-> T[k]]
  BY <1>2 DEF Encode
<1> HIDE DEF T
<1>5. Len(T) = 4 * Quantums(Len(data))
  BY <1>3, <1>4, LengthOfFunction
<1>. QED BY <1>4, <1>5 DEF T

\* A byte that is not there leaves the six bits at its end zero, and those before it.
LEMMA ZeroSextets ==
    ASSUME NEW a \in Byte, NEW b \in Byte
    PROVE  /\ SextetOf(Group(a, b, 0), 3) = 0
           /\ SextetOf(Group(a, 0, 0), 3) = 0 /\ SextetOf(Group(a, 0, 0), 2) = 0
<1>1. Group(a, b, 0) = 64 * (a * 1024 + b * 4) /\ Group(a, 0, 0) = 64 * (a * 1024)
      /\ Group(a, 0, 0) \div 64 = 64 * (a * 16)
  BY SMT DEF Group, Byte
<1>2. \A m \in Nat : (64 * m) % 64 = 0
  BY SMT
<1>3. a * 1024 + b * 4 \in Nat /\ a * 1024 \in Nat /\ a * 16 \in Nat
  BY SMT DEF Byte
<1>4. Group(a, b, 0) \div 1 = Group(a, b, 0) /\ Group(a, 0, 0) \div 1 = Group(a, 0, 0)
  BY SMT DEF Group, Byte
<1>. QED BY <1>1, <1>2, <1>3, <1>4, SMT DEF SextetOf, Shifted

\* The bytes of a group are bytes, and those of the last group that are missing are zero.
LEMMA BytesOfGroup ==
    ASSUME NEW data \in Seq(Byte), NEW q \in 0..Quantums(Len(data)) - 1
    PROVE  /\ At(data, 3 * q) \in Byte /\ At(data, 3 * q + 1) \in Byte /\ At(data, 3 * q + 2) \in Byte
           /\ q = Quantums(Len(data)) - 1 /\ Missing(Len(data)) > 0 => At(data, 3 * q + 2) = 0
           /\ q = Quantums(Len(data)) - 1 /\ Missing(Len(data)) > 1 => At(data, 3 * q + 1) = 0
<1>1. Len(data) \in Nat
  BY LenProperties
<1>2. \A i \in Nat : At(data, i) \in Byte
  <2>1. SUFFICES ASSUME NEW i \in Nat PROVE At(data, i) \in Byte
    OBVIOUS
  <2>2. CASE i < Len(data)
    <3>1. i + 1 \in 1..Len(data)
      BY <1>1, <2>2, SMT
    <3>2. data[i + 1] \in Byte
      BY <3>1, ElementOfSeq
    <3>. QED BY <2>2, <3>2 DEF At
  <2>3. CASE ~(i < Len(data))
    <3>1. 0 \in Byte
      BY SMT DEF Byte
    <3>. QED BY <2>3, <3>1 DEF At
  <2>. QED BY <2>2, <2>3
<1>3. /\ Quantums(Len(data)) \in Nat /\ Missing(Len(data)) \in 0..2
      /\ Len(data) = 3 * Quantums(Len(data)) - Missing(Len(data))
  BY <1>1, QuantumsOf
<1>4. q = Quantums(Len(data)) - 1 /\ Missing(Len(data)) > 0 => ~(3 * q + 2 < Len(data))
  BY <1>3, SMT
<1>5. q = Quantums(Len(data)) - 1 /\ Missing(Len(data)) > 1 => ~(3 * q + 1 < Len(data))
  BY <1>3, SMT
<1>6. 3 * q \in Nat /\ 3 * q + 1 \in Nat /\ 3 * q + 2 \in Nat
  BY SMT
<1>. QED BY <1>2, <1>4, <1>5, <1>6 DEF At

\* A character, or the padding in its place, is read back as the six bits it stands for.
LEMMA SextetsReadBack ==
    ASSUME NEW table \in Tables, NEW data \in Seq(Byte),
           NEW q \in 0..Quantums(Len(data)) - 1, NEW p \in 0..3
    PROVE  /\ SextetAt(table, Encode(table, data), 4 * q + p + 1) = SextetOf(GroupOf(data, q), p)
           /\ SextetOf(GroupOf(data, q), p) \in Sextet
           /\ Encode(table, data)[4 * q + p + 1] = PADDING_CHAR
                 <=> q = Quantums(Len(data)) - 1 /\ p > 3 - Missing(Len(data))
<1> DEFINE last == q = Quantums(Len(data)) - 1 /\ p > 3 - Missing(Len(data))
           a == At(data, 3 * q)
           b == At(data, 3 * q + 1)
           c == At(data, 3 * q + 2)
<1>1. a \in Byte /\ b \in Byte /\ c \in Byte
  BY BytesOfGroup
<1>2. GroupOf(data, q) \in Nat /\ GroupOf(data, q) < 16777216
  BY <1>1, GroupHasItsBytes, SMT DEF GroupOf
<1>3. SextetOf(GroupOf(data, q), p) \in Sextet
  BY <1>2, SextetsMakeGroup, SMT
<1>4. Encode(table, data)[4 * q + p + 1] =
        IF last THEN PADDING_CHAR ELSE EncodeTable(table, SextetOf(GroupOf(data, q), p))
  BY Characters
<1>5. CASE last
  <2>1. Missing(Len(data)) \in 0..2
    BY LenProperties, QuantumsOf
  <2>2. c = 0 /\ (p = 2 => b = 0) /\ p \in {2, 3}
    <3>1. Missing(Len(data)) > 0 /\ (p = 2 => Missing(Len(data)) > 1) /\ p \in {2, 3}
      BY <1>5, <2>1, SMT
    <3>. QED BY <1>5, <3>1, BytesOfGroup
  <2>3. SextetOf(GroupOf(data, q), p) = 0
    BY <1>1, <2>2, ZeroSextets DEF GroupOf
  <2>4. SextetAt(table, Encode(table, data), 4 * q + p + 1) = 0
    BY <1>4, <1>5 DEF SextetAt
  <2>. QED BY <1>3, <1>4, <1>5, <2>3, <2>4
<1>6. CASE ~last
  <2> DEFINE s == SextetOf(GroupOf(data, q), p)
  <2>1. Encode(table, data)[4 * q + p + 1] = EncodeTable(table, s)
    BY <1>4, <1>6
  <2>2. DecodeTable(table, EncodeTable(table, s)) = s /\ EncodeTable(table, s) # PADDING_CHAR
    BY <1>3, TablesAgree DEF Tables
  <2>. QED BY <1>3, <1>6, <2>1, <2>2 DEF SextetAt
<1>. QED BY <1>5, <1>6

\* Every place of a text is one of a quantum.
LEMMA PlaceInQuantum ==
    ASSUME NEW Q \in Nat, NEW k \in 1..4 * Q
    PROVE  \E q \in 0..Q - 1, p \in 0..3 : k = 4 * q + p + 1
<1>1. (k - 1) \div 4 \in 0..Q - 1 /\ (k - 1) % 4 \in 0..3 /\ k = 4 * ((k - 1) \div 4) + ((k - 1) % 4) + 1
  BY SMT
<1>. QED BY <1>1

\* The number of paddings is the one that the loop of _decode_with_table ends with.
LEMMA PaddingIs ==
    ASSUME NEW text, Len(text) \in Nat, NEW n \in 0..Len(text),
           \A k \in 0..n - 1 : Len(text) - k > 1 /\ text[Len(text) - k] = PADDING_CHAR,
           Len(text) - n > 1 => text[Len(text) - n] # PADDING_CHAR
    PROVE  PaddingCount(text) = n
<1> DEFINE Ends(m) == /\ \A k \in 0..m - 1 : Len(text) - k > 1 /\ text[Len(text) - k] = PADDING_CHAR
                      /\ Len(text) - m > 1 => text[Len(text) - m] # PADDING_CHAR
<1>1. \A m \in 0..Len(text) : Ends(m) => m = n
  <2>1. SUFFICES ASSUME NEW m \in 0..Len(text), Ends(m), m # n PROVE FALSE
    OBVIOUS
  <2>2. CASE m < n
    <3>1. m \in 0..n - 1
      BY <2>2, SMT
    <3>. QED BY <2>1, <3>1
  <2>3. CASE n < m
    <3>1. n \in 0..m - 1
      BY <2>3, SMT
    <3>. QED BY <2>1, <3>1
  <2>. QED BY <2>1, <2>2, <2>3, SMT
<1>2. Ends(n)
  OBVIOUS
<1>3. PaddingCount(text) = CHOOSE m \in 0..Len(text) : Ends(m)
  BY DEF PaddingCount
<1> HIDE DEF Ends
<1>. QED BY <1>1, <1>2, <1>3

\* What is encoded is padded as the decoder expects it, and as much as bytes are missing.
LEMMA EncodedIsPadded ==
    ASSUME NEW table \in Tables, NEW data \in Seq(Byte), data # <<>>
    PROVE  /\ PaddingCount(Encode(table, data)) = Missing(Len(data))
           /\ IsDecodable(table, Encode(table, data))
<1> DEFINE T == Encode(table, data)
           L == Len(data)
           Q == Quantums(L)
           M == Missing(L)
<1>1. L \in Nat /\ L # 0
  BY EmptySeq, LenProperties
<1>2. Q \in Nat /\ M \in 0..2 /\ L = 3 * Q - M
  BY <1>1, QuantumsOf
<1>3. Q > 0
  BY <1>1, <1>2, SMT
<1>4. Len(T) = 4 * Q /\ DOMAIN T = 1..4 * Q
  BY LengthOfText
<1>5. \A q \in 0..Q - 1, p \in 0..3 :
         /\ SextetAt(table, T, 4 * q + p + 1) \in Sextet
         /\ T[4 * q + p + 1] = PADDING_CHAR <=> (q = Q - 1 /\ p > 3 - M)
  <2>1. SUFFICES ASSUME NEW q \in 0..Q - 1, NEW p \in 0..3
                 PROVE  /\ SextetAt(table, T, 4 * q + p + 1) \in Sextet
                        /\ T[4 * q + p + 1] = PADDING_CHAR <=> (q = Q - 1 /\ p > 3 - M)
    OBVIOUS
  <2>2. /\ SextetAt(table, T, 4 * q + p + 1) = SextetOf(GroupOf(data, q), p)
        /\ SextetOf(GroupOf(data, q), p) \in Sextet
        /\ T[4 * q + p + 1] = PADDING_CHAR <=> (q = Q - 1 /\ p > 3 - M)
    BY SextetsReadBack
  <2>. QED BY <2>2
<1> HIDE DEF T, L, Q, M
<1>6. \A k \in 1..4 * Q : /\ SextetAt(table, T, k) \in Sextet
                          /\ T[k] = PADDING_CHAR <=> k > 4 * Q - M
  <2>1. SUFFICES ASSUME NEW k \in 1..4 * Q
                 PROVE  SextetAt(table, T, k) \in Sextet /\ (T[k] = PADDING_CHAR <=> k > 4 * Q - M)
    OBVIOUS
  <2>2. PICK q \in 0..Q - 1, p \in 0..3 : k = 4 * q + p + 1
    BY <1>2, PlaceInQuantum
  <2>3. (q = Q - 1 /\ p > 3 - M) <=> 4 * q + p + 1 > 4 * Q - M
    BY <1>2, SMT
  <2>. QED BY <1>5, <2>2, <2>3
<1>7. \A k \in 0..M - 1 : Len(T) - k > 1 /\ T[Len(T) - k] = PADDING_CHAR
  <2>1. \A k \in 0..M - 1 : 4 * Q - k \in 1..4 * Q /\ 4 * Q - k > 1 /\ 4 * Q - k > 4 * Q - M
    BY <1>2, <1>3, SMT
  <2>. QED BY <1>4, <1>6, <2>1
<1>8. T[Len(T) - M] # PADDING_CHAR
  <2>1. 4 * Q - M \in 1..4 * Q /\ ~(4 * Q - M > 4 * Q - M)
    BY <1>2, <1>3, SMT
  <2>. QED BY <1>4, <1>6, <2>1
<1>9. Len(T) \in Nat /\ M \in 0..Len(T)
  BY <1>2, <1>3, <1>4, SMT
<1>10. PaddingCount(T) = M
  BY <1>7, <1>8, <1>9, PaddingIs
<1>11. WellPadded(T)
  <2>1. \A k \in 1..Len(T) - (1 + M) : k \in 1..4 * Q /\ ~(k > 4 * Q - M)
    BY <1>2, <1>4, SMT
  <2>2. \A k \in 1..Len(T) - (1 + PaddingCount(T)) : T[k] # PADDING_CHAR
    BY <1>6, <1>10, <2>1
  <2>3. M <= 2
    BY <1>2, SMT
  <2>. QED BY <1>10, <2>2, <2>3 DEF WellPadded
<1>12. Len(T) > 0 /\ Len(T) % 4 = 0
  BY <1>2, <1>3, <1>4, SMT
<1>13. \A k \in DOMAIN T : SextetAt(table, T, k) # Invalid
  <2>1. Invalid \notin Sextet
    BY SMT DEF Sextet, Invalid
  <2>. QED BY <1>4, <1>6, <2>1
<1>14. IsDecodable(table, T)
  BY <1>11, <1>12, <1>13 DEF IsDecodable, QUANTUM_SIZE
<1>. QED BY <1>10, <1>14 DEF T, L, M

\* base64_encode and base64_decode, base64_url_encode and base64_url_decode: data of any
\* length is decoded from what it was encoded to, whether its last group is full or not.
THEOREM WholeRoundTrip ==
    ASSUME NEW table \in Tables, NEW data \in Seq(Byte)
    PROVE  Decode(table, Encode(table, data)) = data
<1> DEFINE T == Encode(table, data)
           L == Len(data)
           Q == Quantums(L)
           M == Missing(L)
<1>1. L \in Nat /\ data = [n \in 1..L |-> data[n]]
  BY LenProperties
<1>2. Q \in Nat /\ M \in 0..2 /\ L = 3 * Q - M
  BY <1>1, QuantumsOf
<1>3. Len(T) = 4 * Q
  BY LengthOfText
<1>4. CASE data = <<>>
  <2>1. L = 0
    BY <1>4, EmptySeq
  <2>2. Q = 0
    BY <1>2, <2>1, SMT
  <2>3. ~IsDecodable(table, T)
    BY <1>3, <2>2, SMT DEF IsDecodable
  <2>. QED BY <1>4, <2>3 DEF Decode
<1>5. CASE data # <<>>
  <2>1. PaddingCount(T) = M /\ IsDecodable(table, T)
    BY <1>5, EncodedIsPadded
  <2>2. DecodedSize(T) = L
    <3>1. (4 * Q) \div 4 = Q
      BY <1>2, SMT
    <3>. QED BY <1>2, <1>3, <2>1, <3>1, SMT DEF DecodedSize, QUANTUM_SIZE, INPUT_GROUP_SIZE
  <2> DEFINE Read(q) == Value(SextetAt(table, T, 4 * q + 1), SextetAt(table, T, 4 * q + 2),
                              SextetAt(table, T, 4 * q + 3), SextetAt(table, T, 4 * q + 4))
  <2>3. \A q \in 0..Q - 1 : /\ ByteOf(Read(q), 0) = At(data, 3 * q)
                            /\ ByteOf(Read(q), 1) = At(data, 3 * q + 1)
                            /\ ByteOf(Read(q), 2) = At(data, 3 * q + 2)
    <3>1. SUFFICES ASSUME NEW q \in 0..Q - 1
                   PROVE  /\ ByteOf(Read(q), 0) = At(data, 3 * q)
                          /\ ByteOf(Read(q), 1) = At(data, 3 * q + 1)
                          /\ ByteOf(Read(q), 2) = At(data, 3 * q + 2)
      OBVIOUS
    <3> DEFINE g == GroupOf(data, q)
    <3>2. \A p \in 0..3 : SextetAt(table, T, 4 * q + p + 1) = SextetOf(g, p)
      BY SextetsReadBack
    <3>3. /\ SextetAt(table, T, 4 * q + 1) = SextetOf(g, 0)
          /\ SextetAt(table, T, 4 * q + 2) = SextetOf(g, 1)
          /\ SextetAt(table, T, 4 * q + 3) = SextetOf(g, 2)
          /\ SextetAt(table, T, 4 * q + 4) = SextetOf(g, 3)
      <4>1. /\ 4 * q + 0 + 1 = 4 * q + 1 /\ 4 * q + 1 + 1 = 4 * q + 2
            /\ 4 * q + 2 + 1 = 4 * q + 3 /\ 4 * q + 3 + 1 = 4 * q + 4
        BY SMT
      <4>2. 0 \in 0..3 /\ 1 \in 0..3 /\ 2 \in 0..3 /\ 3 \in 0..3
        BY SMT
      <4>. QED BY <3>2, <4>1, <4>2
    <3>4. /\ g \in Nat /\ g < 16777216
          /\ ByteOf(g, 0) = At(data, 3 * q)
          /\ ByteOf(g, 1) = At(data, 3 * q + 1)
          /\ ByteOf(g, 2) = At(data, 3 * q + 2)
      BY BytesOfGroup, GroupHasItsBytes, SMT DEF GroupOf
    <3>5. Value(SextetOf(g, 0), SextetOf(g, 1), SextetOf(g, 2), SextetOf(g, 3)) = g
      BY <3>4, SextetsMakeGroup, SMT
    <3>6. /\ ByteOf(g, 0) = At(data, 3 * q)
          /\ ByteOf(g, 1) = At(data, 3 * q + 1)
          /\ ByteOf(g, 2) = At(data, 3 * q + 2)
      BY <3>4, SMT
    <3>. QED BY <3>3, <3>5, <3>6
  <2>4. \A n \in 1..L : ByteOf(Read((n - 1) \div 3), (n - 1) % 3) = data[n]
    <3>1. SUFFICES ASSUME NEW n \in 1..L
                   PROVE  ByteOf(Read((n - 1) \div 3), (n - 1) % 3) = data[n]
      OBVIOUS
    <3> DEFINE q == (n - 1) \div 3
    <3>2. q \in 0..Q - 1 /\ (n - 1) % 3 \in {0, 1, 2} /\ n - 1 = 3 * q + ((n - 1) % 3)
      BY <1>1, <1>2, SMT
    <3> HIDE DEF q, Read
    <3>3. \A p \in {0, 1, 2} : ByteOf(Read(q), p) = At(data, 3 * q + p)
      <4>1. 3 * q + 0 = 3 * q
        BY <3>2, SMT
      <4>. QED BY <2>3, <3>2, <4>1
    <3>4. ByteOf(Read(q), (n - 1) % 3) = At(data, n - 1)
      BY <3>2, <3>3
    <3>5. At(data, n - 1) = data[n]
      <4>1. n - 1 < Len(data) /\ (n - 1) + 1 = n
        BY <1>1, SMT
      <4>. QED BY <4>1 DEF At
    <3>. QED BY <3>4, <3>5 DEF q
  <2>5. Decode(table, T) = [n \in 1..L |-> ByteOf(Read((n - 1) \div 3), (n - 1) % 3)]
    BY <2>1, <2>2 DEF Decode, INPUT_GROUP_SIZE
  <2> HIDE DEF Read, T
  <2>6. Decode(table, T) = [n \in 1..L |-> data[n]]
    BY <2>4, <2>5
  <2>. QED BY <1>1, <2>6 DEF T
<1>. QED BY <1>4, <1>5

\* What PaddingCount returns for a text that is accepted.
LEMMA PaddingFound ==
    ASSUME NEW text, Len(text) \in Nat, Len(text) > 0
    PROVE  /\ PaddingCount(text) \in 0..Len(text) - 1
           /\ \A k \in 0..PaddingCount(text) - 1 : text[Len(text) - k] = PADDING_CHAR
           /\ Len(text) - PaddingCount(text) > 1 => text[Len(text) - PaddingCount(text)] # PADDING_CHAR
<1> DEFINE Stops == {m \in Nat : m < Len(text) => ~(Len(text) - m > 1 /\ text[Len(text) - m] = PADDING_CHAR)}
           Ends(m) == /\ \A k \in 0..m - 1 : Len(text) - k > 1 /\ text[Len(text) - k] = PADDING_CHAR
                      /\ Len(text) - m > 1 => text[Len(text) - m] # PADDING_CHAR
<1>1. Len(text) - 1 \in Stops
  <2>1. ~(Len(text) - (Len(text) - 1) > 1) /\ Len(text) - 1 \in Nat
    BY SMT
  <2>. QED BY <2>1
<1>2. PICK n \in Stops : \A m \in Stops : n <= m
  <2> HIDE DEF Stops
  <2>1. Stops \subseteq Nat /\ Stops # {}
    BY <1>1 DEF Stops
  <2>. QED BY <2>1, Least
<1>3. n \in 0..Len(text) - 1
  BY <1>1, <1>2, SMT
<1>4. \A k \in 0..n - 1 : k \in Nat /\ k \notin Stops
  <2> HIDE DEF Stops
  <2>1. n \in Nat
    BY <1>3
  <2>2. \A k \in 0..n - 1 : k \in Nat /\ ~(n <= k)
    BY <2>1, SMT
  <2>. QED BY <1>2, <2>2
<1>5. Ends(n)
  <2>1. n < Len(text)
    BY <1>3
  <2>. QED BY <1>2, <1>4, <2>1
<1>6. n \in 0..Len(text)
  BY <1>3
<1>7. PaddingCount(text) = n
  BY <1>5, <1>6, PaddingIs
<1>. QED BY <1>3, <1>5, <1>7

\* A text that is accepted is padded at its end and nowhere else.
LEMMA PaddedAtEnd ==
    ASSUME NEW table, NEW text \in Seq(Nat), IsDecodable(table, text)
    PROVE  /\ Len(text) \in Nat /\ Len(text) \div 4 \in Nat \ {0} /\ Len(text) = 4 * (Len(text) \div 4)
           /\ PaddingCount(text) \in 0..2
           /\ \A k \in 1..Len(text) : text[k] = PADDING_CHAR <=> k > Len(text) - PaddingCount(text)
<1> DEFINE Q == Len(text) \div 4
           P == PaddingCount(text)
<1>1. Len(text) \in Nat /\ Len(text) > 0 /\ Len(text) = 4 * Q /\ Q \in Nat /\ Q > 0
  <2>1. Len(text) \in Nat
    BY LenProperties
  <2>2. Len(text) > 0 /\ Len(text) % 4 = 0
    BY DEF IsDecodable, QUANTUM_SIZE
  <2>. QED BY <2>1, <2>2, SMT
<1>2. /\ P \in 0..2
      /\ \A k \in 1..4 * Q : text[k] = PADDING_CHAR <=> k > 4 * Q - P
  <2>1. P \in 0..2 /\ \A k \in 1..Len(text) - (1 + P) : text[k] # PADDING_CHAR
    <3>1. P \in Nat /\ P <= 2
      BY <1>1, PaddingFound DEF IsDecodable, WellPadded
    <3>. QED BY <3>1 DEF IsDecodable, WellPadded
  <2>2. /\ \A k \in 0..P - 1 : text[Len(text) - k] = PADDING_CHAR
        /\ Len(text) - P > 1 => text[Len(text) - P] # PADDING_CHAR
    BY <1>1, PaddingFound
  <2> HIDE DEF P, Q
  <2>3. ASSUME NEW k \in 1..4 * Q
        PROVE  text[k] = PADDING_CHAR <=> k > 4 * Q - P
    <3>1. CASE k > 4 * Q - P
      <4>1. Len(text) - k \in 0..P - 1 /\ Len(text) - (Len(text) - k) = k
        BY <1>1, <2>1, <3>1, SMT
      <4>. QED BY <2>2, <3>1, <4>1
    <3>2. CASE k = 4 * Q - P
      <4>1. Len(text) - P > 1 /\ Len(text) - P = k
        BY <1>1, <2>1, <3>2, SMT
      <4>2. ~(k > 4 * Q - P)
        BY <1>1, <2>1, <3>2, SMT
      <4>. QED BY <2>2, <4>1, <4>2
    <3>3. CASE k < 4 * Q - P
      <4>1. k \in 1..Len(text) - (1 + P) /\ ~(k > 4 * Q - P)
        BY <1>1, <2>1, <3>3, SMT
      <4>. QED BY <2>1, <4>1
    <3>4. k > 4 * Q - P \/ k = 4 * Q - P \/ k < 4 * Q - P
      BY <1>1, <2>1, SMT
    <3>. QED BY <3>1, <3>2, <3>3, <3>4
  <2>. QED BY <2>1, <2>3
<1> HIDE DEF P, Q
<1>3. \A k \in 1..Len(text) : text[k] = PADDING_CHAR <=> k > Len(text) - P
  BY <1>1, <1>2
<1>. QED BY <1>1, <1>2, <1>3 DEF P, Q

\* _decode_with_table, _decode_quantum: the bytes that are written for a text that is
\* accepted are those of the buffer allocated for them, each of them and no other.
THEOREM DecodedFillsBuffer ==
    ASSUME NEW table, NEW text \in Seq(Nat), IsDecodable(table, text)
    PROVE  Writes(text) = 0..DecodedSize(text) - 1
<1> DEFINE Q == Len(text) \div 4
           P == PaddingCount(text)
<1>1. Len(text) \in Nat /\ Len(text) > 0 /\ Len(text) = 4 * Q /\ Q \in Nat /\ Q > 0
  BY PaddedAtEnd
<1>2. P \in 0..2 /\ \A k \in 1..4 * Q : text[k] = PADDING_CHAR <=> k > 4 * Q - P
  BY <1>1, PaddedAtEnd
<1> HIDE DEF P, Q
<1>3. \A q \in 0..Q - 1 : QuantumPadding(text, q) = IF q = Q - 1 THEN P ELSE 0
  <2>1. SUFFICES ASSUME NEW q \in 0..Q - 1
                 PROVE  QuantumPadding(text, q) = IF q = Q - 1 THEN P ELSE 0
    OBVIOUS
  <2> DEFINE S == {k \in 1..4 : text[4 * q + k] = PADDING_CHAR}
             first == IF q = Q - 1 THEN 5 - P ELSE 5
  <2>2. QuantumPadding(text, q) = Cardinality(S)
    BY DEF QuantumPadding, QUANTUM_SIZE
  <2>3. \A k \in 1..4 : text[4 * q + k] = PADDING_CHAR <=> k >= first
    <3>1. SUFFICES ASSUME NEW k \in 1..4 PROVE text[4 * q + k] = PADDING_CHAR <=> k >= first
      OBVIOUS
    <3>2. 4 * q + k \in 1..4 * Q
      BY <1>1, SMT
    <3>3. 4 * q + k > 4 * Q - P <=> k >= first
      BY <1>1, <1>2, SMT
    <3>. QED BY <1>2, <3>2, <3>3
  <2>4. S = first..4
    <3> HIDE DEF S
    <3>1. first \in 1..5
      BY <1>2, SMT
    <3>2. \A k : k \in S <=> k \in 1..4 /\ k >= first
      <4> HIDE DEF first
      <4>. QED BY <2>3 DEF S
    <3>3. \A k : k \in first..4 <=> k \in 1..4 /\ k >= first
      <4> HIDE DEF first
      <4>. QED BY <3>1, SMT
    <3>. QED BY <3>2, <3>3
  <2>5. Cardinality(first..4) = IF first > 4 THEN 0 ELSE 4 - first + 1
    <3>1. first \in Int /\ 4 \in Int
      BY <1>2, SMT
    <3>. QED BY <3>1, FS_Interval
  <2>6. (IF first > 4 THEN 0 ELSE 4 - first + 1) = IF q = Q - 1 THEN P ELSE 0
    BY <1>2, SMT
  <2> HIDE DEF S, first
  <2>. QED BY <2>2, <2>4, <2>5, <2>6
<1>4. DecodedSize(text) = 3 * Q - P
  BY <1>1, SMT DEF DecodedSize, QUANTUM_SIZE, INPUT_GROUP_SIZE, P, Q
<1>5. Writes(text) =
        UNION {{3 * q + place : place \in 0..(3 - QuantumPadding(text, q)) - 1} : q \in 0..Q - 1}
  BY DEF Writes, QUANTUM_SIZE, INPUT_GROUP_SIZE, Q
<1>6. \A n \in 0..(3 * Q - P) - 1 : n \in Writes(text)
  <2>1. SUFFICES ASSUME NEW n \in 0..(3 * Q - P) - 1 PROVE n \in Writes(text)
    OBVIOUS
  <2>2. /\ n \div 3 \in 0..Q - 1 /\ n = 3 * (n \div 3) + (n % 3) /\ n % 3 \in 0..2
        /\ n \div 3 = Q - 1 => n % 3 \in 0..(3 - P) - 1
    BY <1>1, <1>2, SMT
  <2>3. n % 3 \in 0..(3 - QuantumPadding(text, n \div 3)) - 1
    <3>1. QuantumPadding(text, n \div 3) = IF n \div 3 = Q - 1 THEN P ELSE 0
      BY <1>3, <2>2
    <3>2. (3 - 0) - 1 = 2
      BY SMT
    <3>. QED BY <2>2, <3>1, <3>2
  <2>. QED BY <1>5, <2>2, <2>3
<1>7. \A n \in Writes(text) : n \in 0..(3 * Q - P) - 1
  <2>1. SUFFICES ASSUME NEW q \in 0..Q - 1, NEW place \in 0..(3 - QuantumPadding(text, q)) - 1
                 PROVE  3 * q + place \in 0..(3 * Q - P) - 1
    BY <1>5
  <2>2. QuantumPadding(text, q) = IF q = Q - 1 THEN P ELSE 0
    BY <1>3
  <2>. QED BY <1>1, <1>2, <2>2, SMT
<1>. QED BY <1>4, <1>6, <1>7

-----------------------------------------------------------------------------
(* The searches of string_util.c, by what each character adds to a match.   *)

\* What is matched after n characters, from what was matched before the last of them.
MatchedAfter(g, source, target, ignoreCase, n) ==
    IF n = 0 THEN 0
    ELSE IF g[n - 1] = Len(target) THEN Len(target)
    ELSE IF Same(source[n], target[g[n - 1] + 1], ignoreCase) THEN g[n - 1] + 1
    ELSE 0

IsStates(g, source, target, ignoreCase, length) ==
    g = [n \in 0..length |-> MatchedAfter(g, source, target, ignoreCase, n)]

LEMMA StatesExist ==
    ASSUME NEW source, NEW target, NEW ignoreCase, NEW length \in Nat
    PROVE  \E g : IsStates(g, source, target, ignoreCase, length)
<1> DEFINE Entry(g, n) == MatchedAfter(g, source, target, ignoreCase, n)
           T == {d \in Nat : \E g : IsStates(g, source, target, ignoreCase, d)}
<1>1. 0 \in T
  <2> DEFINE g == [k \in 0..0 |-> 0]
  <2>1. IsStates(g, source, target, ignoreCase, 0)
    BY DEF IsStates, MatchedAfter
  <2>. QED BY <2>1
<1>2. ASSUME NEW d \in Nat, d \in T
      PROVE  d + 1 \in T
  <2>1. PICK h : IsStates(h, source, target, ignoreCase, d)
    BY <1>2
  <2> DEFINE g == [k \in 0..(d + 1) |-> Entry(h, k)]
  <2>2. h = [k \in 0..d |-> Entry(h, k)]
    BY <2>1 DEF IsStates
  <2>3. \A k \in 0..d : h[k] = Entry(h, k)
    <3> HIDE DEF Entry
    <3>. QED BY <2>2
  <2>4. \A k \in 0..d : g[k] = h[k]
    <3>1. \A k \in 0..d : k \in 0..(d + 1)
      OBVIOUS
    <3> HIDE DEF Entry
    <3>. QED BY <2>3, <3>1
  <2>5. \A k \in 0..(d + 1) : Entry(g, k) = Entry(h, k)
    <3>1. \A k \in 0..(d + 1) : k # 0 => k - 1 \in 0..d
      OBVIOUS
    <3> HIDE DEF g
    <3>. QED BY <2>4, <3>1 DEF MatchedAfter
  <2>6. g = [k \in 0..(d + 1) |-> Entry(g, k)]
    <3> HIDE DEF Entry
    <3>. QED BY <2>5
  <2>7. IsStates(g, source, target, ignoreCase, d + 1)
    BY <2>6 DEF IsStates
  <2>. QED BY <2>7
<1>3. Nat \subseteq T
  <2> HIDE DEF T
  <2>. QED BY <1>1, <1>2, Induction
<1>. QED BY <1>3

LEMMA StatesUnfold ==
    ASSUME NEW source, NEW target, NEW ignoreCase, Len(source) \in Nat
    PROVE  /\ DOMAIN States(source, target, ignoreCase) = 0..Len(source)
           /\ \A n \in 0..Len(source) :
                 States(source, target, ignoreCase)[n]
                     = MatchedAfter(States(source, target, ignoreCase), source, target, ignoreCase, n)
<1> DEFINE g == CHOOSE h : IsStates(h, source, target, ignoreCase, Len(source))
<1>1. States(source, target, ignoreCase) = g
  BY DEF States, IsStates, MatchedAfter, AfterMismatch
<1>2. IsStates(g, source, target, ignoreCase, Len(source))
  BY StatesExist
<1> HIDE DEF g
<1>3. DOMAIN g = 0..Len(source)
  BY <1>2 DEF IsStates
<1>4. \A n \in 0..Len(source) : g[n] = MatchedAfter(g, source, target, ignoreCase, n)
  BY <1>2 DEF IsStates
<1>. QED BY <1>1, <1>3, <1>4

\* The place of a target in a source, and that it is there.
MatchesAt(source, target, ignoreCase, place) ==
    /\ place + Len(target) <= Len(source)
    /\ \A k \in DOMAIN target : Same(source[place + k], target[k], ignoreCase)

\* Before the match is full, it is one with the characters just read; and it is full with the
\* characters just read when it has become so.
LEMMA MatchedIsThere ==
    ASSUME NEW source \in Seq(Chars), NEW target \in Seq(Chars), NEW ignoreCase
    PROVE  LET state == States(source, target, ignoreCase)
           IN  \A n \in 0..Len(source) :
                  /\ state[n] \in 0..Len(target)
                  /\ state[n] # Len(target) \/ (n > 0 /\ state[n - 1] # Len(target)) =>
                        /\ state[n] <= n
                        /\ \A j \in 1..state[n] : Same(source[n - state[n] + j], target[j], ignoreCase)
<1> DEFINE state == States(source, target, ignoreCase)
           Inv(n) == /\ state[n] \in 0..Len(target)
                     /\ state[n] # Len(target) \/ (n > 0 /\ state[n - 1] # Len(target)) =>
                        /\ state[n] <= n
                        /\ \A j \in 1..state[n] : Same(source[n - state[n] + j], target[j], ignoreCase)
           T == {n \in Nat : n <= Len(source) => Inv(n)}
<1>1. Len(source) \in Nat /\ Len(target) \in Nat
  BY LenProperties
<1>2. \A n \in 0..Len(source) : state[n] = MatchedAfter(state, source, target, ignoreCase, n)
  BY <1>1, StatesUnfold
<1> HIDE DEF state
<1>3. 0 \in T
  <2>1. state[0] = 0
    BY <1>1, <1>2 DEF MatchedAfter
  <2>. QED BY <1>1, <2>1
<1>4. ASSUME NEW m \in Nat, m \in T
      PROVE  m + 1 \in T
  <2>1. SUFFICES ASSUME m + 1 <= Len(source) PROVE Inv(m + 1)
    OBVIOUS
  <2>2. m \in 0..Len(source) /\ m + 1 \in 0..Len(source) /\ m + 1 # 0 /\ (m + 1) - 1 = m
    BY <1>1, <2>1, SMT
  <2>3. Inv(m)
    BY <1>4, <2>2
  <2>4. state[m + 1] = MatchedAfter(state, source, target, ignoreCase, m + 1)
    BY <1>2, <2>2
  <2>5. CASE state[m] = Len(target)
    <3>1. state[m + 1] = Len(target)
      BY <2>2, <2>4, <2>5 DEF MatchedAfter
    <3>. QED BY <1>1, <2>2, <2>5, <3>1
  <2>6. CASE state[m] # Len(target) /\ Same(source[m + 1], target[state[m] + 1], ignoreCase)
    <3>1. state[m + 1] = state[m] + 1
      BY <2>2, <2>4, <2>6 DEF MatchedAfter
    <3>2. /\ state[m] \in 0..Len(target) - 1 /\ state[m] <= m
          /\ \A j \in 1..state[m] : Same(source[m - state[m] + j], target[j], ignoreCase)
      BY <1>1, <2>3, <2>6, SMT
    <3>3. ASSUME NEW j \in 1..state[m + 1]
          PROVE  Same(source[(m + 1) - state[m + 1] + j], target[j], ignoreCase)
      <4>9. state[m] \in Nat /\ j \in Int
        BY <1>1, <3>1, <3>2
      <4>1. (m + 1) - state[m + 1] + j = m - state[m] + j
        <5>1. \A x \in Nat, i \in Int : (m + 1) - (x + 1) + i = m - x + i
          OBVIOUS
        <5>. QED BY <3>1, <4>9, <5>1
      <4>2. CASE j = state[m] + 1
        <5>1. m - state[m] + j = m + 1
          BY <3>2, <4>2, SMT
        <5>. QED BY <2>6, <4>1, <4>2, <5>1
      <4>3. CASE j # state[m] + 1
        <5>1. j \in 1..state[m]
          BY <3>1, <3>2, <4>3, SMT
        <5>. QED BY <3>2, <4>1, <5>1
      <4>. QED BY <4>2, <4>3
    <3>4. state[m + 1] \in 0..Len(target) /\ state[m + 1] <= m + 1
      BY <1>1, <3>1, <3>2, SMT
    <3>. QED BY <3>3, <3>4
  <2>7. CASE state[m] # Len(target) /\ ~Same(source[m + 1], target[state[m] + 1], ignoreCase)
    <3>1. state[m + 1] = 0
      BY <2>2, <2>4, <2>7 DEF MatchedAfter
    <3>. QED BY <1>1, <3>1
  <2>. QED BY <2>5, <2>6, <2>7
<1>5. Nat \subseteq T
  <2> HIDE DEF T
  <2>. QED BY <1>3, <1>4, Induction
<1>6. \A n \in 0..Len(source) : Inv(n)
  <2>1. \A n \in 0..Len(source) : n \in Nat /\ n <= Len(source)
    BY <1>1
  <2> HIDE DEF Inv
  <2>. QED BY <1>5, <2>1 DEF T
<1>. QED BY <1>6 DEF state

\* Where the search ends: at the first number of characters that completes a match.
LEMMA FoundAtEnd ==
    ASSUME NEW source \in Seq(Chars), NEW target \in Seq(Chars), NEW ignoreCase,
           Find(source, target, ignoreCase).found
    PROVE  \E n \in 1..Len(source) :
              /\ Find(source, target, ignoreCase) = Found(n - Len(target))
              /\ States(source, target, ignoreCase)[n] = Len(target)
              /\ \A m \in 0..Len(source) : States(source, target, ignoreCase)[m] = Len(target) => n <= m
<1> DEFINE state == States(source, target, ignoreCase)
           ends == {n \in DOMAIN state : state[n] = Len(target)}
           least == CHOOSE n \in ends : \A m \in ends : n <= m
<1>1. Len(source) \in Nat /\ Len(target) \in Nat
  BY LenProperties
<1>2. DOMAIN state = 0..Len(source) /\ state[0] = 0
  BY <1>1, StatesUnfold DEF MatchedAfter
<1>3. target # <<>> /\ ends # {} /\ Find(source, target, ignoreCase) = Found(least - Len(target))
  <2>1. ~NotFound.found
    BY DEF NotFound
  <2>. QED BY <2>1 DEF Find
<1>4. Len(target) # 0
  BY <1>3, EmptySeq
<1> HIDE DEF state
<1>5. PICK n \in ends : \A m \in ends : n <= m
  <2>1. ends \subseteq Nat
    BY <1>1, <1>2
  <2> HIDE DEF ends
  <2>. QED BY <1>3, <2>1, Least
<1>6. least \in ends /\ \A m \in ends : least <= m
  <2> HIDE DEF ends
  <2>. QED BY <1>5
<1> HIDE DEF least
<1>7. least \in 0..Len(source) /\ state[least] = Len(target) /\ least # 0
  BY <1>2, <1>4, <1>6
<1>8. \A m \in 0..Len(source) : state[m] = Len(target) => least <= m
  BY <1>2, <1>6
<1>9. least \in 1..Len(source)
  BY <1>1, <1>7
<1>. QED BY <1>3, <1>7, <1>8, <1>9 DEF state

\* A target that is found is there.
LEMMA FoundIsThere ==
    ASSUME NEW source \in Seq(Chars), NEW target \in Seq(Chars), NEW ignoreCase,
           Find(source, target, ignoreCase).found
    PROVE  /\ Find(source, target, ignoreCase).at \in 0..Len(source)
           /\ MatchesAt(source, target, ignoreCase, Find(source, target, ignoreCase).at)
<1> DEFINE state == States(source, target, ignoreCase)
<1>1. Len(source) \in Nat /\ Len(target) \in Nat /\ DOMAIN target = 1..Len(target)
  BY LenProperties
<1>2. PICK n \in 1..Len(source) :
         /\ Find(source, target, ignoreCase) = Found(n - Len(target))
         /\ state[n] = Len(target)
         /\ \A m \in 0..Len(source) : state[m] = Len(target) => n <= m
  BY FoundAtEnd
<1>3. n \in 0..Len(source) /\ n > 0 /\ n - 1 \in 0..Len(source) /\ ~(n <= n - 1)
  BY <1>1, SMT
<1>4. state[n - 1] # Len(target)
  BY <1>2, <1>3
<1>5. /\ state[n] <= n
      /\ \A j \in 1..state[n] : Same(source[n - state[n] + j], target[j], ignoreCase)
  BY <1>3, <1>4, MatchedIsThere
<1>6. Find(source, target, ignoreCase).at = n - Len(target)
  BY <1>2 DEF Found
<1>7. n - Len(target) \in 0..Len(source) /\ (n - Len(target)) + Len(target) <= Len(source)
  BY <1>1, <1>2, <1>5, SMT
<1>. QED BY <1>1, <1>2, <1>5, <1>6, <1>7 DEF MatchesAt

\* A target at the beginning is found there.
LEMMA FoundAtBeginning ==
    ASSUME NEW source \in Seq(Chars), NEW target \in Seq(Chars), NEW ignoreCase,
           target # <<>>, MatchesAt(source, target, ignoreCase, 0)
    PROVE  Find(source, target, ignoreCase) = Found(0)
<1> DEFINE state == States(source, target, ignoreCase)
           ends == {n \in DOMAIN state : state[n] = Len(target)}
           least == CHOOSE n \in ends : \A m \in ends : n <= m
           T == {n \in Nat : n <= Len(target) => state[n] = n}
<1>1. Len(source) \in Nat /\ Len(target) \in Nat /\ DOMAIN target = 1..Len(target)
  BY LenProperties
<1>2. /\ DOMAIN state = 0..Len(source)
      /\ \A n \in 0..Len(source) : state[n] = MatchedAfter(state, source, target, ignoreCase, n)
  BY <1>1, StatesUnfold
<1>3. Len(target) <= Len(source) /\ \A k \in 1..Len(target) : Same(source[k], target[k], ignoreCase)
  <2>1. 0 + Len(target) = Len(target) /\ \A k \in 1..Len(target) : 0 + k = k
    BY <1>1
  <2>. QED BY <1>1, <2>1 DEF MatchesAt
<1> HIDE DEF state
<1>4. 0 \in T
  BY <1>1, <1>2 DEF MatchedAfter
<1>5. ASSUME NEW m \in Nat, m \in T
      PROVE  m + 1 \in T
  <2>1. SUFFICES ASSUME m + 1 <= Len(target) PROVE state[m + 1] = m + 1
    OBVIOUS
  <2>9. Len(target) <= Len(source)
    BY <1>3
  <2>2. /\ m + 1 \in 0..Len(source) /\ m + 1 # 0 /\ (m + 1) - 1 = m
        /\ m <= Len(target) /\ m # Len(target) /\ m + 1 \in 1..Len(target)
    <3>1. \A s, t \in Nat : t <= s /\ m + 1 <= t =>
              /\ m + 1 \in 0..s /\ m + 1 # 0 /\ (m + 1) - 1 = m
              /\ m <= t /\ m # t /\ m + 1 \in 1..t
      OBVIOUS
    <3>. QED BY <1>1, <2>9, <2>1, <3>1
  <2>3. state[m] = m
    BY <1>5, <2>2
  <2>. QED BY <1>2, <1>3, <2>2, <2>3 DEF MatchedAfter
<1>6. Nat \subseteq T
  <2> HIDE DEF T
  <2>. QED BY <1>4, <1>5, Induction
<1>7. \A n \in 0..Len(target) : state[n] = n
  <2>1. \A n \in 0..Len(target) : n \in Nat /\ n <= Len(target)
    BY <1>1
  <2>. QED BY <1>6, <2>1
<1> HIDE DEF T
<1>8. Len(target) \in ends
  <2>1. Len(target) \in 0..Len(source) /\ Len(target) \in 0..Len(target)
    BY <1>1, <1>3
  <2>. QED BY <1>2, <1>7, <2>1
<1>9. \A m \in ends : Len(target) <= m
  <2>1. SUFFICES ASSUME NEW m \in 0..Len(source), state[m] = Len(target), m < Len(target) PROVE FALSE
    BY <1>1, <1>2
  <2>2. m \in 0..Len(target)
    BY <1>1, <2>1
  <2>. QED BY <1>1, <1>7, <2>1, <2>2
<1>10. least = Len(target)
  <2>1. \A n \in ends : (\A m \in ends : n <= m) => n = Len(target)
    <3>1. SUFFICES ASSUME NEW n \in ends, \A m \in ends : n <= m PROVE n = Len(target)
      OBVIOUS
    <3>2. n <= Len(target) /\ Len(target) <= n /\ n \in Nat
      BY <1>1, <1>2, <1>8, <1>9, <3>1
    <3>. QED BY <1>1, <3>2, SMT
  <2> HIDE DEF ends
  <2>. QED BY <1>8, <1>9, <2>1
<1>11. ~(Len(target) > Len(source)) /\ ends # {} /\ Len(target) - Len(target) = 0
  BY <1>1, <1>3, <1>8
<1> HIDE DEF least
<1>12. Find(source, target, ignoreCase) = Found(least - Len(target))
  BY <1>11 DEF Find, state, least
<1>. QED BY <1>10, <1>11, <1>12

-----------------------------------------------------------------------------
(* The lookup of a header.                                                 *)

\* A single character is found where it stands first.
LEMMA CharacterIsFound ==
    ASSUME NEW line \in Seq(Chars), NEW char \in Chars, NEW n \in Nat, n < Len(line),
           line[n + 1] = char, \A i \in 1..n : line[i] # char
    PROVE  Find(line, <<char>>, FALSE) = Found(n)
<1> DEFINE target == <<char>>
           state == States(line, target, FALSE)
           T == {m \in Nat : m <= n => state[m] = 0}
<1>1. target \in Seq(Chars) /\ Len(target) = 1 /\ target[1] = char /\ target # <<>>
  OBVIOUS
<1>2. Len(line) \in Nat
  BY LenProperties
<1>3. /\ DOMAIN state = 0..Len(line)
      /\ \A m \in 0..Len(line) : state[m] = MatchedAfter(state, line, target, FALSE, m)
  BY <1>2, StatesUnfold
<1>4. \A c, d : Same(c, d, FALSE) <=> c = d
  BY DEF Same
<1> HIDE DEF state, target
<1>5. 0 \in T
  <2>1. state[0] = 0
    <3>1. 0 \in 0..Len(line)
      BY <1>2
    <3>2. MatchedAfter(state, line, target, FALSE, 0) = 0
      BY DEF MatchedAfter
    <3>. QED BY <1>3, <3>1, <3>2
  <2>. QED BY <2>1
<1>6. ASSUME NEW m \in Nat, m \in T
      PROVE  m + 1 \in T
  <2>1. SUFFICES ASSUME m + 1 <= n PROVE state[m + 1] = 0
    OBVIOUS
  <2>2. /\ m + 1 \in 0..Len(line) /\ m + 1 # 0 /\ (m + 1) - 1 = m
        /\ m <= n /\ m + 1 \in 1..n
    <3>1. \A s \in Nat : n < s => /\ m + 1 \in 0..s /\ m + 1 # 0 /\ (m + 1) - 1 = m
                                  /\ m <= n /\ m + 1 \in 1..n
      BY <2>1
    <3>. QED BY <1>2, <3>1
  <2>3. state[m] = 0 /\ 0 + 1 = 1 /\ 0 # 1
    BY <1>6, <2>2
  <2>4. ~Same(line[m + 1], target[0 + 1], FALSE)
    BY <1>1, <1>4, <2>2, <2>3
  <2>. QED BY <1>1, <1>3, <2>2, <2>3, <2>4 DEF MatchedAfter
<1>7. Nat \subseteq T
  <2> HIDE DEF T
  <2>. QED BY <1>5, <1>6, Induction
<1>8. \A m \in 0..n : state[m] = 0
  <2>1. \A m \in 0..n : m \in Nat /\ m <= n
    OBVIOUS
  <2>. QED BY <1>7, <2>1
<1> HIDE DEF T
<1>9. /\ n + 1 \in 0..Len(line) /\ n + 1 # 0 /\ (n + 1) - 1 = n /\ n \in 0..n
      /\ 0 + 1 = 1 /\ 0 # 1 /\ ~(1 > Len(line))
  BY <1>2
<1>10. state[n + 1] = 1
  BY <1>1, <1>3, <1>4, <1>8, <1>9 DEF MatchedAfter
<1>11. Find(line, target, FALSE).found
  <2>1. n + 1 \in {m \in DOMAIN state : state[m] = Len(target)}
    BY <1>1, <1>3, <1>9, <1>10
  <2>. QED BY <1>1, <1>9, <2>1 DEF Find, Found, state
<1>12. PICK m \in 1..Len(line) :
          /\ Find(line, target, FALSE) = Found(m - Len(target))
          /\ state[m] = Len(target)
          /\ \A k \in 0..Len(line) : state[k] = Len(target) => m <= k
  BY <1>1, <1>11, FoundAtEnd DEF state
<1>13. m - 1 = n
  <2>1. m <= n + 1
    BY <1>1, <1>9, <1>10, <1>12
  <2>2. ~(m <= n)
    <3>1. SUFFICES ASSUME m <= n PROVE FALSE
      OBVIOUS
    <3>2. m \in 0..n
      BY <1>2, <3>1
    <3>. QED BY <1>1, <1>8, <1>9, <1>12, <3>2
  <2>. QED BY <1>2, <2>1, <2>2
<1>. QED BY <1>1, <1>12, <1>13 DEF target

\* The places of a line that is put together from three parts.
LEMMA LineParts ==
    ASSUME NEW a \in Seq(Chars), NEW b \in Seq(Chars), NEW c \in Seq(Chars)
    PROVE  /\ a \o b \o c \in Seq(Chars)
           /\ Len(a \o b \o c) = Len(a) + Len(b) + Len(c)
           /\ \A i \in 1..Len(a) : (a \o b \o c)[i] = a[i]
           /\ \A i \in 1..Len(b) : (a \o b \o c)[Len(a) + i] = b[i]
           /\ \A i \in 1..Len(c) : (a \o b \o c)[Len(a) + Len(b) + i] = c[i]
<1> DEFINE ab == a \o b
           line == ab \o c
<1>1. Len(a) \in Nat /\ Len(b) \in Nat /\ Len(c) \in Nat
  BY LenProperties
<1>2. /\ ab \in Seq(Chars) /\ Len(ab) = Len(a) + Len(b)
      /\ \A i \in 1..Len(a) + Len(b) : ab[i] = IF i <= Len(a) THEN a[i] ELSE b[i - Len(a)]
  BY ConcatProperties
<1> HIDE DEF ab
<1>3. /\ line \in Seq(Chars) /\ Len(line) = Len(ab) + Len(c)
      /\ \A i \in 1..Len(ab) + Len(c) : line[i] = IF i <= Len(ab) THEN ab[i] ELSE c[i - Len(ab)]
  <2>1. ab \in Seq(Chars)
    BY <1>2
  <2>. QED BY <2>1, ConcatProperties
<1> HIDE DEF line
<1>4. ASSUME NEW i \in 1..Len(a)
      PROVE  line[i] = a[i]
  <2>1. i \in 1..Len(a) + Len(b) /\ i \in 1..Len(ab) + Len(c) /\ i <= Len(ab) /\ i <= Len(a)
    BY <1>1, <1>2
  <2>. QED BY <1>2, <1>3, <2>1
<1>5. ASSUME NEW i \in 1..Len(b)
      PROVE  line[Len(a) + i] = b[i]
  <2>1. /\ Len(a) + i \in 1..Len(a) + Len(b) /\ Len(a) + i \in 1..Len(ab) + Len(c)
        /\ Len(a) + i <= Len(ab) /\ ~(Len(a) + i <= Len(a)) /\ (Len(a) + i) - Len(a) = i
    BY <1>1, <1>2
  <2>. QED BY <1>2, <1>3, <2>1
<1>6. ASSUME NEW i \in 1..Len(c)
      PROVE  line[Len(a) + Len(b) + i] = c[i]
  <2>1. /\ Len(a) + Len(b) + i \in 1..Len(ab) + Len(c)
        /\ ~(Len(a) + Len(b) + i <= Len(ab)) /\ (Len(a) + Len(b) + i) - Len(ab) = i
    BY <1>1, <1>2
  <2>. QED BY <1>3, <2>1
<1>7. line = a \o b \o c
  BY DEF line, ab
<1>. QED BY <1>2, <1>3, <1>4, <1>5, <1>6, <1>7

LEMMA RestOfLine ==
    ASSUME NEW line \in Seq(Chars), NEW value \in Seq(Chars), NEW n \in Nat,
           Len(line) = n + Len(value), \A i \in 1..Len(value) : line[n + i] = value[i]
    PROVE  SubSeq(line, n + 1, Len(line)) = value
<1> DEFINE rest == SubSeq(line, n + 1, Len(line))
<1>1. Len(line) \in Nat /\ Len(value) \in Nat
  BY LenProperties
<1>2. \A i \in n + 1..Len(line) : line[i] \in Chars
  <2>1. \A i \in n + 1..Len(line) : i \in 1..Len(line)
    BY <1>1
  <2>. QED BY <2>1, ElementOfSeq
<1>3. /\ rest \in Seq(Chars)
      /\ Len(rest) = IF n + 1 <= Len(line) THEN Len(line) - (n + 1) + 1 ELSE 0
      /\ \A i \in 1..Len(line) - (n + 1) + 1 : rest[i] = line[(n + 1) + i - 1]
  <2>1. n + 1 \in Int /\ Len(line) \in Int
    BY <1>1
  <2>. QED BY <1>2, <2>1, SubSeqProperties
<1> HIDE DEF rest
<1>4. Len(rest) = Len(value)
  BY <1>1, <1>3
<1>5. \A i \in 1..Len(rest) : rest[i] = value[i]
  <2>1. SUFFICES ASSUME NEW i \in 1..Len(value) PROVE rest[i] = value[i]
    BY <1>4
  <2>2. i \in 1..Len(line) - (n + 1) + 1 /\ (n + 1) + i - 1 = n + i
    BY <1>1
  <2>. QED BY <1>3, <2>2
<1>6. rest = value
  BY <1>3, <1>4, <1>5, SeqEqual
<1>. QED BY <1>6 DEF rest

\* A line that begins with a name and a colon holds the name, and its value begins behind
\* the colon, or behind a blank that follows it.
LEMMA ValueOfLine ==
    ASSUME NEW name \in Seq(Chars), name # <<>>, Colon \notin ToSet(name), NEW value \in Seq(Chars),
           value = <<>> \/ value[1] # Blank, NEW line,
           line = name \o <<Colon>> \o value \/ line = name \o <<Colon, Blank>> \o value
    PROVE  /\ Holds(line, name)
           /\ SubSeq(line, ValueBegins(line, name) + 1, Len(line)) = value
<1>1. PICK mid \in {<<Colon>>, <<Colon, Blank>>} : line = name \o mid \o value
  OBVIOUS
<1>2. mid \in Seq(Chars) /\ Len(mid) \in {1, 2} /\ mid[1] = Colon /\ (Len(mid) = 2 => mid[2] = Blank)
  <2>1. CASE mid = <<Colon>>
    BY <2>1, CodecsAssumption
  <2>2. CASE mid = <<Colon, Blank>>
    BY <2>2, CodecsAssumption
  <2>. QED BY <1>1, <2>1, <2>2
<1>3. Len(name) \in Nat /\ Len(value) \in Nat /\ Len(name) # 0 /\ DOMAIN name = 1..Len(name)
  BY LenProperties, EmptySeq
<1> HIDE DEF ToSet
<1>4. /\ line \in Seq(Chars) /\ Len(line) = Len(name) + Len(mid) + Len(value)
      /\ \A i \in 1..Len(name) : line[i] = name[i]
      /\ \A i \in 1..Len(mid) : line[Len(name) + i] = mid[i]
      /\ \A i \in 1..Len(value) : line[Len(name) + Len(mid) + i] = value[i]
  BY <1>1, <1>2, LineParts
<1>5. Holds(line, name)
  <2>1. 0 + Len(name) <= Len(line) /\ \A k \in 1..Len(name) : 0 + k = k
    BY <1>2, <1>3, <1>4
  <2>2. MatchesAt(line, name, TRUE, 0)
    BY <1>3, <1>4, <2>1 DEF MatchesAt, Same
  <2>3. Find(line, name, TRUE) = Found(0)
    <3>1. line \in Seq(Chars) /\ name \in Seq(Chars) /\ name # <<>>
      BY <1>4
    <3> HIDE DEF ToSet
    <3>. QED BY <2>2, <3>1, FoundAtBeginning, Zenon
  <2>4. Found(0).found
    BY DEF Found
  <2>. QED BY <2>3, <2>4 DEF Holds
<1>6. Find(line, <<Colon>>, FALSE) = Found(Len(name))
  <2>1. Len(name) < Len(line) /\ 1 \in 1..Len(mid)
    BY <1>2, <1>3, <1>4
  <2>2. line[Len(name) + 1] = Colon
    BY <1>2, <1>4, <2>1
  <2>3. \A i \in 1..Len(name) : line[i] # Colon
    BY <1>3, <1>4 DEF ToSet
  <2>4. Colon \in Chars
    BY CodecsAssumption
  <2>. QED BY <1>3, <1>4, <2>1, <2>2, <2>3, <2>4, CharacterIsFound
<1>7. ValueBegins(line, name) = IF Len(name) + 2 <= Len(line) /\ line[Len(name) + 2] = Blank
                                THEN Len(name) + 2 ELSE Len(name) + 1
  <2>1. Found(Len(name)).found /\ Found(Len(name)).at = Len(name)
    BY DEF Found
  <2>. QED BY <1>6, <2>1 DEF ValueBegins
<1>8. ValueBegins(line, name) = Len(name) + Len(mid)
  <2>1. CASE Len(mid) = 2
    <3>1. 2 \in 1..Len(mid) /\ Len(name) + 2 <= Len(line)
      BY <1>3, <1>4, <2>1
    <3>. QED BY <1>2, <1>4, <1>7, <2>1, <3>1
  <2>2. CASE Len(mid) = 1
    <3>1. CASE value = <<>>
      <4>1. ~(Len(name) + 2 <= Len(line))
        <5>1. Len(value) = 0
          BY <3>1, EmptySeq
        <5>. QED BY <1>3, <1>4, <2>2, <5>1
      <4>. QED BY <1>7, <2>2, <4>1
    <3>2. CASE value # <<>>
      <4>1. 1 \in 1..Len(value)
        BY <1>3, <3>2, EmptySeq
      <4>2. Len(name) + Len(mid) + 1 = Len(name) + 2
        BY <1>3, <2>2
      <4>3. line[Len(name) + 2] # Blank
        BY <1>4, <3>2, <4>1, <4>2
      <4>. QED BY <1>7, <2>2, <4>3
    <3>. QED BY <3>1, <3>2
  <2>. QED BY <1>2, <2>1, <2>2
<1>9. SubSeq(line, (Len(name) + Len(mid)) + 1, Len(line)) = value
  <2>1. Len(name) + Len(mid) \in Nat
    BY <1>2, <1>3
  <2>. QED BY <1>4, <2>1, RestOfLine
<1>. QED BY <1>5, <1>8, <1>9

\* mcl_http_response_get_header returns the value of the first line that holds the name.
LEMMA HeaderIsFound ==
    ASSUME NEW lines \in Seq(Seq(Chars)), NEW name \in Seq(Chars), name # <<>>, Colon \notin ToSet(name),
           NEW k \in DOMAIN lines, \A m \in 1..k - 1 : ~Holds(lines[m], name),
           NEW value \in Seq(Chars), value = <<>> \/ value[1] # Blank,
           lines[k] \in {name \o <<Colon>> \o value, name \o <<Colon, Blank>> \o value}
    PROVE  GetHeader(lines, name) = value
<1>1. DOMAIN lines = 1..Len(lines) /\ Len(lines) \in Nat
  BY LenProperties
<1>2. /\ Holds(lines[k], name)
      /\ SubSeq(lines[k], ValueBegins(lines[k], name) + 1, Len(lines[k])) = value
  BY ValueOfLine
<1> DEFINE First(j) == Holds(lines[j], name) /\ \A m \in 1..j - 1 : ~Holds(lines[m], name)
           first == CHOOSE j \in DOMAIN lines : First(j)
<1>3. First(k)
  BY <1>2
<1>4. \A j \in DOMAIN lines : First(j) => j = k
  <2>1. SUFFICES ASSUME NEW j \in DOMAIN lines, First(j), j # k PROVE FALSE
    OBVIOUS
  <2>2. j \in 1..k - 1 \/ k \in 1..j - 1
    BY <1>1, <2>1
  <2>. QED BY <1>2, <2>1, <2>2
<1> HIDE DEF First
<1>5. first = k
  BY <1>3, <1>4
<1> HIDE DEF first
<1>6. GetHeader(lines, name) = SubSeq(lines[first], ValueBegins(lines[first], name) + 1, Len(lines[first]))
  BY <1>2 DEF GetHeader, first, First
<1>. QED BY <1>2, <1>5, <1>6

-----------------------------------------------------------------------------
(* hmac.c                                                                  *)

Block(key) ==
    LET local == IF Len(key) > BlockSize THEN Sha256(key) ELSE key
    IN local \o [k \in 1..BlockSize - Len(local) |-> Zero]

LEMMA PaddedIsBlock ==
    ASSUME NEW S, NEW key \in Seq(S), NEW pad
    PROVE  Padded(key, pad) = [k \in 1..BlockSize |-> Xor(Block(key)[k], pad)]
<1> DEFINE local == LocalKey(key)
           R == {local[k] : k \in DOMAIN local} \cup {Zero}
           zeros == [k \in 1..BlockSize - Len(local) |-> Zero]
<1>1. BlockSize \in Nat /\ HashSize \in Nat /\ HashSize <= BlockSize
  BY CodecsAssumption
<1>2. Len(local) \in Nat /\ Len(local) <= BlockSize /\ DOMAIN local = 1..Len(local)
      /\ local = [k \in 1..Len(local) |-> local[k]]
  <2>1. CASE KeyTooLong(key)
    <3>1. local = Sha256(key)
      BY <2>1 DEF LocalKey
    <3>2. DOMAIN Sha256(key) = 1..HashSize /\ Sha256(key) = [k \in 1..HashSize |-> Sha256(key)[k]]
      BY DEF Sha256
    <3>3. Len(Sha256(key)) = HashSize
      <4> DEFINE h == Sha256(key)
      <4> HIDE DEF h
      <4>1. DOMAIN h = 1..HashSize /\ h = [k \in 1..HashSize |-> h[k]]
        BY <3>2 DEF h
      <4>2. Len(h) = HashSize
        BY <1>1, <4>1, LengthOfFunction
      <4>. QED BY <4>2 DEF h
    <3>. QED BY <1>1, <3>1, <3>2, <3>3
  <2>2. CASE ~KeyTooLong(key)
    <3>1. local = key
      BY <2>2 DEF LocalKey
    <3>2. Len(key) \in Nat /\ DOMAIN key = 1..Len(key) /\ key = [k \in 1..Len(key) |-> key[k]]
      BY LenProperties
    <3>. QED BY <1>1, <2>2, <3>1, <3>2 DEF KeyTooLong
  <2>. QED BY <2>1, <2>2
<1>3. Block(key) = local \o zeros
  BY DEF Block, LocalKey, KeyTooLong
<1> HIDE DEF local
<1>4. local \in Seq(R)
  <2>1. local \in [1..Len(local) -> R]
    BY <1>2
  <2> HIDE DEF R
  <2>. QED BY <1>2, <2>1, SeqDef
<1>5. zeros \in Seq(R) /\ Len(zeros) = BlockSize - Len(local)
  <2>1. BlockSize - Len(local) \in Nat /\ Zero \in R
    BY <1>1, <1>2
  <2>2. zeros \in [1..BlockSize - Len(local) -> R] /\ DOMAIN zeros = 1..BlockSize - Len(local)
    BY <2>1
  <2>3. zeros \in Seq(R)
    <3> HIDE DEF zeros, R
    <3>. QED BY <2>1, <2>2, SeqDef
  <2>4. zeros = [k \in 1..BlockSize - Len(local) |-> zeros[k]]
    OBVIOUS
  <2> HIDE DEF zeros
  <2>5. Len(zeros) = BlockSize - Len(local)
    BY <2>1, <2>2, <2>4, LengthOfFunction
  <2>. QED BY <2>3, <2>5
<1>6. \A k \in 1..BlockSize : Block(key)[k] = IF k <= Len(local) THEN local[k] ELSE Zero
  <2>1. SUFFICES ASSUME NEW k \in 1..BlockSize
                 PROVE  Block(key)[k] = IF k <= Len(local) THEN local[k] ELSE Zero
    OBVIOUS
  <2>2. \A i \in 1..Len(local) + Len(zeros) :
           (local \o zeros)[i] = IF i <= Len(local) THEN local[i] ELSE zeros[i - Len(local)]
    <3> HIDE DEF zeros, R
    <3>. QED BY <1>4, <1>5, ConcatProperties
  <2>3. k \in 1..Len(local) + Len(zeros)
    <3> HIDE DEF zeros
    <3>. QED BY <1>1, <1>2, <1>5
  <2>4. ~(k <= Len(local)) => k - Len(local) \in 1..BlockSize - Len(local)
    BY <1>1, <1>2
  <2>. QED BY <1>3, <2>2, <2>3, <2>4
<1>7. Xor(Zero, pad) = pad
  BY DEF Xor
<1>8. \A k \in 1..BlockSize :
         (IF k <= Len(local) THEN Xor(local[k], pad) ELSE pad) = Xor(Block(key)[k], pad)
  BY <1>6, <1>7
<1>9. Padded(key, pad) = [k \in 1..BlockSize |-> IF k <= Len(local) THEN Xor(local[k], pad) ELSE pad]
  BY DEF Padded, local
<1>. QED BY <1>8, <1>9

-----------------------------------------------------------------------------
(* The test for an Azure URL.                                              *)

\* A difference of sizes that are in their order does not wrap around.
LEMMA NoWrap ==
    ASSUME NEW w \in Nat, NEW n \in 0..w - 1
    PROVE  n % w = n
<1>1. w > 0 /\ n >= 0 /\ n < w
  BY SMT
<1>. QED BY <1>1, SMT

LEMMA UrlIsInside ==
    ASSUME NEW u \in [length : 0..Width - 1, dot : Nat, azure : BOOLEAN], u.dot <= u.length,
           u.length >= AzureSize
    PROVE  /\ Compared(u) \subseteq 0..u.length
           /\ u.azure /\ AfterDot(u) + AzureSize - 1 + 2 <= u.length => IsForAzure(u)
<1>1. AzureSize \in Nat /\ Width \in Nat /\ 1 < AzureSize /\ AzureSize < Width
  BY CodecsAssumption
<1>2. u.length \in Nat /\ u.length < Width /\ u.dot \in Nat
  BY <1>1
<1>3. (u.length - AzureSize) % Width = u.length - AzureSize
  <2>1. u.length - AzureSize \in 0..Width - 1
    BY <1>1, <1>2
  <2>. QED BY <1>1, <2>1, NoWrap
<1>4. AfterDot(u) \in Nat
  BY <1>2 DEF AfterDot
<1>5. Room(u) <=> AfterDot(u) < u.length - AzureSize
  BY <1>3 DEF Room
<1>6. Compared(u) \subseteq 0..u.length
  <2>1. CASE Room(u)
    <3>1. Compared(u) = AfterDot(u)..AfterDot(u) + AzureSize - 2
      BY <2>1 DEF Compared
    <3>2. AfterDot(u) + AzureSize - 2 <= u.length
      BY <1>1, <1>2, <1>4, <1>5, <2>1
    <3>. QED BY <1>1, <1>2, <1>4, <3>1, <3>2
  <2>2. CASE ~Room(u)
    BY <2>2 DEF Compared
  <2>. QED BY <2>1, <2>2
<1>7. AfterDot(u) + AzureSize - 1 + 2 <= u.length => Room(u)
  BY <1>1, <1>2, <1>4, <1>5
<1>. QED BY <1>6, <1>7 DEF IsForAzure

-----------------------------------------------------------------------------
(* The bits of what is decoded.                                            *)

\* Where the six bits of a character go.
LEMMA BytesOfValue ==
    ASSUME NEW a \in Sextet, NEW b \in Sextet, NEW c \in Sextet, NEW d \in Sextet
    PROVE  /\ ByteOf(Value(a, b, c, d), 0) = a * 4 + b \div 16
           /\ ByteOf(Value(a, b, c, d), 1) = (b % 16) * 16 + c \div 4
           /\ ByteOf(Value(a, b, c, d), 2) = (c % 4) * 64 + d
<1>1. PICK x \in 0..255, y \in 0..255, z \in 0..255 :
         /\ x = a * 4 + b \div 16 /\ y = (b % 16) * 16 + c \div 4 /\ z = (c % 4) * 64 + d
         /\ Value(a, b, c, d) = (x * 256 + y) * 256 + z
  <2>1. /\ a * 4 + b \div 16 \in 0..255
        /\ (b % 16) * 16 + c \div 4 \in 0..255
        /\ (c % 4) * 64 + d \in 0..255
    BY SMT DEF Sextet
  <2>2. Value(a, b, c, d)
           = ((a * 4 + b \div 16) * 256 + ((b % 16) * 16 + c \div 4)) * 256 + ((c % 4) * 64 + d)
    BY SMT DEF Sextet, Value
  <2>. QED BY <2>1, <2>2
<1> DEFINE n == (x * 256 + y) * 256 + z
<1>2. n \div 1 = n /\ n % 256 = z /\ n \div 256 = x * 256 + y /\ n \div 65536 = x
  BY SMT
<1>3. (x * 256 + y) % 256 = y /\ x % 256 = x
  BY SMT
<1>4. ByteOf(n, 0) = x /\ ByteOf(n, 1) = y /\ ByteOf(n, 2) = z
  BY <1>2, <1>3, SMT DEF ByteOf
<1>. QED BY <1>1, <1>4

\* The powers of two among eight bits.
LEMMA Powers ==
    /\ 2 ^ 0 = 1 /\ 2 ^ 1 = 2 /\ 2 ^ 2 = 4 /\ 2 ^ 3 = 8
    /\ 2 ^ 4 = 16 /\ 2 ^ 5 = 32 /\ 2 ^ 6 = 64 /\ 2 ^ 7 = 128
BY SMT

LEMMA BitsOfFirst ==
    ASSUME NEW a \in Sextet, NEW b \in Sextet
    PROVE  LET x == a * 4 + b \div 16
           IN  /\ Bit(x, 7) = Bit(a, 5) /\ Bit(x, 6) = Bit(a, 4) /\ Bit(x, 5) = Bit(a, 3)
               /\ Bit(x, 4) = Bit(a, 2) /\ Bit(x, 3) = Bit(a, 1) /\ Bit(x, 2) = Bit(a, 0)
               /\ Bit(x, 1) = Bit(b, 5) /\ Bit(x, 0) = Bit(b, 4)
<1> DEFINE x == a * 4 + b \div 16
<1>1. /\ (x \div 128) % 2 = (a \div 32) % 2 /\ (x \div 64) % 2 = (a \div 16) % 2
      /\ (x \div 32) % 2 = (a \div 8) % 2 /\ (x \div 16) % 2 = (a \div 4) % 2
  BY SMT DEF Sextet
<1>2. /\ (x \div 8) % 2 = (a \div 2) % 2 /\ (x \div 4) % 2 = (a \div 1) % 2
      /\ (x \div 2) % 2 = (b \div 32) % 2 /\ (x \div 1) % 2 = (b \div 16) % 2
  BY SMT DEF Sextet
<1> HIDE DEF x
<1>3. /\ Bit(x, 7) = Bit(a, 5) /\ Bit(x, 6) = Bit(a, 4) /\ Bit(x, 5) = Bit(a, 3)
      /\ Bit(x, 4) = Bit(a, 2) /\ Bit(x, 3) = Bit(a, 1) /\ Bit(x, 2) = Bit(a, 0)
      /\ Bit(x, 1) = Bit(b, 5) /\ Bit(x, 0) = Bit(b, 4)
  BY <1>1, <1>2, Powers, Zenon DEF Bit
<1>. QED BY <1>3 DEF x

LEMMA BitsOfSecond ==
    ASSUME NEW b \in Sextet, NEW c \in Sextet
    PROVE  LET x == (b % 16) * 16 + c \div 4
           IN  /\ Bit(x, 7) = Bit(b, 3) /\ Bit(x, 6) = Bit(b, 2) /\ Bit(x, 5) = Bit(b, 1)
               /\ Bit(x, 4) = Bit(b, 0) /\ Bit(x, 3) = Bit(c, 5) /\ Bit(x, 2) = Bit(c, 4)
               /\ Bit(x, 1) = Bit(c, 3) /\ Bit(x, 0) = Bit(c, 2)
<1> DEFINE x == (b % 16) * 16 + c \div 4
<1>1. /\ (x \div 128) % 2 = (b \div 8) % 2 /\ (x \div 64) % 2 = (b \div 4) % 2
      /\ (x \div 32) % 2 = (b \div 2) % 2 /\ (x \div 16) % 2 = (b \div 1) % 2
  <2> DEFINE l == b % 16
  <2>1. l \in 0..15 /\ x \div 16 = l /\ x \in Nat /\ b \in Nat
    BY SMT DEF Sextet
  <2>2. /\ (b \div 8) % 2 = (l \div 8) % 2 /\ (b \div 4) % 2 = (l \div 4) % 2
        /\ (b \div 2) % 2 = (l \div 2) % 2 /\ (b \div 1) % 2 = l % 2
    BY <2>1, SMT
  <2> HIDE DEF l, x
  <2>3. x \div 128 = l \div 8 /\ x \div 64 = l \div 4 /\ x \div 32 = l \div 2
    BY <2>1, SMT
  <2>. QED BY <2>1, <2>2, <2>3
<1>2. /\ (x \div 8) % 2 = (c \div 32) % 2 /\ (x \div 4) % 2 = (c \div 16) % 2
      /\ (x \div 2) % 2 = (c \div 8) % 2 /\ (x \div 1) % 2 = (c \div 4) % 2
  BY SMT DEF Sextet
<1> HIDE DEF x
<1>3. /\ Bit(x, 7) = Bit(b, 3) /\ Bit(x, 6) = Bit(b, 2) /\ Bit(x, 5) = Bit(b, 1)
      /\ Bit(x, 4) = Bit(b, 0) /\ Bit(x, 3) = Bit(c, 5) /\ Bit(x, 2) = Bit(c, 4)
      /\ Bit(x, 1) = Bit(c, 3) /\ Bit(x, 0) = Bit(c, 2)
  BY <1>1, <1>2, Powers, Zenon DEF Bit
<1>. QED BY <1>3 DEF x

LEMMA BitsOfThird ==
    ASSUME NEW c \in Sextet, NEW d \in Sextet
    PROVE  LET x == (c % 4) * 64 + d
           IN  /\ Bit(x, 7) = Bit(c, 1) /\ Bit(x, 6) = Bit(c, 0) /\ Bit(x, 5) = Bit(d, 5)
               /\ Bit(x, 4) = Bit(d, 4) /\ Bit(x, 3) = Bit(d, 3) /\ Bit(x, 2) = Bit(d, 2)
               /\ Bit(x, 1) = Bit(d, 1) /\ Bit(x, 0) = Bit(d, 0)
<1> DEFINE x == (c % 4) * 64 + d
<1>1. /\ (x \div 128) % 2 = (c \div 2) % 2 /\ (x \div 64) % 2 = (c \div 1) % 2
      /\ (x \div 32) % 2 = (d \div 32) % 2 /\ (x \div 16) % 2 = (d \div 16) % 2
  BY SMT DEF Sextet
<1>2. /\ (x \div 8) % 2 = (d \div 8) % 2 /\ (x \div 4) % 2 = (d \div 4) % 2
      /\ (x \div 2) % 2 = (d \div 2) % 2 /\ (x \div 1) % 2 = (d \div 1) % 2
  BY SMT DEF Sextet
<1> HIDE DEF x
<1>3. /\ Bit(x, 7) = Bit(c, 1) /\ Bit(x, 6) = Bit(c, 0) /\ Bit(x, 5) = Bit(d, 5)
      /\ Bit(x, 4) = Bit(d, 4) /\ Bit(x, 3) = Bit(d, 3) /\ Bit(x, 2) = Bit(d, 2)
      /\ Bit(x, 1) = Bit(d, 1) /\ Bit(x, 0) = Bit(d, 0)
  BY <1>1, <1>2, Powers, Zenon DEF Bit
<1>. QED BY <1>3 DEF x

\* The bits of a quantum of characters, in their order, are those of its bytes.
LEMMA BitsOfQuantum ==
    ASSUME NEW s, \A p \in 0..3 : s[p] \in Sextet, NEW m \in 0..23
    PROVE  Bit(ByteOf(Value(s[0], s[1], s[2], s[3]), m \div 8), 7 - (m % 8)) = Bit(s[m \div 6], 5 - (m % 6))
<1> DEFINE v == Value(s[0], s[1], s[2], s[3])
<1>1. s[0] \in Sextet /\ s[1] \in Sextet /\ s[2] \in Sextet /\ s[3] \in Sextet
  OBVIOUS
<1>2. /\ ByteOf(v, 0) = s[0] * 4 + s[1] \div 16
      /\ ByteOf(v, 1) = (s[1] % 16) * 16 + s[2] \div 4
      /\ ByteOf(v, 2) = (s[2] % 4) * 64 + s[3]
  BY <1>1, BytesOfValue
<1> HIDE DEF v
<1>3. CASE m \in 0..7
  <2>1. /\ Bit(ByteOf(v, 0), 7) = Bit(s[0], 5) /\ Bit(ByteOf(v, 0), 6) = Bit(s[0], 4)
        /\ Bit(ByteOf(v, 0), 5) = Bit(s[0], 3) /\ Bit(ByteOf(v, 0), 4) = Bit(s[0], 2)
        /\ Bit(ByteOf(v, 0), 3) = Bit(s[0], 1) /\ Bit(ByteOf(v, 0), 2) = Bit(s[0], 0)
        /\ Bit(ByteOf(v, 0), 1) = Bit(s[1], 5) /\ Bit(ByteOf(v, 0), 0) = Bit(s[1], 4)
    BY <1>1, <1>2, BitsOfFirst
  <2>2. m \in {0, 1, 2, 3, 4, 5, 6, 7}
    BY <1>3
  <2>. QED BY <2>1, <2>2, SMT DEF v
<1>4. CASE m \in 8..15
  <2>1. /\ Bit(ByteOf(v, 1), 7) = Bit(s[1], 3) /\ Bit(ByteOf(v, 1), 6) = Bit(s[1], 2)
        /\ Bit(ByteOf(v, 1), 5) = Bit(s[1], 1) /\ Bit(ByteOf(v, 1), 4) = Bit(s[1], 0)
        /\ Bit(ByteOf(v, 1), 3) = Bit(s[2], 5) /\ Bit(ByteOf(v, 1), 2) = Bit(s[2], 4)
        /\ Bit(ByteOf(v, 1), 1) = Bit(s[2], 3) /\ Bit(ByteOf(v, 1), 0) = Bit(s[2], 2)
    BY <1>1, <1>2, BitsOfSecond
  <2>2. m \in {8, 9, 10, 11, 12, 13, 14, 15}
    BY <1>4
  <2>. QED BY <2>1, <2>2, SMT DEF v
<1>5. CASE m \in 16..23
  <2>1. /\ Bit(ByteOf(v, 2), 7) = Bit(s[2], 1) /\ Bit(ByteOf(v, 2), 6) = Bit(s[2], 0)
        /\ Bit(ByteOf(v, 2), 5) = Bit(s[3], 5) /\ Bit(ByteOf(v, 2), 4) = Bit(s[3], 4)
        /\ Bit(ByteOf(v, 2), 3) = Bit(s[3], 3) /\ Bit(ByteOf(v, 2), 2) = Bit(s[3], 2)
        /\ Bit(ByteOf(v, 2), 1) = Bit(s[3], 1) /\ Bit(ByteOf(v, 2), 0) = Bit(s[3], 0)
    BY <1>1, <1>2, BitsOfThird
  <2>2. m \in {16, 17, 18, 19, 20, 21, 22, 23}
    BY <1>5
  <2>. QED BY <2>1, <2>2, SMT DEF v
<1>. QED BY <1>3, <1>4, <1>5

\* The place of a bit among the bytes and among the characters.
LEMMA PlaceOfBit ==
    ASSUME NEW n \in Nat
    PROVE  LET q == n \div 24
               m == n % 24
           IN  /\ q \in Nat /\ m \in 0..23
               /\ (n \div 8) \div 3 = q /\ (n \div 8) % 3 = m \div 8 /\ n % 8 = m % 8
               /\ (n \div 6) + 1 = 4 * q + (m \div 6) + 1 /\ n % 6 = m % 6
               /\ m \div 6 \in 0..3 /\ m \div 8 \in 0..2
<1> DEFINE q == n \div 24
           m == n % 24
<1>1. q \in Nat /\ m \in 0..23 /\ n = 24 * q + m
  BY SMT
<1> HIDE DEF q, m
<1>2. (n \div 8) = 3 * q + (m \div 8) /\ m \div 8 \in 0..2 /\ n % 8 = m % 8
  BY <1>1, SMT
<1>3. n \div 6 = 4 * q + (m \div 6) /\ m \div 6 \in 0..3 /\ n % 6 = m % 6
  BY <1>1, SMT
<1>4. (n \div 8) \div 3 = q /\ (n \div 8) % 3 = m \div 8
  BY <1>1, <1>2, SMT
<1>5. (n \div 6) + 1 = 4 * q + (m \div 6) + 1
  BY <1>3
<1>. QED BY <1>1, <1>2, <1>3, <1>4, <1>5 DEF q, m

-----------------------------------------------------------------------------
(* Which texts are accepted.                                               *)

Alphabet(table) == {EncodeTable(table, i) : i \in Sextet}

\* What DecodesBits says of a text that is accepted with its paddings.
Formed(table, text, padding) ==
    /\ Len(text) > 0 /\ Len(text) % 4 = 0
    /\ ToSet(SubSeq(text, 1, Len(text) - padding)) \subseteq Alphabet(table)
    /\ \A k \in 1..padding : text[Len(text) - k + 1] = PADDING_CHAR

LEMMA CharactersOf ==
    ASSUME NEW table \in Tables, NEW c \in Byte
    PROVE  /\ DecodeTable(table, c) # Invalid => DecodeTable(table, c) \in Sextet /\ c \in Alphabet(table)
           /\ c \in Alphabet(table) =>
                 DecodeTable(table, c) # Invalid /\ DecodeTable(table, c) \in Sextet /\ c # PADDING_CHAR
<1>1. DecodeTable(table, c) # Invalid =>
         DecodeTable(table, c) \in Sextet /\ EncodeTable(table, DecodeTable(table, c)) = c
  <2>1. CASE table = "plain"
    BY <2>1, SMT DEF DecodeTable, EncodeTable, Sextet, Byte, Invalid
  <2>2. CASE table = "url"
    BY <2>2, SMT DEF DecodeTable, EncodeTable, Sextet, Byte, Invalid
  <2>. QED BY <2>1, <2>2 DEF Tables
<1>2. ASSUME NEW i \in Sextet, c = EncodeTable(table, i)
      PROVE  DecodeTable(table, c) # Invalid /\ DecodeTable(table, c) \in Sextet /\ c # PADDING_CHAR
  <2>1. DecodeTable(table, c) = i /\ c # PADDING_CHAR
    BY <1>2, TablesAgree DEF Tables
  <2>2. i # Invalid
    BY SMT DEF Sextet, Invalid
  <2>. QED BY <2>1, <2>2
<1>. QED BY <1>1, <1>2 DEF Alphabet

LEMMA BodyIsIn ==
    ASSUME NEW table, NEW text \in Seq(Byte), NEW padding \in 0..2, Len(text) >= padding
    PROVE  ToSet(SubSeq(text, 1, Len(text) - padding)) \subseteq Alphabet(table)
              <=> \A k \in 1..Len(text) - padding : text[k] \in Alphabet(table)
<1> DEFINE n == Len(text) - padding
           body == SubSeq(text, 1, n)
<1>1. Len(text) \in Nat /\ n \in Nat /\ n <= Len(text)
  BY LenProperties
<1> HIDE DEF n
<1>2. \A i \in 1..n : text[i] \in Byte
  <2>1. \A i \in 1..n : i \in 1..Len(text)
    BY <1>1
  <2>. QED BY <2>1, ElementOfSeq
<1>3. body \in Seq(Byte) /\ Len(body) = (IF 1 <= n THEN n - 1 + 1 ELSE 0)
      /\ \A i \in 1..n - 1 + 1 : body[i] = text[1 + i - 1]
  BY <1>1, <1>2, SubSeqProperties
<1> HIDE DEF body
<1>4. DOMAIN body = 1..n
  <2>1. Len(body) = n
    BY <1>1, <1>3
  <2>. QED BY <1>3, <2>1, LenProperties
<1>5. \A i \in 1..n : body[i] = text[i]
  <2>1. \A i \in 1..n : i \in 1..n - 1 + 1 /\ 1 + i - 1 = i
    BY <1>1
  <2>. QED BY <1>3, <2>1
<1>6. ToSet(body) = {body[i] : i \in 1..n}
  BY <1>4 DEF ToSet
<1>. QED BY <1>5, <1>6 DEF n, body

LEMMA ByteIsNat ==
    ASSUME NEW text \in Seq(Byte)
    PROVE  text \in Seq(Nat) /\ Len(text) \in Nat /\ \A k \in 1..Len(text) : text[k] \in Byte
<1>1. Byte \subseteq Nat
  BY SMT DEF Byte
<1>2. text \in Seq(Nat)
  BY <1>1, SeqMonotonic
<1>. QED BY <1>2, LenProperties, ElementOfSeq

\* What is decodable is formed with its paddings.
LEMMA DecodableIsFormed ==
    ASSUME NEW table \in Tables, NEW text \in Seq(Byte), IsDecodable(table, text)
    PROVE  PaddingCount(text) \in 0..2 /\ Formed(table, text, PaddingCount(text))
<1> DEFINE P == PaddingCount(text)
<1>1. text \in Seq(Nat) /\ Len(text) \in Nat /\ \A k \in 1..Len(text) : text[k] \in Byte
  BY ByteIsNat
<1>2. DOMAIN text = 1..Len(text)
  BY LenProperties
<1>3. P \in 0..2 /\ \A k \in 1..Len(text) : text[k] = PADDING_CHAR <=> k > Len(text) - P
  BY <1>1, PaddedAtEnd
<1>4. Len(text) > 0 /\ Len(text) % 4 = 0
  BY DEF IsDecodable, QUANTUM_SIZE
<1>5. Len(text) >= 4
  BY <1>1, <1>4
<1> HIDE DEF P
<1>6. \A k \in 1..Len(text) - P : text[k] \in Alphabet(table)
  <2>1. SUFFICES ASSUME NEW k \in 1..Len(text) - P PROVE text[k] \in Alphabet(table)
    OBVIOUS
  <2>2. k \in 1..Len(text) /\ ~(k > Len(text) - P)
    BY <1>1, <1>3
  <2>3. text[k] # PADDING_CHAR /\ SextetAt(table, text, k) # Invalid /\ text[k] \in Byte
    BY <1>1, <1>2, <1>3, <2>2 DEF IsDecodable
  <2>4. DecodeTable(table, text[k]) # Invalid
    BY <2>3 DEF SextetAt
  <2>. QED BY <2>3, <2>4, CharactersOf
<1>7. ToSet(SubSeq(text, 1, Len(text) - P)) \subseteq Alphabet(table)
  <2>1. Len(text) >= P
    BY <1>1, <1>3, <1>5
  <2>. QED BY <1>3, <1>6, <2>1, BodyIsIn
<1>8. \A k \in 1..P : text[Len(text) - k + 1] = PADDING_CHAR
  <2>1. \A k \in 1..P : Len(text) - k + 1 \in 1..Len(text) /\ Len(text) - k + 1 > Len(text) - P
    BY <1>1, <1>3, <1>5
  <2>. QED BY <1>3, <2>1
<1>. QED BY <1>3, <1>4, <1>7, <1>8 DEF Formed, P

\* What is formed is decodable, and its paddings are those that are counted.
LEMMA FormedIsDecodable ==
    ASSUME NEW table \in Tables, NEW text \in Seq(Byte), NEW padding \in 0..2, Formed(table, text, padding)
    PROVE  IsDecodable(table, text) /\ PaddingCount(text) = padding
<1>1. Len(text) \in Nat /\ (\A k \in 1..Len(text) : text[k] \in Byte) /\ DOMAIN text = 1..Len(text)
  BY ByteIsNat, LenProperties
<1>2. Len(text) > 0 /\ Len(text) % 4 = 0
  BY DEF Formed
<1>3. Len(text) >= 4
  BY <1>1, <1>2
<1>4. \A k \in 1..Len(text) - padding : text[k] \in Alphabet(table)
  <2>1. Len(text) >= padding
    BY <1>1, <1>3
  <2>2. ToSet(SubSeq(text, 1, Len(text) - padding)) \subseteq Alphabet(table)
    BY DEF Formed
  <2>. QED BY <2>1, <2>2, BodyIsIn
<1>5. \A k \in 1..Len(text) - padding :
         text[k] # PADDING_CHAR /\ DecodeTable(table, text[k]) # Invalid
  <2>1. SUFFICES ASSUME NEW k \in 1..Len(text) - padding
                 PROVE  text[k] # PADDING_CHAR /\ DecodeTable(table, text[k]) # Invalid
    OBVIOUS
  <2>2. k \in 1..Len(text)
    BY <1>1
  <2>3. text[k] \in Byte /\ text[k] \in Alphabet(table)
    BY <1>1, <1>4, <2>2
  <2>. QED BY <2>3, CharactersOf
<1>6. \A k \in 1..padding : text[Len(text) - k + 1] = PADDING_CHAR
  BY DEF Formed
<1>7. PaddingCount(text) = padding
  <2>1. \A k \in 0..padding - 1 : Len(text) - k > 1 /\ text[Len(text) - k] = PADDING_CHAR
    <3>1. SUFFICES ASSUME NEW k \in 0..padding - 1
                   PROVE  Len(text) - k > 1 /\ text[Len(text) - k] = PADDING_CHAR
      OBVIOUS
    <3>2. Len(text) - k > 1 /\ k + 1 \in 1..padding /\ Len(text) - (k + 1) + 1 = Len(text) - k
      BY <1>1, <1>3
    <3>. QED BY <1>6, <3>2
  <2>2. text[Len(text) - padding] # PADDING_CHAR
    <3>1. Len(text) - padding \in 1..Len(text) - padding
      BY <1>1, <1>3
    <3>. QED BY <1>5, <3>1
  <2>3. padding \in 0..Len(text)
    BY <1>1, <1>3
  <2>. QED BY <1>1, <2>1, <2>2, <2>3, PaddingIs
<1>8. WellPadded(text)
  <2>1. \A k \in 1..Len(text) - (1 + padding) : k \in 1..Len(text) - padding
    BY <1>1
  <2>2. padding <= 2
    OBVIOUS
  <2>. QED BY <1>5, <1>7, <2>1, <2>2 DEF WellPadded
<1>9. \A k \in DOMAIN text : SextetAt(table, text, k) # Invalid
  <2>1. SUFFICES ASSUME NEW k \in 1..Len(text) PROVE SextetAt(table, text, k) # Invalid
    BY <1>1
  <2>2. CASE text[k] = PADDING_CHAR
    <3>1. 0 # Invalid
      BY DEF Invalid
    <3>. QED BY <2>2, <3>1 DEF SextetAt
  <2>3. CASE text[k] # PADDING_CHAR
    <3>1. k \in 1..Len(text) - padding
      <4>1. SUFFICES ASSUME k > Len(text) - padding PROVE FALSE
        BY <1>1
      <4>2. Len(text) - k + 1 \in 1..padding /\ Len(text) - (Len(text) - k + 1) + 1 = k
        BY <1>1, <4>1
      <4>. QED BY <1>6, <2>3, <4>2
    <3>. QED BY <1>5, <2>3, <3>1 DEF SextetAt
  <2>. QED BY <2>2, <2>3
<1>. QED BY <1>2, <1>7, <1>8, <1>9 DEF IsDecodable, QUANTUM_SIZE


\* What is read from a text that is accepted, character by character.
LEMMA SextetsOfText ==
    ASSUME NEW table \in Tables, NEW text \in Seq(Byte), IsDecodable(table, text),
           NEW k \in 1..Len(text)
    PROVE  SextetAt(table, text, k) \in Sextet
<1>1. text[k] \in Byte /\ DOMAIN text = 1..Len(text)
  BY ByteIsNat, LenProperties
<1>2. SextetAt(table, text, k) # Invalid
  BY <1>1 DEF IsDecodable
<1>3. CASE text[k] = PADDING_CHAR
  <2>1. 0 \in Sextet
    BY SMT DEF Sextet
  <2>. QED BY <1>3, <2>1 DEF SextetAt
<1>4. CASE text[k] # PADDING_CHAR
  BY <1>1, <1>2, <1>4, CharactersOf DEF SextetAt
<1>. QED BY <1>3, <1>4

LEMMA LengthOfDecoded ==
    ASSUME NEW table, NEW text \in Seq(Nat), IsDecodable(table, text)
    PROVE  /\ DecodedSize(text) \in Nat
           /\ DecodedSize(text) = 3 * (Len(text) \div 4) - PaddingCount(text)
           /\ Len(Decode(table, text)) = DecodedSize(text)
<1>1. Len(text) \div 4 \in Nat \ {0} /\ PaddingCount(text) \in 0..2
  BY PaddedAtEnd
<1>2. DecodedSize(text) = 3 * (Len(text) \div 4) - PaddingCount(text)
  BY <1>1, SMT DEF DecodedSize, QUANTUM_SIZE, INPUT_GROUP_SIZE
<1>3. DecodedSize(text) \in Nat
  BY <1>1, <1>2
<1> DEFINE r == Decode(table, text)
<1>4. DOMAIN r = 1..DecodedSize(text) /\ r = [k \in 1..DecodedSize(text) |-> r[k]]
  BY DEF Decode
<1> HIDE DEF r
<1>5. Len(r) = DecodedSize(text)
  BY <1>3, <1>4, LengthOfFunction
<1>. QED BY <1>2, <1>3, <1>5 DEF r

\* Bit by bit, what is decoded is what its characters stand for.
LEMMA DecodedBits ==
    ASSUME NEW table \in Tables, NEW text \in Seq(Byte), IsDecodable(table, text),
           NEW n \in Nat, n < 8 * DecodedSize(text)
    PROVE  Bit(Decode(table, text)[(n \div 8) + 1], 7 - (n % 8))
              = Bit(SextetAt(table, text, (n \div 6) + 1), 5 - (n % 6))
<1> DEFINE q == n \div 24
           m == n % 24
           b == n \div 8
           s == [p \in 0..3 |-> SextetAt(table, text, 4 * q + p + 1)]
           Q == Len(text) \div 4
<1>1. text \in Seq(Nat)
  BY ByteIsNat
<1>2. Len(text) \in Nat /\ Q \in Nat /\ Len(text) = 4 * Q /\ PaddingCount(text) \in 0..2
  BY <1>1, PaddedAtEnd
<1>3. DecodedSize(text) \in Nat /\ DecodedSize(text) <= 3 * Q
  BY <1>1, <1>2, LengthOfDecoded
<1>4. /\ q \in Nat /\ m \in 0..23
      /\ b \div 3 = q /\ b % 3 = m \div 8 /\ n % 8 = m % 8
      /\ (n \div 6) + 1 = 4 * q + (m \div 6) + 1 /\ n % 6 = m % 6
      /\ m \div 6 \in 0..3 /\ m \div 8 \in 0..2
  BY PlaceOfBit
<1>5. b \in Nat /\ b < DecodedSize(text)
  BY <1>3, SMT
<1> HIDE DEF q, m, b, Q
<1>6. q < Q
  BY <1>2, <1>3, <1>4, <1>5, SMT
<1>7. \A p \in 0..3 : s[p] = SextetAt(table, text, 4 * q + p + 1) /\ s[p] \in Sextet
  <2>1. \A p \in 0..3 : 4 * q + p + 1 \in 1..Len(text)
    BY <1>2, <1>4, <1>6
  <2>. QED BY <2>1, SextetsOfText
<1>8. Decode(table, text)[b + 1] = ByteOf(Value(s[0], s[1], s[2], s[3]), m \div 8)
  <2>1. b + 1 \in 1..DecodedSize(text) /\ (b + 1) - 1 = b
    BY <1>3, <1>5
  <2>2. Decode(table, text)[b + 1]
           = ByteOf(Value(SextetAt(table, text, 4 * q + 1), SextetAt(table, text, 4 * q + 2),
                          SextetAt(table, text, 4 * q + 3), SextetAt(table, text, 4 * q + 4)), m \div 8)
    BY <1>4, <2>1 DEF Decode, INPUT_GROUP_SIZE
  <2>3. /\ 4 * q + 0 + 1 = 4 * q + 1 /\ 4 * q + 1 + 1 = 4 * q + 2
        /\ 4 * q + 2 + 1 = 4 * q + 3 /\ 4 * q + 3 + 1 = 4 * q + 4
    BY <1>4
  <2>4. 0 \in 0..3 /\ 1 \in 0..3 /\ 2 \in 0..3 /\ 3 \in 0..3
    OBVIOUS
  <2>. QED BY <2>2, <2>3, <2>4
<1> HIDE DEF s
<1>9. Bit(ByteOf(Value(s[0], s[1], s[2], s[3]), m \div 8), 7 - (m % 8)) = Bit(s[m \div 6], 5 - (m % 6))
  BY <1>4, <1>7, BitsOfQuantum
<1>10. s[m \div 6] = SextetAt(table, text, (n \div 6) + 1)
  BY <1>4, <1>7
<1>. QED BY <1>4, <1>8, <1>9, <1>10 DEF b

-----------------------------------------------------------------------------
(* What the calls return.                                                  *)

\* The input is one of the call's, and its result, once there is one, what was computed.
CallInv ==
    /\ call \in DOMAIN Inputs => input \in Inputs[call]
    /\ \/ result = <<>>
       \/ call = "encode" /\ result = <<Encode(input.table, input.data)>>
       \/ call = "decode" /\ result = <<Decode(input.table, input.text)>>
       \/ call = "find" /\ result = <<Find(input.source, input.target, TRUE)>>
       \/ call = "header" /\ result = <<GetHeader(input.lines, input.name)>>
       \/ call = "hmac" /\ result = <<Hmac(input.key, input.data)>>
       \/ call = "url" /\ result = <<IsForAzure(input)>>

LEMMA CallInvInit == CodecsInit => CallInv
BY DEF CodecsInit, CallInv

LEMMA CallInvNext == CallInv /\ [CodecsNext]_codecVars => CallInv'
<1> SUFFICES ASSUME CallInv, [CodecsNext]_codecVars PROVE CallInv'
  OBVIOUS
<1>1. CASE Base64Encode
  BY <1>1 DEF Base64Encode, Returns, CallInv
<1>2. CASE Base64Decode
  BY <1>2 DEF Base64Decode, Returns, CallInv
<1>3. CASE StringFind
  BY <1>3 DEF StringFind, Returns, CallInv
<1>4. CASE ResponseGetHeader
  BY <1>4 DEF ResponseGetHeader, Returns, CallInv
<1>5. CASE HmacSha256
  BY <1>5 DEF HmacSha256, Returns, CallInv
<1>6. CASE UploadUrlTest
  BY <1>6 DEF UploadUrlTest, Returns, CallInv
<1>7. CASE CorrelationIdByte
  BY <1>7 DEF CorrelationIdByte, CallInv
<1>8. CASE UNCHANGED codecVars
  BY <1>8 DEF codecVars, CallInv
<1>. QED BY <1>1, <1>2, <1>3, <1>4, <1>5, <1>6, <1>7, <1>8 DEF CodecsNext

LEMMA RoundTripHolds == CallInv => RoundTrip
<1> SUFFICES ASSUME CallInv, call = "encode", result # <<>>
             PROVE  Decode(input.table, result[1]) = input.data
  BY DEF RoundTrip, Returned
<1>1. input \in [table : {"plain", "url"}, data : Seq(Byte)]
  BY InputsAssumption DEF CallInv
<1>2. result = <<Encode(input.table, input.data)>>
  BY DEF CallInv
<1>3. Decode(input.table, Encode(input.table, input.data)) = input.data
  BY <1>1, WholeRoundTrip DEF Tables
<1>. QED BY <1>2, <1>3

LEMMA DecodesBitsHolds == CallInv => DecodesBits
<1> SUFFICES ASSUME CallInv, call = "decode", result # <<>> PROVE DecodesBits
  BY DEF DecodesBits, Returned
<1> DEFINE table == input.table
           text == input.text
           r == Decode(table, text)
<1>1. table \in Tables /\ text \in Seq(Byte)
  BY InputsAssumption DEF CallInv, Tables
<1>2. result = <<r>>
  BY DEF CallInv
<1> HIDE DEF table, text, r
<1>3. result[1] = r
  BY <1>2
<1>4. text \in Seq(Nat)
  BY <1>1, ByteIsNat
<1> DEFINE padding == CHOOSE p \in 0..2 : Formed(table, text, p)
           Accepted == \E p \in 0..2 : Formed(table, text, p)
           Right == /\ Len(r) = 3 * (Len(text) \div 4) - padding
                    /\ \A n \in 0..8 * Len(r) - 1 :
                          Bit(r[(n \div 8) + 1], 7 - (n % 8))
                              = Bit(SextetAt(table, text, (n \div 6) + 1), 5 - (n % 6))
                    /\ Writes(text) = 0..Len(r) - 1
<1>5. ASSUME NEW p \in 0..2, Formed(table, text, p)
      PROVE  Right
  <2>1. IsDecodable(table, text) /\ \A o \in 0..2 : Formed(table, text, o) => o = PaddingCount(text)
    BY <1>1, <1>5, FormedIsDecodable
  <2>2. padding = PaddingCount(text)
    <3>1. p = PaddingCount(text)
      BY <1>5, <2>1
    <3>. QED BY <1>5, <2>1, <3>1
  <2> HIDE DEF padding
  <2>3. /\ DecodedSize(text) \in Nat /\ Len(r) = DecodedSize(text)
        /\ DecodedSize(text) = 3 * (Len(text) \div 4) - PaddingCount(text)
    BY <1>4, <2>1, LengthOfDecoded DEF r
  <2>4. Writes(text) = 0..Len(r) - 1
    BY <1>4, <2>1, <2>3, DecodedFillsBuffer
  <2>5. ASSUME NEW n \in 0..8 * Len(r) - 1
        PROVE  Bit(r[(n \div 8) + 1], 7 - (n % 8)) = Bit(SextetAt(table, text, (n \div 6) + 1), 5 - (n % 6))
    <3>1. n \in Nat /\ n < 8 * DecodedSize(text)
      BY <2>3
    <3>. QED BY <1>1, <2>1, <3>1, DecodedBits DEF r
  <2>. QED BY <1>5, <2>2, <2>3, <2>4, <2>5
<1>6. ASSUME ~Accepted
      PROVE  r = <<>>
  <2>1. ~IsDecodable(table, text)
    BY <1>1, <1>6, DecodableIsFormed
  <2>. QED BY <2>1 DEF Decode, r
<1>7. Accepted => Right
  <2> HIDE DEF Right
  <2>. QED BY <1>5
<1>8. IF Accepted THEN Right ELSE r = <<>>
  <2> HIDE DEF Right, Accepted
  <2>. QED BY <1>6, <1>7
<1> HIDE DEF padding
<1>. QED BY <1>3, <1>8 DEF DecodesBits, Formed, Alphabet, table, text, padding

LEMMA FindSoundHolds == CallInv => FindSound
<1> SUFFICES ASSUME CallInv, call = "find", result # <<>> PROVE FindSound
  BY DEF FindSound, Returned
<1> DEFINE source == input.source
           target == input.target
           found == Find(source, target, TRUE)
<1>1. source \in Seq(Chars) /\ target \in Seq(Chars)
  BY InputsAssumption DEF CallInv
<1>2. result[1] = found
  <2>1. result = <<found>>
    BY Zenon DEF CallInv
  <2>. QED BY <2>1
<1> HIDE DEF source, target, found
<1>3. found.found => MatchesAt(source, target, TRUE, found.at)
  BY <1>1, FoundIsThere, Zenon DEF found
<1>4. target # <<>> /\ MatchesAt(source, target, TRUE, 0) => found = Found(0)
  BY <1>1, FoundAtBeginning, Zenon DEF found
<1>. QED BY <1>2, <1>3, <1>4, Zenon DEF FindSound, MatchesAt, source, target

LEMMA HeaderValueHolds == CallInv => HeaderValue
<1> SUFFICES ASSUME CallInv, call = "header", result # <<>> PROVE HeaderValue
  BY DEF HeaderValue, Returned
<1> DEFINE lines == input.lines
           name == input.name
<1>1. /\ lines \in Seq(Seq(Chars)) /\ name \in Seq(Chars)
      /\ name # <<>> /\ Colon \notin ToSet(name)
  <2>1. input \in Inputs.header
    BY InputsAssumption DEF CallInv
  <2> HIDE DEF ToSet
  <2>. QED BY <2>1, InputsAssumption
<1>2. result[1] = GetHeader(lines, name)
  BY DEF CallInv
<1> HIDE DEF lines, name
<1>3. ASSUME NEW k \in DOMAIN lines, \A m \in 1..k - 1 : ~Holds(lines[m], name),
             NEW value \in {SubSeq(lines[k], n, Len(lines[k])) : n \in 1..Len(lines[k]) + 1},
             lines[k] \in {name \o <<Colon>> \o value, name \o <<Colon, Blank>> \o value},
             value = <<>> \/ value[1] # Blank
      PROVE  GetHeader(lines, name) = value
  <2>1. lines[k] \in Seq(Chars) /\ Len(lines[k]) \in Nat
    <3>1. lines[k] \in Seq(Chars)
      BY <1>1, LenProperties, ElementOfSeq
    <3>. QED BY <3>1, LenProperties
  <2>2. PICK n \in 1..Len(lines[k]) + 1 : value = SubSeq(lines[k], n, Len(lines[k]))
    OBVIOUS
  <2>3. n \in Int /\ Len(lines[k]) \in Int /\ \A i \in n..Len(lines[k]) : lines[k][i] \in Chars
    <3>1. \A i \in n..Len(lines[k]) : i \in 1..Len(lines[k])
      BY <2>1
    <3>. QED BY <2>1, <3>1, ElementOfSeq
  <2>4. value \in Seq(Chars)
    BY <2>2, <2>3, SubSeqProperties
  <2>. QED BY <1>1, <1>3, <2>4, HeaderIsFound
<1>. QED BY <1>2, <1>3 DEF HeaderValue, lines, name

LEMMA HmacHolds == CallInv => HmacIsDefined
<1> SUFFICES ASSUME CallInv, call = "hmac", result # <<>>, input.key # <<>> PROVE HmacIsDefined
  BY DEF HmacIsDefined, Returned
<1> DEFINE key == input.key
           With(pad) == [k \in 1..BlockSize |-> Xor(Block(key)[k], pad)]
<1>1. key \in Seq({"byte"} \X Byte)
  BY InputsAssumption DEF CallInv
<1>2. result[1] = Hmac(key, input.data)
  BY DEF CallInv
<1> HIDE DEF key
<1>3. Padded(key, Opad) = With(Opad) /\ Padded(key, Ipad) = With(Ipad)
  BY <1>1, PaddedIsBlock
<1>4. Hmac(key, input.data) = Sha256(Padded(key, Opad) \o Sha256(Padded(key, Ipad) \o input.data))
  BY DEF Hmac, key
<1>5. Hmac(key, input.data) = Sha256(With(Opad) \o Sha256(With(Ipad) \o input.data))
  BY <1>3, <1>4
<1>. QED BY <1>2, <1>5 DEF HmacIsDefined, Block, key

LEMMA UrlHolds == CallInv => UrlIsRead
<1> SUFFICES ASSUME CallInv, call = "url", result # <<>>, input.length >= AzureSize PROVE UrlIsRead
  BY DEF UrlIsRead, Returned
<1>1. input \in [length : 0..Width - 1, dot : Nat, azure : BOOLEAN] /\ input.dot <= input.length
  BY InputsAssumption DEF CallInv
<1>2. result[1] = IsForAzure(input)
  BY DEF CallInv
<1>. QED BY <1>1, <1>2, UrlIsInside DEF UrlIsRead

\* For data, texts, keys and names of any length: base64 decodes what it encodes, and
\* refuses or reads any text bit by bit inside its buffer; what a search finds is there; a
\* header has its value; HMAC is the one of RFC 2104; no URL of sufficient length is read
\* outside (base64.c, string_util.c, http_response.c, hmac.c, data_lake_processor.c).
THEOREM ResultsStayRight == CodecsSpec => []ResultsAreRight
<1>1. CallInv => ResultsAreRight
  BY RoundTripHolds, DecodesBitsHolds, FindSoundHolds, HeaderValueHolds, HmacHolds, UrlHolds
  DEF ResultsAreRight
<1>. QED BY <1>1, CallInvInit, CallInvNext, PTL DEF CodecsSpec

-----------------------------------------------------------------------------
(* The correlation id, byte by byte.                                       *)

IdTypeOK == index \in 0..ByteLength /\ id = [c \in Cells |-> id[c]]
Unread == \A k \in index..ByteLength - 1 : id[k + ByteLength] = Random(k)
Written == \A k \in 0..index - 1 : id[2 * k] = High(k) /\ id[2 * k + 1] = Low(k)
Ended == index > 0 => id[2 * index] = End

\* What has not been read is not reached by what is written, as the text grows by two cells
\* a step and the bytes begin at half the buffer.
IdInv == IdTypeOK /\ Unread /\ Written /\ Ended

LEMMA IdInvInit == IdInit => IdInv
  BY ByteLengthAssumption DEF IdInit, IdInv, IdTypeOK, Unread, Written, Ended, Cells, Upper, Random

\* Three cells are written, and no other.
LEMMA ThreeCells ==
    ASSUME NEW S, NEW f, f = [s \in S |-> f[s]],
           NEW i \in S, NEW j \in S, NEW k \in S, i # j, i # k, j # k,
           NEW a, NEW b, NEW c, NEW g, g = [f EXCEPT ![i] = a, ![j] = b, ![k] = c]
    PROVE  /\ g[i] = a /\ g[j] = b /\ g[k] = c
           /\ \A s \in S : s \notin {i, j, k} => g[s] = f[s]
           /\ g = [s \in S |-> g[s]]
<1>1. g = [s \in S |-> IF s = k THEN c ELSE IF s = j THEN b ELSE IF s = i THEN a ELSE f[s]]
  OBVIOUS
<1> QED
  BY <1>1

LEMMA IdInvNext == IdInv /\ [PrintByte]_idVars => IdInv'
<1> SUFFICES ASSUME IdInv, [PrintByte]_idVars PROVE IdInv'
  OBVIOUS
<1> USE ByteLengthAssumption
<1>1. CASE PrintByte
  <2>1. /\ index \in 0..ByteLength - 1 /\ index' = index + 1
        /\ id = [c \in Cells |-> id[c]]
    BY <1>1 DEF PrintByte, IdInv, IdTypeOK
  <2>2. id[index + Upper] = Random(index)
    BY <2>1 DEF IdInv, Unread, Upper
  <2>3. id' = [id EXCEPT ![2 * index] = High(index), ![2 * index + 1] = Low(index), ![2 * index + 2] = End]
    BY <1>1, <2>2 DEF PrintByte, Of, Random, High, Low
  <2>4. 2 * index \in Cells /\ 2 * index + 1 \in Cells /\ 2 * index + 2 \in Cells
    BY <2>1 DEF Cells
  <2>5. /\ id'[2 * index] = High(index)
        /\ id'[2 * index + 1] = Low(index)
        /\ id'[2 * index + 2] = End
        /\ \A c \in Cells : c \notin {2 * index, 2 * index + 1, 2 * index + 2} => id'[c] = id[c]
        /\ id' = [c \in Cells |-> id'[c]]
    <3>1. 2 * index # 2 * index + 1 /\ 2 * index # 2 * index + 2 /\ 2 * index + 1 # 2 * index + 2
      BY <2>1
    <3> QED
      BY <2>1, <2>3, <2>4, <3>1, ThreeCells, Zenon
  <2>6. Unread'
    <3> SUFFICES ASSUME NEW k \in index + 1..ByteLength - 1 PROVE id'[k + ByteLength] = Random(k)
      BY <2>1 DEF Unread
    <3>1. k + ByteLength \in Cells /\ k + ByteLength > 2 * index + 2
      BY <2>1 DEF Cells
    <3>2. id[k + ByteLength] = Random(k)
      BY <2>1 DEF IdInv, Unread
    <3> QED
      BY <2>1, <2>5, <3>1, <3>2
  <2>7. Written'
    <3> SUFFICES ASSUME NEW k \in 0..index PROVE id'[2 * k] = High(k) /\ id'[2 * k + 1] = Low(k)
      BY <2>1 DEF Written
    <3>1. CASE k = index
      BY <2>5, <3>1
    <3>2. CASE k # index
      <4>1. /\ k \in 0..index - 1
            /\ 2 * k \in Cells /\ 2 * k + 1 \in Cells
            /\ 2 * k < 2 * index /\ 2 * k + 1 < 2 * index
        BY <2>1, <3>2 DEF Cells
      <4>2. id[2 * k] = High(k) /\ id[2 * k + 1] = Low(k)
        BY <4>1 DEF IdInv, Written
      <4> QED
        BY <2>1, <2>5, <4>1, <4>2
    <3> QED
      BY <3>1, <3>2
  <2>8. Ended'
    BY <2>1, <2>5 DEF Ended
  <2>9. IdTypeOK'
    BY <2>1, <2>5 DEF IdTypeOK
  <2> QED
    BY <2>6, <2>7, <2>8, <2>9 DEF IdInv
<1>2. CASE UNCHANGED idVars
  BY <1>2 DEF idVars, IdInv, IdTypeOK, Unread, Written, Ended
<1> QED
  BY <1>1, <1>2

\* With all bytes printed, every cell is a digit or the end.
LEMMA IdInvShows == IdInv => IdIsDigits
<1> SUFFICES ASSUME IdInv, index = ByteLength
             PROVE  /\ \A k \in 0..ByteLength - 1 : id[2 * k] = High(k) /\ id[2 * k + 1] = Low(k)
                    /\ id[2 * ByteLength] = End
  BY DEF IdIsDigits
<1>1. index > 0
  BY ByteLengthAssumption
<1> QED
  BY <1>1 DEF IdInv, Written, Ended

\* Whatever the number of its bytes, the text is their digits and its null, although it is
\* printed over the bytes (_generate_correlation_id_string of connectivity_processor.c).
THEOREM IdIsRight == IdSpec => []IdIsDigits
BY IdInvShows, IdInvInit, IdInvNext, PTL DEF IdSpec

\* The same of the id in the module of all the helpers, where other calls come between.
THEOREM IdStaysRight == CodecsSpec => []IdIsDigits
<1>1. CodecsInit => IdInit
  BY DEF CodecsInit
<1>2. [CodecsNext]_codecVars => [PrintByte]_idVars
  BY DEF CodecsNext, codecVars, Base64Encode, Base64Decode, StringFind, ResponseGetHeader,
         HmacSha256, UploadUrlTest, CorrelationIdByte, Returns
<1>3. IdInv /\ [CodecsNext]_codecVars => IdInv'
  BY <1>2, IdInvNext
<1>. QED BY <1>1, <1>3, IdInvInit, IdInvShows, PTL DEF CodecsSpec
=============================================================================
