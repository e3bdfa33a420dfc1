----------------------------- MODULE MCDispatch -----------------------------
(***************************************************************************)
(* Instances of Dispatch for TLC: the server's own routes, named as in the *)
(* table, and requests that fit them, miss them, or are refused on the     *)
(* way.  Of the orders of traversal, those are told apart that change the  *)
(* order among routes that one path matches: the two of one product.       *)
(***************************************************************************)
EXTENDS Dispatch, RouteTable

CONSTANTS w1, w2

MCTwoThreads == {w1, w2}
MCOneThread == {w1}

MCSymmetry == Permutations(MCTwoThreads)

Names(Test(_)) == {Table[i].name : i \in {j \in DOMAIN Table : Test(Table[j])}}

Named(name) == CHOOSE r \in ToSet(Table) : r.name = name

MCRoutes == {r.name : r \in ToSet(Table)}
MCProductRoutes == {"productId", "productSlug"}
MCPostRoutes == Names(LAMBDA r : r.method = "POST")

MCMethod == [n \in MCRoutes |-> Named(n).method]
MCPattern == [n \in MCRoutes |-> Named(n).pattern]
MCDynamic == Names(LAMBDA r : r.handler = "dynamic") \cap Routes
MCGuarded == Names(LAMBDA r : r.guarded)
MCNeeds == [n \in MCRoutes |-> Named(n).needs]
MCOutcomes == [n \in MCRoutes |-> Named(n).outcomes]

Listed == [i \in DOMAIN Table |-> Table[i].name]
MCOrders ==
  {SelectSeq(o, LAMBDA n : n \in Routes) : o \in {Listed, Reverse(Listed)}}

MCParamName == ("{id}" :> "id") @@ ("{slug}" :> "slug")
MCNumeric == {"7", "8"}
MCSlugLike == {"7", "8", "shoe"}
MCTagged == ("<b>7" :> "7")

Send(m, path, b) == [method |-> m, path |-> Slash(path), body |-> b]

Get(path) == Send("GET", path, "none")

ProductRequests ==
  {Get(<<"products", v>>) : v \in {"7", "8", "shoe", "<b>7", "a.b"}}

(* Ambiguous, unique, refused, of every method and kind of body, and with
   paths that repeat a pattern literally.                                  *)
MCRequests ==
  ProductRequests
  \cup {Get(<<"users", v>>) : v \in {"7", "8", "{id}"}}
  \cup {Get(<<"products", "7", v>>) : v \in {"shoe", "", "a.b"}}
  \cup {Get(p) : p \in {<<"">>, <<"users">>, <<"create">>,
                        <<"products", "{id}">>}}
  \cup {[method |-> "GET", path |-> <<"test">>, body |-> "none"]}
  \cup {Send("POST", <<"create">>, b) : b \in {"none", "text", "object"}}
  \cup {Send("PUT", <<"update_user", "{id}">>, b) : b \in {"object", "array"}}
  \cup {Send("PUT", <<"update_user", "7">>, "object"),
        Send("PUT", <<"update", "7">>, "object")}
  \cup {Send(m, <<"create">>, "none") : m \in {"OPTIONS", "TRACE"}}

MCIdRequests == {Get(<<"products", "7">>), Get(<<"products", "8">>)}
MCPostRequests == {Send("POST", <<"create">>, "object")}
=============================================================================
