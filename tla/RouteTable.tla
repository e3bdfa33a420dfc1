----------------------------- MODULE RouteTable -----------------------------
(***************************************************************************)
(* The routes of the server: what RouteConfigurator::configure_routes lets *)
(* the four controllers register, in that order, before the first request  *)
(* comes.  A target is split at its slashes, so that "/users" has an empty *)
(* segment in front and "test", which lacks the slash, has not.            *)
(***************************************************************************)
EXTENDS Sequences, SequencesExt

Slash(segments) == <<"">> \o segments

(* A route whose lambda takes the keys needs; if guarded, it catches what
   params.at throws.                                                       *)
Route(name, handler, method, pattern, needs, guarded, outcomes) ==
  [name |-> name, handler |-> handler, method |-> method, pattern |-> pattern,
   needs |-> needs, guarded |-> guarded, outcomes |-> outcomes]

(* Controller::add_route wraps a lambda in a UnifiedRequestHandler.        *)
Unified(name, method, pattern, needs) ==
  Route(name, "unified", method, pattern, needs, TRUE, {200})

(* The lambdas of the products turn out_of_range into invalid_argument.    *)
Product(name, pattern, needs) ==
  Route(name, "dynamic", "GET", Slash(<<"products">> \o pattern), needs, FALSE,
        {200})

User(name, method, pattern, needs, outcomes) ==
  Route(name, "dynamic", method, Slash(pattern), needs, TRUE, outcomes)

HomeRoutes == <<Unified("home", "GET", Slash(<<"">>), {})>>

ProductRoutes ==
  <<Product("productId", <<"{id}">>, {"id"}),
    Product("productSlug", <<"{slug}">>, {"slug"}),
    Product("productBoth", <<"{id}", "{slug}">>, {"id", "slug"})>>

(* All users, or none, or the database fails.                              *)
FindAllRoute == User("users", "GET", <<"users">>, {}, {200, 204, 500})

FindRoute ==
  User("userId", "GET", <<"users", "{id}">>, {"id"}, {200, 404, 500})

(* These two are never given the body they ask for.                        *)
CreateRoute == User("create", "POST", <<"create">>, {"body"}, {})

UpdateRoute == User("update", "PUT", <<"update", "{id}">>, {"id", "body"}, {})

UserRoutes == <<FindAllRoute, FindRoute, CreateRoute, UpdateRoute>>

TestRoutes ==
  <<Unified("testHome", "GET", Slash(<<"">>), {}),
    Unified("test", "GET", <<"test">>, {}),
    Unified("updateUser", "PUT", Slash(<<"update_user", "{id}">>), {"id"})>>

(* routes_[{method, route}] = handler: the last registration of a key wins *)
AddRoute(table, r) ==
  SelectSeq(table, LAMBDA s : s.method # r.method \/ s.pattern # r.pattern)
  \o <<r>>

(* configure_routes                                                        *)
Table ==
  FoldLeft(AddRoute, <<>>,
           HomeRoutes \o ProductRoutes \o UserRoutes \o TestRoutes)
=============================================================================
