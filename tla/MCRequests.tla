----------------------------- MODULE MCRequests -----------------------------
(* TLC instance of Requests: what clients ask for.                         *)
EXTENDS Requests

CONSTANTS r1, r2    \* model values

Pair == {r1, r2}

By(field, desc)  == [field |-> field, desc |-> desc]
Is(field, value) == [field |-> field, value |-> value]

List(page, limit, sorts, filters) ==
    [route |-> "list", rid |-> "none", uid |-> "good", page |-> page,
     limit |-> limit, sorts |-> sorts, filters |-> filters]

(* Pages of one list, the last so far out that its offset overflows; ties  *)
(* broken by id; a filter; parameters that are dropped; a filter the       *)
(* database refuses.                                                       *)
ByID  == <<By("id", TRUE)>>
Ties  == <<By("name", FALSE), By("id", FALSE)>>
Lists == {List(page, 2, ByID, {}) : page \in {0, 2, 100}}
           \cup {List(page, 1, Ties, {Is("name", 1)}) : page \in {1, 2}}
           \cup {List(1, 0, <<By("password", FALSE)>>,
                      {Is("password", 1), Is("created_at", 1)}),
                 List(1, 100, <<>>, {Is("id", NaN)})}

On(route, target, uid, body) ==
    [route |-> route, rid |-> "client", uid |-> uid, target |-> target, body |-> body]
ByBody == {On(route, 1, "good", body) : route \in {"create", "update"},
                                        body \in {"good", "invalid"}}
Others == {On("get", 1, "good", "none"), On("get", NaN, "good", "none"),
           On("get", 1, "missing", "none"), On("delete", 2, "good", "none"),
           On("delete", 1, "junk", "none"), On("create", 1, "good", "large")}

Auths == {[route |-> route, rid |-> rid, uid |-> "missing", body |-> "good"] :
            route \in {"register", "login"}, rid \in {"none", "client"}}

AllAsks == Lists \cup ByBody \cup Others \cup Auths
=============================================================================
