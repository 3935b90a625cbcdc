------------------------------- MODULE QueryParams -------------------------------
(***************************************************************************)
(* What a controller gets of a request: JwtAuthGuard and RolesGuard let it *)
(* pass, the decorators FilteringParams, Sorting and Pagination read its   *)
(* query, calculatePagination describes the page and ResponseInterceptor   *)
(* wraps the answer.  One request, step by step.                           *)
(*                                                                         *)
(* A text is a sequence of tokens, a word or a separator each.             *)
(***************************************************************************)
EXTENDS Integers, FiniteSetsExt, SequencesExt

CONSTANTS
    Rules,          \* the rules that filters of the requests use
    Words,          \* the values of filters
    Number,         \* the JavaScript Number() of the words that have one
    MaxFilters,     \* bound: filters of a request
    MaxValues,      \* bound: values of a filter
    MaxTotal        \* bound: items that are paged

VARIABLES
    input,          \* the request, its route, and the number of items
    pc,             \* "auth", "guard", "params", "handler", "answered"; "401", "403" or "400"
    filters,        \* what FilteringParams returned
    sorting,        \* what Sorting returned
    pagination,     \* what Pagination returned
    response        \* the body of the answer and the headers it carries over

vars == <<input, pc, filters, sorting, pagination, response>>

MAX_SIZE == 100
DEFAULT_PAGE == 1
DEFAULT_SIZE == 10
DEFAULT_SORT_DIRECTION == "asc"
FilterRule == {"eq", "neq", "gt", "gte", "lt", "lte", "like", "nlike", "in", "nin", "isnull", "isnotnull"}

--------------------------------------------------------------------------------
(* JwtAuthGuard and RolesGuard.  A metadata is {} or the set of its value.     *)

\* The metadata of the handler before that of its class.
AllAndOverride(handler, class) == IF handler # {} THEN handler ELSE class

IsPublic(route) == TRUE \in AllAndOverride(route.handlerPublic, route.classPublic)

\* JwtStrategy.validate makes a user of the payload of a valid token that has a sub;
\* roles are kept and other claims, such as role, are copied.
Validate(payload) ==
    {[roles |-> p.roles, role |-> p.role] : p \in {p \in payload : p.sub}}

Authenticated(route, payload) == IsPublic(route) \/ Validate(payload) # {}

\* normalizeRoles; the roles of the requests differ in more than case and spaces.
HasAnyRequiredRole(user, required) ==
    user # {} /\ required \cap UNION {u.roles \cup u.role : u \in user} # {}

CanActivate(route, user) ==
    LET required == UNION AllAndOverride(route.handlerRoles, route.classRoles) IN
    IsPublic(route) \/ required = {} \/ HasAnyRequiredRole(user, required)

--------------------------------------------------------------------------------
(* FilteringParams.                                                            *)

\* The separators of a text.
Colon == ":"
Comma == ","

\* The buffer has one colon, and what follows it is "in" or "nin".
AtList(buffer) ==
    /\ \E i \in DOMAIN buffer : \A j \in DOMAIN buffer : buffer[j] = Colon <=> j = i
    /\ Last(buffer) \in {"in", "nin"}

\* Mutant: once protected, every comma belongs to the list of values.
ScanGreedy(s, char) ==
    IF char = Comma /\ ~s.inValue
    THEN [filters |-> Append(s.filters, s.buffer), buffer |-> <<>>, inValue |-> FALSE]
    ELSE [s EXCEPT !.buffer = Append(@, char),
                   !.inValue = @ \/ (char = Colon /\ AtList(s.buffer))]

\* One character of parseFilters: the colon after "in" or "nin" protects the next
\* comma, and no more than that one.
Scan(s, char) ==
    IF char = Comma /\ ~s.inValue
    THEN [filters |-> Append(s.filters, s.buffer), buffer |-> <<>>, inValue |-> FALSE]
    ELSE [s EXCEPT !.buffer = Append(@, char),
                   !.inValue = IF char = Colon /\ AtList(s.buffer) THEN TRUE ELSE @ /\ char # Comma]

\* The loop, after each number of characters.
Scanned(text) ==
    LET scanned[n \in 0..Len(text)] ==
            IF n = 0 THEN [filters |-> <<>>, buffer |-> <<>>, inValue |-> FALSE]
            ELSE Scan(scanned[n - 1], text[n]) IN
    scanned

ParseFilters(text) ==
    LET end == Scanned(text)[Len(text)] IN
    IF end.buffer = <<>> THEN end.filters ELSE Append(end.filters, end.buffer)

\* formatRegex: property:rule, and then a colon and words with commas between them.
Formatted(filter) ==
    /\ Len(filter) >= 3
    /\ {filter[1], filter[3]} \cap {Colon, Comma} = {} /\ filter[2] = Colon
    /\ Len(filter) > 3 =>
        /\ filter[4] = Colon
        /\ \A i \in 5..Len(filter) : filter[i] # Colon /\ (filter[i] = Comma <=> i % 2 = 0)
        /\ Last(filter) # Comma

\* convertFilterValue: the kind of value and what it is; of isnull it is undefined,
\* and dropped below.
ConvertFilterValue(rule, value) ==
    CASE rule \in {"gt", "gte", "lt", "lte"} ->
            IF value \in DOMAIN Number THEN <<"number", Number[value]>> ELSE <<"NaN">>
      [] rule \in {"eq", "neq"} /\ value \in DOMAIN Number -> <<"number", Number[value]>>
      [] OTHER -> <<"string", value>>

\* Every other token from the fifth on is a value.  A list is only split for "in" and
\* "nin", and a filter of another rule has no comma, since parseFilters ends it there.
ReadFilter(filter) ==
    [property |-> filter[1], rule |-> filter[3],
     values |-> IF filter[3] \in {"isnull", "isnotnull"} THEN <<>>
                ELSE [i \in 1..((Len(filter) - 3) \div 2) |-> ConvertFilterValue(filter[3], filter[2 * i + 3])]]

\* The rule is compared without regard to case, and its case is kept.
ValidRule(rule) == rule \in FilterRule \cup {"IN"}

FilteringAccepts(text, validProperties) ==
    \A filter \in ToSet(ParseFilters(text)) :
        Formatted(filter) /\ filter[1] \in validProperties /\ ValidRule(filter[3])

FilteringParams(text) == [i \in DOMAIN ParseFilters(text) |-> ReadFilter(ParseFilters(text)[i])]

--------------------------------------------------------------------------------
(* Sorting and pagination.                                                     *)

\* ?sort=a&sort=b is read like ?sort=a,b; sorts is the sequence of the fields given.
SortingAccepts(sorts, fieldNames) ==
    \A i \in DOMAIN sorts : sorts[i].order \in {"", "asc", "desc"} /\ sorts[i].field \in fieldNames

Sorting(sorts) ==
    [i \in DOMAIN sorts |->
        [field |-> sorts[i].field, order |-> IF sorts[i].order = "" THEN DEFAULT_SORT_DIRECTION ELSE sorts[i].order]]

\* A parameter is absent, or what Number makes of it: an integer or not.
Absent == <<"absent">>
NotInteger == <<"not an integer">>
Given(n) == <<"integer", n>>

Valid(param, max) == param = Absent \/ (param[1] = "integer" /\ param[2] >= 1 /\ param[2] <= max)
PaginationAccepts(page, size) == Valid(page, IF page[1] = "integer" THEN page[2] ELSE 0) /\ Valid(size, MAX_SIZE)
Pagination(page, size) ==
    [page |-> IF page = Absent THEN DEFAULT_PAGE ELSE page[2],
     size |-> IF size = Absent THEN DEFAULT_SIZE ELSE size[2]]

Ceil(a, b) == (a + b - 1) \div b

\* Mutant: the total is rounded down.
CalculateFloored(total, page, size) ==
    [page |-> page, size |-> size, total |-> total, totalPages |-> total \div size,
     hasNext |-> page < total \div size, hasPrevious |-> page > 1]

CalculatePagination(total, page, size) ==
    [page |-> page, size |-> size, total |-> total, totalPages |-> Ceil(total, size),
     hasNext |-> page < Ceil(total, size), hasPrevious |-> page > 1]

--------------------------------------------------------------------------------
(* The requests: one part of each is free, the rest as in NoInput.             *)

\* How a filter is written, and the first filters of a list.
Text(f) ==
    [k \in 1..3 + 2 * Len(f.values) |->
        CASE k = 1 -> f.property
          [] k = 3 -> f.rule
          [] k \in {2, 4} -> Colon
          [] OTHER -> IF k % 2 = 0 THEN Comma ELSE f.values[(k - 3) \div 2]]
Texts(list) ==
    LET texts[n \in 0..Len(list)] ==
            IF n = 0 THEN <<>>
            ELSE IF n = 1 THEN Text(list[1])
            ELSE texts[n - 1] \o <<Comma>> \o Text(list[n]) IN
    texts
Written(list) == Texts(list)[Len(list)]

PublicRoute == [handlerPublic |-> {}, classPublic |-> {TRUE}, handlerRoles |-> {}, classRoles |-> {}]
NoInput ==
    [route |-> PublicRoute, payload |-> {}, filters |-> <<>>, sort |-> <<>>, page |-> Absent, size |-> Absent,
     total |-> 0, headers |-> {}, returns |-> "object"]

Orders == {"", "asc", "desc", "up"}
Metadata(values) == {{}} \cup {{v} : v \in values}
Roles == {{}, {"admin"}, {"user", "admin"}}
RouteInputs ==
    {[NoInput EXCEPT !.route = r.route, !.payload = r.payload] : r \in
        [route : [handlerPublic : Metadata({TRUE}), classPublic : Metadata({TRUE}),
                  handlerRoles : Metadata(Roles), classRoles : Metadata(Roles)],
         payload : Metadata([sub : BOOLEAN, roles : Roles, role : {{}, {"user"}}])]}
FilterInputs ==
    {[NoInput EXCEPT !.filters = list] :
        list \in BoundedSeq([property : {"age", "other"}, rule : Rules, values : BoundedSeq(Words, MaxValues)], MaxFilters)}
SortInputs ==
    {[NoInput EXCEPT !.sort = r.sort, !.headers = r.headers, !.returns = r.returns] : r \in
        [sort : BoundedSeq([field : {"age", "other"}, order : Orders], 2),
         headers : SUBSET {"x-id", "x-other"}, returns : {"array", "object"}]}
PageInputs ==
    {[NoInput EXCEPT !.page = r.page, !.size = r.size, !.total = r.total] : r \in
        [page : {Absent, NotInteger} \cup {Given(n) : n \in 0..3},
         size : {Absent, NotInteger} \cup {Given(n) : n \in {0, 1, 2, 3, 100, 101}},
         total : 0..MaxTotal]}
Inputs == RouteInputs \cup FilterInputs \cup SortInputs \cup PageInputs

Init ==
    /\ input \in Inputs
    /\ pc = "auth"
    /\ filters = <<>> /\ sorting = <<>>
    /\ pagination = [page |-> DEFAULT_PAGE, size |-> DEFAULT_SIZE]
    /\ response = [body |-> {}, headers |-> {}]

\* JwtAuthGuard is the guard of the application, RolesGuard comes after it.
Authenticate ==
    /\ pc = "auth"
    /\ pc' = IF Authenticated(input.route, input.payload) THEN "guard" ELSE "401"
    /\ UNCHANGED <<input, filters, sorting, pagination, response>>

Guard ==
    /\ pc = "guard"
    /\ pc' = IF CanActivate(input.route, Validate(input.payload)) THEN "params" ELSE "403"
    /\ UNCHANGED <<input, filters, sorting, pagination, response>>

\* The parameters of the handler are read before it is called.
ReadParams ==
    /\ pc = "params"
    /\ IF /\ FilteringAccepts(Written(input.filters), {"age"})
          /\ SortingAccepts(input.sort, {"age"})
          /\ PaginationAccepts(input.page, input.size)
       THEN /\ pc' = "handler"
            /\ filters' = FilteringParams(Written(input.filters))
            /\ sorting' = Sorting(input.sort)
            /\ pagination' = Pagination(input.page, input.size)
       ELSE pc' = "400" /\ UNCHANGED <<filters, sorting, pagination>>
    /\ UNCHANGED <<input, response>>

\* The handler pages its items; ResponseInterceptor wraps an array in "data" and
\* carries the configured headers over that the request has.
Respond ==
    /\ pc = "handler"
    /\ pc' = "answered"
    /\ response' =
        [body |-> IF input.returns = "array" THEN {"data"}
                  ELSE {CalculatePagination(input.total, pagination.page, pagination.size)},
         headers |-> input.headers \cap {"x-id"}]
    /\ UNCHANGED <<input, filters, sorting, pagination>>

Next == Authenticate \/ Guard \/ ReadParams \/ Respond
Spec == Init /\ [][Next]_vars

--------------------------------------------------------------------------------
\* A list of filters reaches the handler as it was written, each value as its rule
\* has it, or the request is refused; and a list of good filters is refused only
\* for an "in" or "nin" of more than two values, or of one with a filter after it.
ReadAsWritten ==
    LET list == input.filters
        Value(rule, v) == IF rule \in {"gt", "gte", "lt", "lte"} \/ (rule \in {"eq", "neq"} /\ v \in DOMAIN Number)
                          THEN IF v \in DOMAIN Number THEN <<"number", Number[v]>> ELSE <<"NaN">>
                          ELSE <<"string", v>>
        Good(f) == /\ f.property = "age" /\ ValidRule(f.rule)
                   /\ f.rule \notin {"in", "nin"} => Len(f.values) <= 1
        Unread(i) == /\ list[i].rule \in {"in", "nin"}
                     /\ \/ Len(list[i].values) > 2
                        \/ Len(list[i].values) = 1 /\ i < Len(list) IN
    /\ pc \in {"handler", "answered"} =>
        /\ Len(filters) = Len(list)
        /\ \A i \in DOMAIN list :
            /\ filters[i].property = list[i].property /\ filters[i].rule = list[i].rule
            /\ filters[i].values =
                 IF list[i].rule \in {"isnull", "isnotnull"} THEN <<>>
                 ELSE [k \in DOMAIN list[i].values |-> Value(list[i].rule, list[i].values[k])]
    /\ pc = "400" /\ list # <<>> /\ (\A i \in DOMAIN list : Good(list[i])) => \E i \in DOMAIN list : Unread(i)

\* Who starts at page 1 and goes on as long as there is a next page gets every item
\* exactly once and, unless there is none, no empty page.
PagesCover ==
    LET size == pagination.size
        Next_(p) == CalculatePagination(input.total, p, size).hasNext
        Reached == {p \in 1..input.total + 1 : \A q \in 1..p - 1 : Next_(q)}
        Items(p) == ((p - 1) * size + 1) .. Min({p * size, input.total}) IN
    pc = "answered" =>
        /\ \A item \in 1..input.total : \E p \in Reached : item \in Items(p)
        /\ \A p \in Reached : Items(p) # {} \/ input.total = 0
        /\ Reached = 1..CalculatePagination(input.total, 1, size).totalPages \/ input.total = 0

================================================================================
