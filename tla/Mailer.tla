--------------------------------- MODULE Mailer ---------------------------------
(***************************************************************************)
(* MailerService and its template adapters: the transporters made by the   *)
(* constructor, and what a mail is rendered with.  Compiling is            *)
(* synchronous, so that one mail is rendered in one step; files are read   *)
(* when they are first needed and any read may fail.                       *)
(*                                                                         *)
(* nodemailer, which runs the "compile" plugins of a transporter for every *)
(* mail, and the template engines are external.  A file is the pair of its *)
(* directory under partials.dir and its name without extension, and a      *)
(* template names a partial by such a pair; handlebars looks a partial up  *)
(* in the runtime option first, then in its global registry.               *)
(***************************************************************************)
EXTENDS Naturals, SequencesExt

CONSTANTS
    Mails,          \* the calls of sendMail
    Names,          \* the transporters that options.transports may hold
    Partials,       \* the *.hbs files below partials.dir, in the order readdir lists them
    Templates       \* the files mails are rendered from

VARIABLES
    options,        \* the MailerOptions, and whether mails come with their html
    service,        \* the MailerService: "none", "up" or "refused" by its constructor
    transporters,   \* the named transporters, and "" for the default one
    precompiled,    \* precompiledTemplates[file]: whose compile options it was compiled with
    partials,       \* partials[name]: the file last registered by that basename
    registered,     \* partialsRegistered
    global,         \* the partials of the handlebars module, by their path
    mail,           \* mail[m]: how far mail m is
    seen            \* history, seen[m]: the file that each partial m names resolved to

vars == <<options, service, transporters, precompiled, partials, registered, global, mail, seen>>

Empty == [f \in {} |-> f]
Files == ToSet(Partials)

Options ==
    [transport : {"absent", "empty", "given"}, transports : {"absent", "given"},
     adapter : {"none", "handlebars", "pug", "ejs"}, partials : BOOLEAN, html : BOOLEAN]

Init ==
    /\ options \in Options
    /\ service = "none"
    /\ transporters = {}
    /\ precompiled = Empty
    /\ partials = Empty
    /\ registered = FALSE
    /\ global = Empty
    /\ mail = [m \in Mails |-> "idle"]
    /\ seen = [m \in Mails |-> Empty]

--------------------------------------------------------------------------------
\* The constructor.  An empty transport is not enough without named ones; beside
\* them it makes a default transporter.
Construct ==
    /\ service = "none"
    /\ IF options.transport # "given" /\ options.transports = "absent"
       THEN service' = "refused" /\ UNCHANGED transporters
       ELSE /\ service' = "up"
            /\ transporters' = {name \in Names : options.transports = "given"}
                                \cup {name \in {""} : options.transport # "absent"}
    /\ UNCHANGED <<options, precompiled, partials, registered, global, mail, seen>>

\* A transporter that does not exist rejects the call with a ReferenceError.
SendMail(m, name) ==
    /\ service = "up" /\ mail[m] = "idle"
    /\ mail' = [mail EXCEPT ![m] = IF name \in transporters THEN "compile" ELSE "rejected"]
    /\ UNCHANGED <<options, service, transporters, precompiled, partials, registered, global, seen>>

\* The plugin of initTemplateAdapter: html needs no template.
SkipTemplate(m) ==
    /\ mail[m] = "compile"
    /\ options.adapter = "none" \/ options.html
    /\ mail' = [mail EXCEPT ![m] = "rendered"]
    /\ UNCHANGED <<options, service, transporters, precompiled, partials, registered, global, seen>>

\* applyRenderedHtml: the callback gets the error of the inlined css, or none.
ApplyRenderedHtml(m) ==
    mail' \in {[mail EXCEPT ![m] = end] : end \in {"rendered", "failed"}}

Fail(m) == mail' = [mail EXCEPT ![m] = "failed"]

\* renderFile: an error goes to the callback, a body is applied.
RenderFile(m) ==
    /\ mail[m] = "compile" /\ ~options.html
    /\ Fail(m) \/ ApplyRenderedHtml(m)
    /\ UNCHANGED <<options, service, transporters, precompiled, partials, registered, global, seen>>

PugCompile(m) == options.adapter = "pug" /\ RenderFile(m)
EjsCompile(m) == options.adapter = "ejs" /\ RenderFile(m)

--------------------------------------------------------------------------------
(* HandlebarsAdapter.                                                          *)

\* What the first n files leave in this.partials (by basename, the last one wins)
\* and in the registry of the module (by path).
Basenames(n) ==
    [name \in {Partials[i][2] : i \in 1..n} |->
        Partials[SelectLastInSubSeq(Partials, 1, n, LAMBDA file : file[2] = name)]]
Paths(n) == [file \in {Partials[i] : i \in 1..n} |-> file]

\* The new entries before the old ones; @@ is this, but cannot be proved about in
\* an instance.
Updated(old, new) ==
    [x \in DOMAIN old \cup DOMAIN new |-> IF x \in DOMAIN new THEN new[x] ELSE old[x]]

\* Mutant: the flag is set before the files are read.
RegisterFlagged(n, g) ==
    /\ partials' = Updated(partials, Basenames(n))
    /\ global' = Updated(global, Paths(g))
    /\ registered' = TRUE

\* registerPartials: n files are compiled and g of them are registered, before a
\* file cannot be read; each is read twice.
Register(n, g) ==
    /\ partials' = Updated(partials, Basenames(n))
    /\ global' = Updated(global, Paths(g))
    /\ registered' = (g = Len(Partials))

\* Precompile, for the template and the first n partials: a file that was compiled
\* before keeps the options it was compiled with.
Precompile(template, n) ==
    precompiled' = precompiled @@ (template :> "template")
                   @@ [file \in {Partials[i] : i \in 1..n} |-> "partials"]

\* What a template gets for a partial that it names by its path: the runtime
\* option, which knows basenames only, comes before the registry.
Resolved(file) ==
    IF file[1] = "" /\ file[2] \in DOMAIN partials' THEN {partials'[file[2]]}
    ELSE {g \in DOMAIN global' : g = file}

\* The template is rendered, which fails when it names an unknown partial.
Render(m) ==
    \/ Fail(m) /\ UNCHANGED seen
    \/ ApplyRenderedHtml(m) /\ seen' = [seen EXCEPT ![m] = [file \in Files |-> Resolved(file)]]

\* HandlebarsAdapter.compile: an error of any of its steps goes to the callback.
Compile(m, template) ==
    /\ mail[m] = "compile" /\ options.adapter = "handlebars" /\ ~options.html
    /\ \/ /\ template \notin DOMAIN precompiled
          /\ Fail(m)
          /\ UNCHANGED <<precompiled, partials, registered, global, seen>>
       \/ /\ options.partials /\ ~registered
          /\ \E n \in 0..Len(Partials) : \E g \in {n - 1, n} \cap Nat :
                /\ Precompile(template, n)
                /\ Register(n, g)
                /\ IF g = Len(Partials) THEN Render(m) ELSE Fail(m) /\ UNCHANGED seen
       \/ /\ ~options.partials \/ registered
          /\ Precompile(template, 0)
          /\ UNCHANGED <<partials, registered, global>>
          /\ Render(m)
    /\ UNCHANGED <<options, service, transporters>>

--------------------------------------------------------------------------------
Next ==
    \/ Construct
    \/ \E m \in Mails :
        \/ \E name \in Names \cup {""} : SendMail(m, name)
        \/ SkipTemplate(m)
        \/ PugCompile(m) \/ EjsCompile(m)
        \/ \E template \in Templates : Compile(m, template)

Spec == Init /\ [][Next]_vars

--------------------------------------------------------------------------------
\* A mail that is rendered with partials gets each of them, also when an earlier
\* mail failed half-way through their registration, and gets the file it names;
\* only the name of a file at the top may stand for one below with that basename.
RenderedWithAll ==
    \A m \in Mails :
        mail[m] = "rendered" /\ options.adapter = "handlebars" /\ ~options.html /\ options.partials
        => \A file \in Files :
            \/ seen[m][file] = {file}
            \/ /\ file[1] = ""
               /\ \E other \in Files \ {file} : other[2] = file[2] /\ seen[m][file] = {other}

================================================================================
