--------------------------- MODULE MCOneShotDaemon ---------------------------
(* Configuration files for the runs of OneShotDaemon.                       *)
EXTENDS OneShotDaemon

Minimal ==
    [control_plane_url |-> {"url"}, runner_id |-> {}, registration_token_env |-> {"TOKEN"},
     credential_placeholder |-> {}, max_concurrency |-> {}, allowed_working_groups |-> {},
     env_allowlist |-> {}, risky_action_allowlist |-> {}, job_timeout_seconds |-> {}]

(* Files with and without each of the fields a property reads. *)
Good ==
    {[Minimal EXCEPT !.runner_id = r, !.credential_placeholder = p, !.max_concurrency = m,
                     !.allowed_working_groups = g] :
        r \in {{}, {"runner"}}, p \in {{}, {"cred"}}, m \in {{}, {2}},
        g \in {{}, {<<"g1", "g2">>}}}

(* Files with each of the faults, and with two. *)
Bad ==
    {Unreadable, NotToml,
     [Minimal EXCEPT !.control_plane_url = {}],
     [Minimal EXCEPT !.control_plane_url = {" "}],
     [Minimal EXCEPT !.control_plane_url = {"\t"}],
     [Minimal EXCEPT !.registration_token_env = {""}],
     [Minimal EXCEPT !.max_concurrency = {0}],
     [Minimal EXCEPT !.control_plane_url = {""}, !.max_concurrency = {0}]}

MCBlank == {"", " ", "\t"}

MCFiles == Good \cup Bad
=============================================================================
