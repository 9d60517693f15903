--------------------------- MODULE MCJobIsolation ---------------------------
(* Dispatches and environments for the run of JobIsolation.  Names of       *)
(* variables and credentials are texts, like the labels.                    *)
EXTENDS JobIsolation

PATH == <<"PATH">>
HOME == <<"HOME">>
MCEnvNames == {PATH, HOME}
MCCredentialRefs == {<<"cred">>, <<"other">>}

(* Ids that are empty, begin one another, or are a word of the labels;     *)
(* three dispatches of one job with different boundaries.                  *)
D(job, workspace, env, ref) ==
    [job_id |-> job, workspace_id |-> workspace, allowed_env |-> env, scoped_credential_ref |-> ref]

MCDispatches ==
    {D(<<>>, <<>>, {PATH}, {<<"cred">>}),
     D(<<"a", "artifacts">>, <<>>, {PATH}, {<<"cred">>}),
     D(<<"a">>, <<"artifacts">>, {PATH}, {<<"cred">>}),
     D(<<"a">>, <<"artifacts", "a">>, EnvNames, {}),
     D(<<"a">>, <<>>, {}, {<<"other">>})}

MCEnvironments == {<<>>, <<<<PATH, "old">>, <<HOME, "old">>, <<PATH, "new">>>>}
=============================================================================
