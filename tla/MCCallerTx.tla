----------------------------- MODULE MCCallerTx -----------------------------
EXTENDS CallerTx

MCOwnerOf == [t \in Tenants |-> IF t = "ta" THEN "a" ELSE "b"]
MCTools == {"build_revoke_token", "get_agent", "broadcast_agent_chain_tx",
            "broadcast_signed_tx"}
MCFaults == {{}, {"token_hash"}}
=============================================================================
