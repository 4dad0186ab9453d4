----------------------------- MODULE MCWalletStore -----------------------------
(* WalletStore over both backends: four headers in two files, revalidated  *)
(* three at a time.                                                        *)
EXTENDS WalletStore

MCBackends == {"opfs", "node"}
===============================================================================
