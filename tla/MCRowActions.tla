---------------------------- MODULE MCRowActions ----------------------------
(* Row actions for one resource of every kind of menu.                     *)
EXTENDS RowActions, TLC

MCResources ==
  {"deployment.apps", "cronjob.batch", "pod", "node", "certificatesigningrequest.certificates.k8s.io",
   "kustomization.kustomize.toolkit.fluxcd.io", "certificate.cert-manager.io",
   "certificaterequest.cert-manager.io"}
MCCertManager == {"certificate.cert-manager.io", "certificaterequest.cert-manager.io"}
MCTyped == {NaN, 2, -1}
MCSymmetry == Permutations(Names)
=============================================================================
