---------------------------- MODULE MCSitePolicy ----------------------------
EXTENDS SitePolicy
=============================================================================
