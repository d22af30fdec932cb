---------------------------- MODULE MCAdminSite ----------------------------
(* A small instance of AdminSite. *)
EXTENDS AdminSite

MCTyped ==
  {Get(Root), Get(Plain(Server(<<>>))), Get(Slash(Server(<<>>))),
   Get(Plain(Server(<<"..">>))),
   Get(Plain(<<".well-known", "change-password">>)),
   Get(Plain(Server(<<"logout">>))), Get(Plain(Server(<<"config", "info">>))),
   Post(Plain(Server(<<"login">>)), "password"), Get(Plain(Server(<<"config", "setup">>))),
   Post(Plain(Server(<<"config", "setup", "token">>)), "token"),
   Post(Plain(Server(<<"config", "setup", "token">>)), "nothing"),
   Post(Plain(Server(<<"config", "setup", "complete">>)), "setup")}
=============================================================================
